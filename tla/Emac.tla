-------------------------------- MODULE Emac --------------------------------
(***************************************************************************)
(* The Ethernet driver (lwip/src/arch/lpc18xx_43xx_emac.c): the rings of   *)
(* receive and transmit descriptors it shares with the DMA engine of the   *)
(* MAC, and the pbufs they refer to.  The main loop (src/emac_app.cpp)     *)
(* polls the receive ring and then reclaims transmit descriptors; frames   *)
(* are sent in between, by the stack and by the tasks.  Without an RTOS    *)
(* (NO_SYS 1) nothing else runs, but the DMA engine works at any time.     *)
(*                                                                         *)
(* A received frame is its number, a frame to send its number and the      *)
(* number of pbufs in its chain.  External: the DMA engine, which walks    *)
(* the rings in order and stops at a descriptor it does not own, and the   *)
(* heap of pbufs.                                                          *)
(***************************************************************************)
EXTENDS Integers, Sequences, FiniteSets

CONSTANTS
  LPC_NUM_BUFF_TXDESCS,
  LPC_NUM_BUFF_RXDESCS,
  RxPbuf,        \* pbufs for received frames that fit in the heap
  NoRxPbuf,
  MaxChain,      \* pbufs in the chain of a frame to send
  MaxPerPass,    \* frames sent between two calls of lpc_tx_reclaim
  MaxTxFrames,   \* bound: frames sent
  MaxRxFrames    \* bound: frames received

ASSUME EmacAssumption ==
  /\ LPC_NUM_BUFF_TXDESCS \in Nat /\ LPC_NUM_BUFF_TXDESCS >= 2
  /\ LPC_NUM_BUFF_RXDESCS \in Nat /\ LPC_NUM_BUFF_RXDESCS >= 3
  /\ MaxChain \in 1 .. LPC_NUM_BUFF_TXDESCS
  /\ {MaxPerPass, MaxTxFrames, MaxRxFrames} \subseteq Nat
  /\ IsFiniteSet(RxPbuf) /\ NoRxPbuf \notin RxPbuf

TxIndex == 0 .. LPC_NUM_BUFF_TXDESCS - 1
RxIndex == 0 .. LPC_NUM_BUFF_RXDESCS - 1

VARIABLES
  ptdesc,    \* transmit descriptors: OWN, FS and LS bits, frame and part they point to
  txpbufs,   \* frame to free when the descriptor is reclaimed, 0: none
  txRing,    \* tx_free_descs, tx_fill_idx, tx_reclaim_idx
  txDma,     \* descriptor the DMA engine looks at
  out,       \* lpc_low_level_output in work: frame, length of its chain, dn, fidx
  frames,    \* the frames sent: length of the pbuf chain, references to it
  wire,      \* the descriptors the DMA engine has read (history)
  prdesc,    \* receive descriptors: OWN bit, status, frame number written
  rxpbufs,   \* pbuf of each receive descriptor
  rxRing,    \* rx_free_descs, rx_get_idx, rx_next_idx
  rxDma,
  content,   \* frame number in each pbuf of the heap
  above,     \* pbufs the stack above holds
  delivered, \* frames given to the stack, in order (history)
  arrived,   \* frames the DMA engine received (bounded)
  pass       \* where the main loop is, and the frames sent since the last reclaim

emacVars == <<ptdesc, txpbufs, txRing, txDma, out, frames, wire, prdesc, rxpbufs, rxRing, rxDma,
              content, above, delivered, arrived, pass>>
txVars == <<ptdesc, txpbufs, txRing, txDma, out, frames, wire>>
rxVars == <<prdesc, rxpbufs, rxRing, rxDma, content, above, delivered, arrived>>

NextIdx(i, n) == IF i + 1 >= n THEN 0 ELSE i + 1
TxNext(i) == NextIdx(i, LPC_NUM_BUFF_TXDESCS)
RxNext(i) == NextIdx(i, LPC_NUM_BUFF_RXDESCS)

NoDesc == [own |-> FALSE, fs |-> FALSE, ls |-> FALSE, frame |-> 0, part |-> 0]
Idle == [state |-> "none", frame |-> 0, len |-> 0, dn |-> 0, fidx |-> 0]
\* The receive descriptors that have a pbuf: from rx_get_idx up to rx_next_idx.
InUse == {(rxRing.get + k) % LPC_NUM_BUFF_RXDESCS :
            k \in 0 .. LPC_NUM_BUFF_RXDESCS - rxRing.free - 1}
InRing == {rxpbufs[i] : i \in InUse}
Heap == RxPbuf \ (InRing \cup above)

-----------------------------------------------------------------------------
(* Reception                                                               *)

\* Sequences of n different pbufs out of a set; which ones does not matter to
\* the driver, so one is enough.
Allocated(free, n) ==
  LET k == IF n < Cardinality(free) THEN n ELSE Cardinality(free)
  IN  CHOOSE s \in [1 .. k -> free] : \A a, b \in 1 .. k : a # b => s[a] # s[b]

\* lpc_rx_setup(): all descriptors are filled, as far as there is memory.
RxSetup ==
  LET ps == Allocated(RxPbuf, LPC_NUM_BUFF_RXDESCS)
  IN  /\ prdesc = [i \in RxIndex |-> [own |-> i < Len(ps), status |-> "none", frame |-> 0]]
      /\ rxpbufs = [i \in RxIndex |-> IF i < Len(ps) THEN ps[i + 1] ELSE NoRxPbuf]
      /\ rxRing = [free |-> LPC_NUM_BUFF_RXDESCS - Len(ps), get |-> 0,
                   next |-> Len(ps) % LPC_NUM_BUFF_RXDESCS]

\* lpc_tx_setup()
TxSetup ==
  /\ ptdesc = [i \in TxIndex |-> NoDesc]
  /\ txpbufs = [i \in TxIndex |-> 0]
  /\ txRing = [free |-> LPC_NUM_BUFF_TXDESCS, fill |-> 0, reclaim |-> 0]

\* low_level_init()
EmacInit ==
  /\ RxSetup
  /\ rxDma = 0 /\ content = [p \in RxPbuf |-> 0] /\ above = {} /\ delivered = <<>> /\ arrived = 0
  /\ TxSetup
  /\ txDma = 0 /\ out = Idle /\ frames = <<>> /\ wire = <<>>
  /\ pass = [at |-> "input", sent |-> 0]

\* The DMA engine stores a frame in the descriptor it looks at, if it owns it;
\* a frame that finds none is lost.  The status says whether it is damaged.
DmaReceive(status) ==
  /\ arrived < MaxRxFrames
  /\ arrived' = arrived + 1
  /\ IF prdesc[rxDma].own
       THEN /\ prdesc' = [prdesc EXCEPT ![rxDma] = [own |-> FALSE, status |-> status,
                                                    frame |-> arrived + 1]]
            /\ content' = [content EXCEPT ![rxpbufs[rxDma]] = arrived + 1]
            /\ rxDma' = RxNext(rxDma)
       ELSE UNCHANGED <<prdesc, content, rxDma>>
  /\ UNCHANGED <<rxpbufs, rxRing, above, delivered, pass>> /\ UNCHANGED txVars

\* lpc_rxqueue_pbuf() for the pbufs ps in turn: each goes to the descriptor at
\* rx_next_idx, which moves on.
RxQueuePbuf(ring, ps) ==
  LET behind(i) == (i + LPC_NUM_BUFF_RXDESCS - ring.next) % LPC_NUM_BUFF_RXDESCS
  IN  /\ prdesc' = [i \in RxIndex |->
                      IF behind(i) < Len(ps) THEN [own |-> TRUE, status |-> "none", frame |-> 0]
                      ELSE prdesc[i]]
      /\ rxpbufs' = [i \in RxIndex |->
                       IF behind(i) < Len(ps) THEN ps[behind(i) + 1] ELSE rxpbufs[i]]
      /\ rxRing' = [get |-> ring.get, free |-> ring.free - Len(ps),
                    next |-> (ring.next + Len(ps)) % LPC_NUM_BUFF_RXDESCS]

\* lpc_rx_queue(): fills descriptors while there are free ones and the heap
\* has memory.
RxQueue(ring) == RxQueuePbuf(ring, Allocated(Heap, ring.free))

\* The descriptor at rx_get_idx is taken out of the ring.
TakeDescriptor ==
  [get |-> RxNext(rxRing.get), free |-> rxRing.free + 1, next |-> rxRing.next]

\* The stack keeps the pbuf of a frame, or lpc_enetif_input frees it: an
\* unknown frame type, or an error of netif->input.
Deliver(p, kept) ==
  /\ above' = IF kept THEN above \cup {p} ELSE above
  /\ delivered' = IF kept THEN Append(delivered, content[p]) ELSE delivered

\* lpc_low_level_input() of a frame; a damaged one goes back into the ring.
TakeFrame(kept) ==
  IF prdesc[rxRing.get].status = "bad"
  THEN /\ RxQueuePbuf(TakeDescriptor, <<rxpbufs[rxRing.get]>>)
       /\ UNCHANGED <<above, delivered>>
  ELSE RxQueue(TakeDescriptor) /\ Deliver(rxpbufs[rxRing.get], kept)

\* Mutant: an empty ring is not filled again.
InputNeverRefills(kept) ==
  /\ pass.at = "input"
  /\ IF rxRing.free = LPC_NUM_BUFF_RXDESCS \/ prdesc[rxRing.get].own
       THEN UNCHANGED <<prdesc, rxpbufs, rxRing, above, delivered>>
       ELSE TakeFrame(kept)
  /\ pass' = [pass EXCEPT !.at = "reclaim"]
  /\ UNCHANGED <<rxDma, content, arrived>> /\ UNCHANGED txVars

\* lpc_enetif_input() with lpc_low_level_input().
Input(kept) ==
  /\ pass.at = "input"
  /\ IF rxRing.free = LPC_NUM_BUFF_RXDESCS
       THEN RxQueue(rxRing) /\ UNCHANGED <<above, delivered>>
     ELSE IF prdesc[rxRing.get].own
       THEN UNCHANGED <<prdesc, rxpbufs, rxRing, above, delivered>>
     ELSE TakeFrame(kept)
  /\ pass' = [pass EXCEPT !.at = "reclaim"]
  /\ UNCHANGED <<rxDma, content, arrived>> /\ UNCHANGED txVars

\* The stack (or a task it gave the pbuf to) frees a pbuf.
StackFrees(p) ==
  /\ p \in above
  /\ above' = above \ {p}
  /\ UNCHANGED <<prdesc, rxpbufs, rxRing, rxDma, content, delivered, arrived, pass>>
  /\ UNCHANGED txVars

-----------------------------------------------------------------------------
(* Transmission                                                            *)

\* A call of lpc_low_level_output() with a chain of len pbufs; the caller
\* holds a reference.
OutputCall(len) ==
  /\ out.state = "none" /\ Len(frames) < MaxTxFrames /\ pass.sent < MaxPerPass
  /\ out' = [state |-> "wait", frame |-> Len(frames) + 1, len |-> len, dn |-> len, fidx |-> 0]
  /\ frames' = Append(frames, [len |-> len, refs |-> 1])
  /\ pass' = [pass EXCEPT !.sent = @ + 1]
  /\ UNCHANGED <<ptdesc, txpbufs, txRing, txDma, wire>> /\ UNCHANGED rxVars

\* while(dn > lpc_tx_ready()) msDelay(1): nothing happens until enough
\* descriptors are free.
OutputReady ==
  /\ out.state = "wait" /\ out.dn <= txRing.free
  /\ out' = [out EXCEPT !.state = "fill", !.fidx = txRing.fill]
  /\ UNCHANGED <<ptdesc, txpbufs, txRing, txDma, frames, wire, pass>> /\ UNCHANGED rxVars

\* The descriptor i for the next part of the frame; the bits are or-ed into
\* what lpc_tx_reclaim() left in CTRLSTAT.
FilledDesc(i, own) ==
  [own |-> ptdesc[i].own \/ own, frame |-> out.frame, part |-> out.len - out.dn + 1,
   fs |-> ptdesc[i].fs \/ i = out.fidx, ls |-> ptdesc[i].ls \/ out.dn = 1]

\* Mutant: the first descriptor is handed over before the others are filled.
FillOwnsFirst ==
  /\ out.state = "fill" /\ out.dn > 0
  /\ LET i == txRing.fill
     IN  /\ ptdesc' = [ptdesc EXCEPT ![i] = FilledDesc(i, TRUE)]
         /\ txpbufs' = [txpbufs EXCEPT ![i] = IF out.dn = 1 THEN out.frame ELSE 0]
         /\ frames' = IF i = out.fidx THEN [frames EXCEPT ![out.frame].refs = @ + 1] ELSE frames
         /\ txRing' = [txRing EXCEPT !.free = @ - 1, !.fill = TxNext(i)]
  /\ out' = [out EXCEPT !.dn = @ - 1]
  /\ UNCHANGED <<txDma, wire, pass>> /\ UNCHANGED rxVars

\* One turn of the loop that fills the descriptors.  The first one is not
\* given to the DMA engine yet; the frame is noted at the last one.
Fill ==
  /\ out.state = "fill" /\ out.dn > 0
  /\ LET i == txRing.fill
     IN  /\ ptdesc' = [ptdesc EXCEPT ![i] = FilledDesc(i, i # out.fidx)]
         /\ txpbufs' = [txpbufs EXCEPT ![i] = IF out.dn = 1 THEN out.frame ELSE 0]
         /\ frames' = IF i = out.fidx THEN [frames EXCEPT ![out.frame].refs = @ + 1] ELSE frames
         /\ txRing' = [txRing EXCEPT !.free = @ - 1, !.fill = TxNext(i)]
  /\ out' = [out EXCEPT !.dn = @ - 1]
  /\ UNCHANGED <<txDma, wire, pass>> /\ UNCHANGED rxVars

\* The end of lpc_low_level_output(): the first descriptor is handed over, and
\* the caller frees its reference.
OutputDone ==
  /\ out.state = "fill" /\ out.dn = 0
  /\ ptdesc' = [ptdesc EXCEPT ![out.fidx].own = TRUE]
  /\ frames' = [frames EXCEPT ![out.frame].refs = @ - 1]
  /\ out' = Idle
  /\ UNCHANGED <<txpbufs, txRing, txDma, wire, pass>> /\ UNCHANGED rxVars

\* The DMA engine reads the descriptor it looks at and gives it back.
DmaTransmit ==
  /\ ptdesc[txDma].own
  /\ wire' = Append(wire, ptdesc[txDma])
  /\ ptdesc' = [ptdesc EXCEPT ![txDma].own = FALSE]
  /\ txDma' = TxNext(txDma)
  /\ UNCHANGED <<txpbufs, txRing, out, frames, pass>> /\ UNCHANGED rxVars

\* lpc_tx_reclaim(): the descriptors from tx_reclaim_idx on that are in use and
\* not owned by the DMA engine; the frames noted at them are freed.
ReclaimCount ==
  LET used == LPC_NUM_BUFF_TXDESCS - txRing.free
      idx(k) == (txRing.reclaim + k) % LPC_NUM_BUFF_TXDESCS
  IN  CHOOSE n \in 0 .. used :
        /\ \A k \in 0 .. n - 1 : ~ptdesc[idx(k)].own
        /\ n < used => ptdesc[idx(n)].own

Reclaim ==
  /\ pass.at = "reclaim" /\ out.state = "none"
  /\ LET n == ReclaimCount
         done == {(txRing.reclaim + k) % LPC_NUM_BUFF_TXDESCS : k \in 0 .. n - 1}
         freed == {txpbufs[i] : i \in done}
     IN  /\ frames' = [f \in DOMAIN frames |->
                        IF f \in freed THEN [frames[f] EXCEPT !.refs = @ - 1] ELSE frames[f]]
         /\ ptdesc' = [i \in TxIndex |-> IF i \in done THEN NoDesc ELSE ptdesc[i]]
         /\ txRing' = [txRing EXCEPT !.free = @ + n,
                             !.reclaim = (@ + n) % LPC_NUM_BUFF_TXDESCS]
  /\ pass' = [at |-> "input", sent |-> 0]
  /\ UNCHANGED <<txpbufs, txDma, out, wire>> /\ UNCHANGED rxVars

Driver ==
  \/ out.state = "none" /\ \E kept \in BOOLEAN : Input(kept)
  \/ OutputReady \/ Fill \/ OutputDone
  \/ Reclaim

EmacNext ==
  \/ Driver
  \/ \E len \in 1 .. MaxChain : OutputCall(len)
  \/ \E status \in {"ok", "bad"} : DmaReceive(status)
  \/ DmaTransmit
  \/ \E p \in RxPbuf : StackFrees(p)

EmacSpec == EmacInit /\ [][EmacNext]_emacVars

\* The main loop goes round, the DMA engine sends what it is given and the
\* stack frees every frame in the end.
FairEmac ==
  /\ EmacSpec
  /\ WF_emacVars(Driver) /\ WF_emacVars(DmaTransmit)
  /\ WF_emacVars(\E p \in RxPbuf : StackFrees(p))

-----------------------------------------------------------------------------
(* Properties                                                              *)

\* The variables have their types, and the free counts agree with the indices.
EmacTypeOK ==
  /\ txRing.free \in 0 .. LPC_NUM_BUFF_TXDESCS /\ rxRing.free \in 0 .. LPC_NUM_BUFF_RXDESCS
  /\ (txRing.fill - txRing.reclaim + txRing.free) % LPC_NUM_BUFF_TXDESCS = 0
  /\ (rxRing.next - rxRing.get + rxRing.free) % LPC_NUM_BUFF_RXDESCS = 0
  /\ {txRing.fill, txRing.reclaim, txDma} \subseteq TxIndex
  /\ {rxRing.get, rxRing.next, rxDma} \subseteq RxIndex
  /\ \A f \in DOMAIN frames : frames[f].refs \in 0 .. 2
  /\ above \subseteq RxPbuf /\ out.state \in {"none", "wait", "fill"}

\* What goes over the wire is whole frames in the order they were sent: the DMA
\* engine never starts on a chain that is still being filled (the first
\* descriptor is handed over last), and its first and last bits are right
\* after the ring has wrapped.
FramesWhole ==
  \A i \in DOMAIN wire :
    /\ wire[i].fs = (wire[i].part = 1)
    /\ wire[i].ls = (wire[i].part = frames[wire[i].frame].len)
    /\ IF i = 1 THEN wire[1].frame = 1 /\ wire[1].part = 1
       ELSE IF wire[i - 1].ls THEN wire[i].frame = wire[i - 1].frame + 1 /\ wire[i].part = 1
       ELSE wire[i].frame = wire[i - 1].frame /\ wire[i].part = wire[i - 1].part + 1

\* The memory of a frame stays allocated while a descriptor of it belongs to
\* the DMA engine, and is freed once the ring has been reclaimed.
TxMemoryHeld ==
  /\ \A i \in TxIndex : ptdesc[i].own => frames[ptdesc[i].frame].refs > 0
  /\ txRing.free = LPC_NUM_BUFF_TXDESCS /\ out.state = "none" =>
       \A f \in DOMAIN frames : frames[f].refs = 0

\* The DMA engine never writes into a frame the stack is still using, and the
\* stack gets the undamaged frames once each, in order.
ReceivedFramesKept ==
  /\ \A i \in RxIndex : prdesc[i].own => i \in InUse
  /\ \A i, j \in InUse : rxpbufs[i] \notin above /\ (i # j => rxpbufs[i] # rxpbufs[j])
  /\ \A i, j \in DOMAIN delivered : i < j => delivered[i] < delivered[j]

\* The memory the DMA engine works on is sound: frames leave whole, the memory of a
\* frame is held until it was sent, and no pbuf the stack holds is written to.
DriverMemorySafe == EmacTypeOK /\ FramesWhole /\ TxMemoryHeld /\ ReceivedFramesKept

\* Reception recovers when the ring ran out of pbufs: lpc_low_level_input fills
\* it again once the stack has freed some (unless the output is stuck).
ReceptionRecovers ==
  rxRing.free = LPC_NUM_BUFF_RXDESCS ~> rxRing.free < LPC_NUM_BUFF_RXDESCS \/ out.state = "wait"

\* "THIS WILL BLOCK UNTIL THERE ARE ENOUGH DESCRIPTORS AVAILABLE"
\* (lpc_low_level_output): the wait for free descriptors ends.
OutputReturns == out.state = "wait" ~> out.state = "none"
=============================================================================
