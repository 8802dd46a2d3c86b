---------------------------- MODULE DataBuffers ----------------------------
(***************************************************************************)
(* The container of data blocks between the slaves and the VU:             *)
(* inc/tdatabufferscontainer.h and src/data_buffers.cpp, with the requests *)
(* of the VU that read it (src/p_extMsgAppTypeHandler.cpp).  A block's     *)
(* contents are abstracted to its packet number, its sync time and the     *)
(* class of its size.                                                      *)
(*                                                                         *)
(* The two initial states are the two builds of data_buffers.cpp: the      *)
(* normal one starts empty, the SIM_DATA one writes a block per buffer     *)
(* before anything else runs.                                              *)
(***************************************************************************)
EXTENDS Integers, FiniteSets, FiniteSetsExt

CONSTANTS
  DATA_BUFFERS_N,  \* number of buffers
  MaxPacket,       \* bound: packet numbers are 0 .. MaxPacket
  MaxSync          \* bound: sync times are 0 .. MaxSync

ASSUME BuffersAssumption ==
  /\ DATA_BUFFERS_N \in Nat \ {0}
  /\ MaxPacket \in Nat /\ MaxPacket >= DATA_BUFFERS_N - 1
  /\ MaxSync \in Nat

VARIABLES
  cont,      \* the container: buf, nFree, nFull, iFree, iFull
  simLeft,   \* blocks init() has still to write in the SIM_DATA build
  answer,    \* reply to the VU's last request
  wrote      \* a slave's block was accepted (history)

bufferVars == <<cont, simLeft, answer, wrote>>

size   == DATA_BUFFERS_N
Index  == 0 .. size - 1
kRcErr == -1

\* A block of samples: "empty", "fits" in a buffer, or "large".
Packet == 0 .. MaxPacket
Sync   == 0 .. MaxSync
Block  == [packet : Packet, sync : Sync, size : {"empty", "fits", "large"}]

\* ++i with the wrap at size
After(i) == IF i + 1 >= size THEN 0 ELSE i + 1

FreeIndices(c) == {i \in Index : ~c.buf[i].full}
FullIndices(c) == {i \in Index : c.buf[i].full}

-----------------------------------------------------------------------------
(* TDataBuffersContainer                                                   *)

\* lockFreeBuffer(): the new container and the chosen index.  The search loop
\* tests buffers[i] for i = 0, 1, ... while it advances index from iFree, so the
\* index is iFree plus the number of the first free buffer.
LockFreeBuffer(c) ==
  IF c.nFree = 0 THEN [c |-> c, n |-> kRcErr]
  ELSE LET c1 == [c EXCEPT !.iFree = After(c.iFree), !.nFree = c.nFree - 1]
       IN  IF FreeIndices(c) = {} THEN [c |-> c1, n |-> kRcErr]
           ELSE LET n == (c.iFree + Min(FreeIndices(c))) % size
                IN  [c |-> [c1 EXCEPT !.buf[n].packet = 0, !.buf[n].size = "empty",
                                      !.buf[n].full = TRUE],
                     n |-> n]

\* Mutant: releasing a buffer that is free counts it again.
ReleaseCountsFreeBuffers(c, n) ==
  LET nFree == IF c.nFree < size THEN c.nFree + 1 ELSE c.nFree
  IN  [c EXCEPT !.nFree = nFree,
                !.iFree = IF nFree = 1 THEN n ELSE c.iFree,
                !.iFull = IF c.buf[n].full /\ c.nFull > 0 THEN After(c.iFull) ELSE c.iFull,
                !.buf[n].full = FALSE, !.buf[n].packet = 0]

\* Mutant: the number of free buffers is not raised.
ReleaseOnlyDecrements(c, n) ==
  [c EXCEPT !.nFree = IF c.buf[n].full /\ c.nFree > 0 THEN c.nFree - 1 ELSE c.nFree,
            !.iFull = IF c.buf[n].full /\ c.nFull > 0 THEN After(c.iFull) ELSE c.iFull,
            !.buf[n].full = FALSE, !.buf[n].packet = 0]

\* releaseBuffer(): a full buffer takes one from nFree, then every buffer that was
\* not free adds one.
ReleaseBuffer(c, n) ==
  LET full  == c.buf[n].full
      taken == IF full /\ c.nFree > 0 THEN c.nFree - 1 ELSE c.nFree
      nFree == IF full /\ taken < size THEN taken + 1 ELSE taken
  IN  [c EXCEPT !.nFree = nFree,
                !.iFree = IF full /\ nFree = 1 THEN n ELSE c.iFree,
                !.iFull = IF full /\ c.nFull > 0 THEN After(c.iFull) ELSE c.iFull,
                !.buf[n].full = FALSE, !.buf[n].packet = 0]

\* unlockBuffer()
UnlockBuffer(c, n) ==
  IF c.buf[n].size = "empty" THEN ReleaseBuffer(c, n)
  ELSE LET nFull == IF c.nFull < size THEN c.nFull + 1 ELSE c.nFull
       IN  [c EXCEPT !.buf[n].full = TRUE, !.nFull = nFull,
                     !.iFull = IF nFull = 1 THEN n ELSE c.iFull]

\* Mutant: the block after the acknowledged one is released.
ReleaseNextPacket(c, pn) ==
  LET found == {i \in Index : c.buf[i].packet = pn + 1}
  IN  IF found = {} THEN c ELSE ReleaseBuffer(c, Min(found))

\* releaseBufferByPacketNumber(): the first buffer with that packet number, full
\* or not.
ReleaseBufferByPacketNumber(c, pn) ==
  LET found == {i \in Index : c.buf[i].packet = pn}
  IN  IF found = {} THEN c ELSE ReleaseBuffer(c, Min(found))

\* getFullBufferSortBySync(): the first full buffer with the least sync.
GetFullBufferSortBySync(c) ==
  IF FullIndices(c) = {} THEN kRcErr
  ELSE Min({i \in FullIndices(c) :
              \A j \in FullIndices(c) : c.buf[i].sync <= c.buf[j].sync})

-----------------------------------------------------------------------------
(* data_buffers                                                            *)

\* The constructor and init(); rawBuffer is zeroed memory.
BuffersInit ==
  /\ cont = [buf   |-> [i \in Index |-> [packet |-> 0, sync |-> 0, size |-> "empty",
                                         full |-> FALSE]],
             nFree |-> size, nFull |-> 0, iFree |-> 0, iFull |-> 0]
  /\ simLeft \in {0, size}
  /\ answer = [kind |-> "none", packet |-> 0]
  /\ wrote = FALSE

\* One turn of the loop of init() under SIM_DATA: lock, fill, unlock.  `now' does
\* not run backwards while the loop runs.
SimFill(t) ==
  /\ simLeft > 0
  /\ \A i \in FullIndices(cont) : cont.buf[i].sync <= t
  /\ LET r == LockFreeBuffer(cont)
     IN  cont' = IF r.n = kRcErr THEN r.c
                 ELSE UnlockBuffer([r.c EXCEPT !.buf[r.n].size = "fits",
                                               !.buf[r.n].packet = size - simLeft,
                                               !.buf[r.n].sync = t], r.n)
  /\ simLeft' = simLeft - 1
  /\ UNCHANGED <<answer, wrote>>

\* writeBuffer() of a block with the right dataId (any other is refused before
\* anything changes).  The size is checked after the buffer was locked.
WriteBuffer(b) ==
  /\ simLeft = 0
  /\ LET r == LockFreeBuffer(cont)
     IN  /\ cont' = IF r.n = kRcErr \/ b.size = "large" THEN r.c
                    ELSE [r.c EXCEPT !.buf[r.n] = [packet |-> b.packet, sync |-> b.sync,
                                                   size |-> b.size, full |-> TRUE]]
         /\ wrote' = (wrote \/ r.n # kRcErr)
  /\ UNCHANGED <<simLeft, answer>>

\* getDataReadyInfo() # kNoData
DataReady(c) == c.nFull > 0

\* MsgApp_RequestData: DataAbsence when no data are ready, else the chosen block;
\* nothing is sent when data are ready and no buffer is full.
HandleRequestData ==
  /\ simLeft = 0
  /\ LET n == GetFullBufferSortBySync(cont)
     IN  IF ~DataReady(cont)
           THEN answer' = [kind |-> "absence", packet |-> 0] /\ UNCHANGED cont
         ELSE IF n = kRcErr
           THEN answer' = [kind |-> "nothing", packet |-> 0] /\ UNCHANGED cont
         ELSE /\ answer' = [kind |-> "data", packet |-> cont.buf[n].packet]
              /\ cont' = [cont EXCEPT !.iFull = n]
  /\ UNCHANGED <<simLeft, wrote>>

\* MsgApp_DataAcknowledge of packet pn, which may be late or repeated.
DataAcknowledge(pn) ==
  /\ simLeft = 0
  /\ cont' = ReleaseBufferByPacketNumber(cont, pn)
  /\ UNCHANGED <<simLeft, answer, wrote>>

BuffersNext ==
  \/ \E t \in Sync : SimFill(t)
  \/ \E b \in Block : WriteBuffer(b)
  \/ HandleRequestData
  \/ \E pn \in Packet : DataAcknowledge(pn)

BuffersSpec == BuffersInit /\ [][BuffersNext]_bufferVars

\* init() runs to its end, and the VU goes on requesting blocks and acknowledging
\* what it is sent.
BuffersFairness ==
  /\ WF_bufferVars(\E t \in Sync : SimFill(t))
  /\ WF_bufferVars(HandleRequestData)
  /\ WF_bufferVars(answer.kind = "data" /\ DataAcknowledge(answer.packet))

FairBuffers == BuffersSpec /\ BuffersFairness

-----------------------------------------------------------------------------
\* Types: the counters and indices stay in the range of the array.
BuffersTypeOK ==
  /\ cont \in [buf : [Index -> [packet : Packet, sync : Sync,
                                size : {"empty", "fits", "large"}, full : BOOLEAN]],
               nFree : 0 .. size, nFull : 0 .. size, iFree : Index, iFull : Index]
  /\ simLeft \in 0 .. size
  /\ answer \in [kind : {"none", "absence", "nothing", "data"}, packet : Packet]
  /\ wrote \in BOOLEAN

\* The types hold and nFree never exceeds the number of buffers that really are free, whatever the
\* order of writes, acknowledgements and repeated acknowledgements: the search of
\* lockFreeBuffer() always finds a free buffer once the nFree test is passed.
FreeCountSafe == BuffersTypeOK /\ cont.nFree <= Cardinality(FreeIndices(cont))

\* An acknowledgement that frees a block makes room for another: the next write
\* is not refused for lack of buffers.
AckMakesRoom ==
  [][(\E pn \in Packet : DataAcknowledge(pn)) /\ FreeIndices(cont') # FreeIndices(cont)
       => cont'.nFree > 0]_bufferVars

\* The blocks of the SIM_DATA build are all delivered: a VU that keeps requesting
\* and acknowledging empties the container, as long as no slave adds blocks.
SimDrains == []~wrote => <>[](FullIndices(cont) = {})

-----------------------------------------------------------------------------
(* What comments of the source promise, and the runs show not to hold.     *)

\* tdatabufferscontainer.h:140 and data_buffers.cpp:224: a block is written to the
\* next free buffer.  A full buffer keeps its block until it is released.
FullBlocksKept ==
  [][\A i \in Index :
       cont.buf[i].full /\ cont'.buf[i].full => cont'.buf[i] = cont.buf[i]]_bufferVars

\* data_buffers.cpp:204-207: kNoData means that there are no data, kIsFullBuffer
\* that one or more buffers are full.  A stored block of samples is announced.
StoredBlocksOffered ==
  (\E i \in FullIndices(cont) : cont.buf[i].size # "empty") => DataReady(cont)
=============================================================================
