-------------------------------- MODULE Heap --------------------------------
(***************************************************************************)
(* The first-fit heap of lwIP (lwip/src/core/mem.c).  The heap is one      *)
(* array of bytes in which every block starts with a header struct mem     *)
(* holding the offsets of the next and of the previous block and a used    *)
(* flag; ram_end closes the list and lfree points to the lowest free       *)
(* block, from which every search starts.                                  *)
(*                                                                         *)
(* The allocator is modelled with LWIP_ALLOW_MEM_FREE_FROM_OTHER_CONTEXT:  *)
(* mem_malloc opens its critical section once for every block it looks at, *)
(* and mem_free or mem_trim of another context (an interrupt) may run in   *)
(* that window.  Without the option the behaviours are the ones in which   *)
(* nothing runs there.  Sizes and offsets count units of MEM_ALIGNMENT.    *)
(* The firmware is built with MEM_LIBC_MALLOC, which leaves this code out. *)
(***************************************************************************)
EXTENDS Naturals, FiniteSets, TLC

CONSTANTS
    MEM_SIZE,           \* MEM_SIZE_ALIGNED, the offset of ram_end
    SIZEOF_STRUCT_MEM,  \* the size of a header
    MIN_SIZE,           \* MIN_SIZE_ALIGNED, the smallest data part of a block
    Sizes               \* the sizes the callers ask for

HeapAssumption ==
    /\ MEM_SIZE \in Nat /\ SIZEOF_STRUCT_MEM \in Nat \ {0} /\ MIN_SIZE \in Nat \ {0}
    /\ MEM_SIZE >= SIZEOF_STRUCT_MEM + MIN_SIZE
    /\ Sizes \subseteq Nat

VARIABLES
    ram,            \* offset of a header -> the header [next, prev, used]
    lfree,          \* the offset of the lowest free block
    mem_free_count, \* a mem_free or mem_trim ran in the window of mem_malloc
    malloc,         \* the mem_malloc under way [at, size, ptr, cur]
    granted,        \* the blocks callers hold: {[at, size]}
    refused         \* the size mem_malloc has just refused, or 0

vars == <<ram, lfree, mem_free_count, malloc, granted, refused>>

Idle == [at |-> "idle", size |-> 0, ptr |-> 0, cur |-> 0]

\* mem_init: one free block up to ram_end, which is never given out.
Init ==
    /\ ram = (0 :> [next |-> MEM_SIZE, prev |-> 0, used |-> FALSE])
             @@ (MEM_SIZE :> [next |-> MEM_SIZE, prev |-> MEM_SIZE, used |-> TRUE])
    /\ lfree = 0
    /\ mem_free_count = 0
    /\ malloc = Idle
    /\ granted = {}
    /\ refused = 0

-----------------------------------------------------------------------------

\* The data size of the block at ptr.
Room(h, ptr) == h[ptr].next - (ptr + SIZEOF_STRUCT_MEM)

\* Every data part is at least MIN_SIZE long.
Rounded(size) == IF size < MIN_SIZE THEN MIN_SIZE ELSE size

\* The headers of h without the one at ptr, which has become data.
Drop(h, ptr) == [o \in DOMAIN h \ {ptr} |-> h[o]]

\* Combine the free block m with the free block after it.
Forward(s, m) ==
    LET n == s.ram[m].next
    IN  IF n # m /\ ~s.ram[n].used /\ n # MEM_SIZE
        THEN [ram |-> Drop([s.ram EXCEPT ![m].next = s.ram[n].next,
                                         ![s.ram[n].next].prev = m], n),
              lfree |-> IF s.lfree = n THEN m ELSE s.lfree]
        ELSE s

\* Combine it with the free block before it.
Backward(s, m) ==
    LET p == s.ram[m].prev
    IN  IF p # m /\ ~s.ram[p].used
        THEN [ram |-> Drop([s.ram EXCEPT ![p].next = s.ram[m].next,
                                         ![s.ram[m].next].prev = p], m),
              lfree |-> IF s.lfree = m THEN p ELSE s.lfree]
        ELSE s

PlugHoles(s, m) == Backward(Forward(s, m), m)

\* The callers other than the one inside mem_malloc run when it is idle or has
\* opened its critical section.
MemFree(g) ==
    LET freed == [ram EXCEPT ![g.at].used = FALSE]
        s == PlugHoles([ram |-> freed, lfree |-> IF g.at < lfree THEN g.at ELSE lfree], g.at)
    IN  /\ ram' = s.ram
        /\ lfree' = s.lfree
        /\ mem_free_count' = 1
        /\ granted' = granted \ {g}
        /\ refused' = 0
        /\ UNCHANGED malloc

\* A free block at ptr2 between m and the block at next, which is told of it
\* unless it is the end of the heap.
Insert(h, m, ptr2, next) ==
    LET linked == [o \in DOMAIN h \cup {ptr2} |->
                     IF o = ptr2 THEN [next |-> next, prev |-> m, used |-> FALSE]
                     ELSE IF o = m THEN [h[o] EXCEPT !.next = ptr2]
                     ELSE h[o]]
    IN  IF next # MEM_SIZE THEN [linked EXCEPT ![next].prev = ptr2] ELSE linked

\* mem_trim: the block shrinks and what it gives up joins the free block after
\* it, or becomes a free block when there is room for one.
MemTrim(g, asked) ==
    LET newsize == Rounded(asked)
        n == ram[g.at].next
        ptr2 == g.at + SIZEOF_STRUCT_MEM + newsize
    IN  /\ newsize < Room(ram, g.at)
        /\ \/ /\ ~ram[n].used
              /\ ram' = Insert(Drop(ram, n), g.at, ptr2, ram[n].next)
              /\ lfree' = IF lfree = n THEN ptr2 ELSE lfree
           \/ /\ ram[n].used
              /\ newsize + SIZEOF_STRUCT_MEM + MIN_SIZE <= Room(ram, g.at)
              /\ ram' = Insert(ram, g.at, ptr2, n)
              /\ lfree' = IF ptr2 < lfree THEN ptr2 ELSE lfree
           \/ /\ ram[n].used
              /\ newsize + SIZEOF_STRUCT_MEM + MIN_SIZE > Room(ram, g.at)
              /\ UNCHANGED <<ram, lfree>>
        /\ mem_free_count' = 1
        /\ granted' = (granted \ {g}) \cup {[g EXCEPT !.size = newsize]}
        /\ refused' = 0
        /\ UNCHANGED malloc

-----------------------------------------------------------------------------

\* The search goes on at ptr: a window is opened there, or the heap has been
\* searched to the end.
SearchAt(size, ptr) ==
    IF ptr < MEM_SIZE - size
    THEN malloc' = [at |-> "search", size |-> size, ptr |-> ptr, cur |-> ptr] /\ refused' = 0
    ELSE malloc' = Idle /\ refused' = size

\* lfree moves up to the next free block: a window is opened at every used one.
AdjustAt(h, m, cur, size) ==
    IF h[cur].used /\ cur # MEM_SIZE
    THEN malloc' = [at |-> "adjust", size |-> size, ptr |-> m, cur |-> cur] /\ UNCHANGED lfree
    ELSE malloc' = Idle /\ lfree' = cur

MallocBegin(asked) ==
    /\ malloc.at = "idle"
    /\ asked > 0 /\ Rounded(asked) <= MEM_SIZE
    /\ SearchAt(Rounded(asked), lfree)
    /\ mem_free_count' = 0
    /\ UNCHANGED <<ram, lfree, granted>>

\* Something was freed in the window: the search starts again.
MallocDisturbed ==
    /\ malloc.at = "search"
    /\ mem_free_count # 0
    /\ SearchAt(malloc.size, lfree)
    /\ mem_free_count' = 0
    /\ UNCHANGED <<ram, lfree, granted>>

Fits == ~ram[malloc.ptr].used /\ Room(ram, malloc.ptr) >= malloc.size

MallocPasses ==
    /\ malloc.at = "search"
    /\ mem_free_count = 0
    /\ ~Fits
    /\ SearchAt(malloc.size, ram[malloc.ptr].next)
    /\ UNCHANGED <<ram, lfree, mem_free_count, granted>>

\* The block is taken, split when the rest can hold a block of its own.
Taken(h, m, size) ==
    LET split == IF Room(h, m) >= size + SIZEOF_STRUCT_MEM + MIN_SIZE
                 THEN Insert(h, m, m + SIZEOF_STRUCT_MEM + size, h[m].next)
                 ELSE h
    IN  [split EXCEPT ![m].used = TRUE]

MallocTakes ==
    LET m == malloc.ptr
        h == Taken(ram, m, malloc.size)
    IN  /\ malloc.at = "search"
        /\ mem_free_count = 0
        /\ Fits
        /\ ram' = h
        /\ granted' = granted \cup {[at |-> m, size |-> malloc.size]}
        /\ IF m = lfree
           THEN AdjustAt(h, m, m, malloc.size)
           ELSE malloc' = Idle /\ UNCHANGED lfree
        /\ refused' = 0
        /\ UNCHANGED mem_free_count

\* One step of the walk to the next free block, or the walk again from lfree
\* when something was freed meanwhile.
MallocAdjusts ==
    /\ malloc.at = "adjust"
    /\ IF mem_free_count = 0
       THEN AdjustAt(ram, malloc.ptr, ram[malloc.cur].next, malloc.size)
       ELSE IF malloc.ptr = lfree
            THEN AdjustAt(ram, malloc.ptr, lfree, malloc.size)
            ELSE malloc' = Idle /\ UNCHANGED lfree
    /\ mem_free_count' = 0
    /\ refused' = 0
    /\ UNCHANGED <<ram, granted>>

\* The block mem_malloc is about to return is not known to a caller yet.
Held == {g \in granted : malloc.at # "adjust" \/ g.at # malloc.ptr}

Next ==
    \/ \E size \in Sizes : MallocBegin(size)
    \/ MallocDisturbed \/ MallocPasses \/ MallocTakes \/ MallocAdjusts
    \/ \E g \in Held : MemFree(g) \/ \E size \in Sizes : MemTrim(g, size)

Spec == Init /\ [][Next]_vars

-----------------------------------------------------------------------------

(***************************************************************************)
(* The blocks tile the heap: each one's next is a block above it whose     *)
(* prev leads back, no two neighbours are both free ("there should not     *)
(* exist one empty struct mem pointing to another", plug_holes), and every *)
(* block a caller holds is used and has the size it was given.             *)
(***************************************************************************)
HeapTiled ==
    /\ \A o \in DOMAIN ram \ {MEM_SIZE} :
         LET n == ram[o].next
         IN  /\ n \in DOMAIN ram /\ n > o
             /\ \A b \in DOMAIN ram : ~(o < b /\ b < n)
             /\ n # MEM_SIZE => ram[n].prev = o
             /\ Room(ram, o) >= MIN_SIZE
             /\ ~ram[o].used => ram[n].used
    /\ {o \in DOMAIN ram : ram[o].used} = {g.at : g \in granted} \cup {MEM_SIZE}
    /\ \A g \in granted : Room(ram, g.at) >= g.size
    /\ Cardinality({g.at : g \in granted}) = Cardinality(granted)

(***************************************************************************)
(* No free block lies below lfree, where the searches start, and mem_malloc*)
(* refuses a request only when no free block has room for it, although     *)
(* blocks may be freed, joined and trimmed while it searches.              *)
(***************************************************************************)
RefusedOnlyWhenFull ==
    /\ \A o \in DOMAIN ram : ~ram[o].used => o >= lfree
    /\ malloc.at # "adjust" => lfree = MEM_SIZE \/ ~ram[lfree].used
    /\ refused > 0 => \A o \in DOMAIN ram : ram[o].used \/ Room(ram, o) < refused

=============================================================================
