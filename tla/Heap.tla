-------------------------------- MODULE Heap --------------------------------
(***************************************************************************)
(* The kernel heap of heap.c: one contiguous zone cut into consecutive     *)
(* blocks, each starting with a header (size, free, next).  kmalloc walks  *)
(* the list first-fit and splits; kfree marks the block free and coalesce  *)
(* walks the list merging neighbours.  Each iteration of the two walks is  *)
(* one step here.  Nothing in heap.c takes a lock: the calls are serial    *)
(* because every caller runs with interrupts disabled (module Tasking      *)
(* models those contexts), so at most one call is in progress.             *)
(*                                                                         *)
(* hdr holds the headers that are on the list; a header that coalesce      *)
(* unlinks leaves the domain.  Addresses are natural numbers and NULL is 0,*)
(* as in C.  size_t has SIZE_MOD values (2^32 on this machine).            *)
(***************************************************************************)
EXTENDS Integers, FiniteSetsExt

CONSTANTS
  HEAP_SIZE,       \* bytes given to the heap (8 MiB in the code)
  KERNEL_END,      \* address of the linker symbol kernel_end
  PAGE,            \* 4096: heap_init aligns the base on it
  HDR,             \* sizeof(block_header_t)
  ALIGNMENT,       \* requests are rounded up to a multiple of it
  MIN_BLOCK_DATA,  \* smallest data size worth a block of its own
  SIZE_MOD,        \* number of values of size_t
  Sizes            \* sizes the callers of kmalloc ask for

ASSUME HeapConstants ==
  /\ HEAP_SIZE \in Nat /\ KERNEL_END \in Nat \ {0} /\ PAGE \in Nat \ {0}
  /\ HDR \in Nat \ {0} /\ ALIGNMENT \in Nat \ {0} /\ MIN_BLOCK_DATA \in Nat
  /\ SIZE_MOD \in Nat
  /\ HDR <= HEAP_SIZE
  /\ KERNEL_END + PAGE + HEAP_SIZE < SIZE_MOD

\* No request is within ALIGNMENT of the largest size_t: align_up would wrap
\* to 0 there.  Every call in the kernel asks for at most RX_BUF_SIZE bytes.
ASSUME SizesAssumption ==
  Sizes \subseteq 0 .. (SIZE_MOD - ALIGNMENT)

VARIABLES
  heap_start,   \* first header, NULL before heap_init
  hdr,          \* the headers on the list, by address
  live,         \* pointers held by callers, with the size they asked for
  pc,           \* "idle", "scan" (in kmalloc) or "coalesce" (in kfree)
  cur,          \* the walking pointer of the call in progress
  want,         \* the size asked for by the kmalloc in progress
  size          \* the same, aligned

vars == <<heap_start, hdr, live, pc, cur, want, size>>

NULL == 0

Header == [size : Nat, free : BOOLEAN, next : Nat]

-----------------------------------------------------------------------------
(* Arithmetic on size_t                                                     *)

\* Mutant: rounds down.
align_up_RoundsDown(n, align) ==
  LET m == n % SIZE_MOD IN m - (m % align)

\* (n + align - 1) & ~(align - 1), on size_t; align is a power of two.
align_up(n, align) ==
  LET m == (n + align - 1) % SIZE_MOD IN m - (m % align)

heap_base_addr == align_up(KERNEL_END, PAGE)

Limit == heap_base_addr + HEAP_SIZE

\* First address after the block whose header is at a.
End(a) == a + HDR + hdr[a].size

-----------------------------------------------------------------------------
Init ==
  /\ heap_start = NULL
  /\ hdr = [a \in {} |-> [size |-> 0, free |-> TRUE, next |-> NULL]]
  /\ live = [p \in {} |-> 0]
  /\ pc = "idle"
  /\ cur = NULL /\ want = 0 /\ size = 0

\* One free block that covers the whole heap.
heap_init ==
  /\ heap_start = NULL /\ pc = "idle"
  /\ heap_start' = heap_base_addr
  /\ hdr' = [a \in {heap_base_addr} |->
               [size |-> HEAP_SIZE - HDR, free |-> TRUE, next |-> NULL]]
  /\ UNCHANGED <<live, pc, cur, want, size>>

-----------------------------------------------------------------------------
(* kmalloc                                                                  *)

\* kmalloc(n): kmalloc(0) returns NULL at once and changes nothing.
KmallocCall(n) ==
  /\ pc = "idle" /\ n # 0
  /\ pc' = "scan"
  /\ want' = n
  /\ size' = align_up(n, ALIGNMENT)
  /\ cur' = heap_start
  /\ UNCHANGED <<heap_start, hdr, live>>

\* Mutants of the first-fit test.
Fits_Strict(a) == hdr[a].free /\ hdr[a].size > size
Fits_AnyState(a) == hdr[a].size >= size

Fits(a) == hdr[a].free /\ hdr[a].size >= size

\* Mutant: forgets that the rest needs a header.
WorthSplitting_NoHeader(a) == hdr[a].size - size > 0

\* The rest of the block is worth keeping as a block of its own.
WorthSplitting(a) == hdr[a].size - size >= HDR + MIN_BLOCK_DATA

\* Headers after kmalloc takes the block at a: the rest, if worth it, becomes
\* a free block linked right after a.
Taken(a) ==
  LET rest == a + HDR + size IN
  IF WorthSplitting(a)
  THEN [b \in DOMAIN hdr \cup {rest} |->
          IF b = rest
          THEN [size |-> hdr[a].size - size - HDR, free |-> TRUE,
                next |-> hdr[a].next]
          ELSE IF b = a
          THEN [size |-> size, free |-> FALSE, next |-> rest]
          ELSE hdr[b]]
  ELSE [hdr EXCEPT ![a].free = FALSE]

\* The current block fits: take it and return its data address.
KmallocTake ==
  /\ pc = "scan" /\ cur # NULL /\ Fits(cur)
  /\ hdr' = Taken(cur)
  /\ live' = [p \in DOMAIN live \cup {cur + HDR} |->
                IF p = cur + HDR THEN want ELSE live[p]]
  /\ pc' = "idle"
  /\ cur' = NULL /\ want' = 0 /\ size' = 0
  /\ UNCHANGED heap_start

KmallocAdvance ==
  /\ pc = "scan" /\ cur # NULL /\ ~Fits(cur)
  /\ cur' = hdr[cur].next
  /\ UNCHANGED <<heap_start, hdr, live, pc, want, size>>

\* End of the list: kmalloc returns NULL.
KmallocFail ==
  /\ pc = "scan" /\ cur = NULL
  /\ pc' = "idle" /\ want' = 0 /\ size' = 0
  /\ UNCHANGED <<heap_start, hdr, live, cur>>

-----------------------------------------------------------------------------
(* kfree                                                                    *)

\* kfree(p) of a pointer some caller holds; kfree(NULL) changes nothing.
KfreeCall(p) ==
  /\ pc = "idle"
  /\ hdr' = [hdr EXCEPT ![p - HDR].free = TRUE]
  /\ live' = [q \in DOMAIN live \ {p} |-> live[q]]
  /\ pc' = "coalesce"
  /\ cur' = heap_start
  /\ UNCHANGED <<heap_start, want, size>>

\* Mutant: the header of the absorbed block is lost.
Absorbed_LosesHeader(a) ==
  LET n == hdr[a].next IN
  [b \in DOMAIN hdr \ {n} |->
     IF b = a
     THEN [size |-> hdr[a].size + hdr[n].size, free |-> hdr[a].free,
           next |-> hdr[n].next]
     ELSE hdr[b]]

\* The headers once the block after a has been absorbed into a.
Absorbed(a) ==
  LET n == hdr[a].next IN
  [b \in DOMAIN hdr \ {n} |->
     IF b = a
     THEN [size |-> hdr[a].size + HDR + hdr[n].size, free |-> hdr[a].free,
           next |-> hdr[n].next]
     ELSE hdr[b]]

\* Mutant: moves on after a merge.
CoalesceMerge_Advances ==
  /\ pc = "coalesce"
  /\ cur # NULL /\ hdr[cur].next # NULL
  /\ hdr[cur].free /\ hdr[hdr[cur].next].free
  /\ hdr' = Absorbed(cur)
  /\ IF hdr[hdr[cur].next].next = NULL THEN pc' = "idle" /\ cur' = NULL
     ELSE cur' = hdr[hdr[cur].next].next /\ UNCHANGED pc
  /\ UNCHANGED <<heap_start, live, want, size>>

\* Two free neighbours: merge and look at the same block again.
CoalesceMerge ==
  /\ pc = "coalesce"
  /\ cur # NULL /\ hdr[cur].next # NULL
  /\ hdr[cur].free /\ hdr[hdr[cur].next].free
  /\ hdr' = Absorbed(cur)
  /\ UNCHANGED <<heap_start, live, pc, cur, want, size>>

\* Mutant: starts again from the first block.
CoalesceAdvance_Restarts ==
  /\ pc = "coalesce"
  /\ cur # NULL /\ hdr[cur].next # NULL
  /\ ~(hdr[cur].free /\ hdr[hdr[cur].next].free)
  /\ cur' = heap_start
  /\ UNCHANGED <<heap_start, hdr, live, pc, want, size>>

CoalesceAdvance ==
  /\ pc = "coalesce"
  /\ cur # NULL /\ hdr[cur].next # NULL
  /\ ~(hdr[cur].free /\ hdr[hdr[cur].next].free)
  /\ cur' = hdr[cur].next
  /\ UNCHANGED <<heap_start, hdr, live, pc, want, size>>

CoalesceDone ==
  /\ pc = "coalesce"
  /\ \/ cur = NULL
     \/ cur # NULL /\ hdr[cur].next = NULL
  /\ pc' = "idle" /\ cur' = NULL
  /\ UNCHANGED <<heap_start, hdr, live, want, size>>

-----------------------------------------------------------------------------
(* heap_get_stats                                                           *)

\* The bytes of the blocks at S.
Bytes(h, S) == MapThenSumSet(LAMBDA a : h[a].size, S)

\* The figures of the headers h.
Figures(h) ==
  LET Used == {a \in DOMAIN h : ~h[a].free}
      Avail == {a \in DOMAIN h : h[a].free}
  IN  [total |-> Bytes(h, DOMAIN h), used |-> Bytes(h, Used),
       free_bytes |-> Bytes(h, Avail), free_blocks |-> Cardinality(Avail)]

heap_get_stats == Figures(hdr)

-----------------------------------------------------------------------------
Next ==
  \/ heap_init
  \/ \E n \in Sizes : KmallocCall(n)
  \/ KmallocTake \/ KmallocAdvance \/ KmallocFail
  \/ \E p \in DOMAIN live : KfreeCall(p)
  \/ CoalesceMerge \/ CoalesceAdvance \/ CoalesceDone

Spec == Init /\ [][Next]_vars

\* A call that has started runs to its end: nothing else holds the CPU.
FairSpec ==
  Spec /\ WF_vars(\/ KmallocTake \/ KmallocAdvance \/ KmallocFail
                  \/ CoalesceMerge \/ CoalesceAdvance \/ CoalesceDone)

-----------------------------------------------------------------------------
(* Properties                                                               *)

\* Type invariant: sizes never go negative, the walking pointer is NULL or the
\* address of a header on the list.
TypeOK ==
  /\ heap_start \in {NULL, heap_base_addr}
  /\ hdr \in [DOMAIN hdr -> Header]
  /\ DOMAIN hdr \subseteq heap_base_addr .. Limit
  /\ live \in [DOMAIN live -> Sizes] /\ DOMAIN live \subseteq Nat
  /\ pc \in {"idle", "scan", "coalesce"}
  /\ cur \in DOMAIN hdr \cup {NULL}
  /\ want \in Sizes \cup {0} /\ size \in Nat

\* The list is the partition drawn in the header comment of heap.c: it starts
\* at the base, every block ends where the next one starts, the last one ends
\* at the end of the heap, and no two blocks on the list overlap.
Tiles ==
  /\ heap_start = NULL => DOMAIN hdr = {}
  /\ heap_start # NULL => heap_start \in DOMAIN hdr
  /\ \A a \in DOMAIN hdr :
       \/ hdr[a].next = NULL /\ End(a) = Limit
       \/ hdr[a].next \in DOMAIN hdr /\ hdr[a].next = End(a)
  /\ \A a, b \in DOMAIN hdr : a < b => End(a) <= b

\* kmalloc and kfree agree with their callers on who owns what: the blocks in
\* use are exactly the ones some caller holds, each as large as was asked for.
HeldBlocks ==
  /\ \A p \in DOMAIN live :
       /\ p - HDR \in DOMAIN hdr
       /\ ~hdr[p - HDR].free
       /\ live[p] <= hdr[p - HDR].size
  /\ \A a \in DOMAIN hdr : ~hdr[a].free => a + HDR \in DOMAIN live

\* A caller that stays inside the bytes it asked for never overwrites a header.
HeadersSafe ==
  \A p \in DOMAIN live, a \in DOMAIN hdr :
    a + HDR <= p \/ p + live[p] <= a

\* "fusionne avec ses voisins libres": outside kfree no two neighbours are free.
Coalesced ==
  pc # "coalesce" =>
    \A a \in DOMAIN hdr :
      hdr[a].free /\ hdr[a].next # NULL => ~hdr[hdr[a].next].free

\* When everything has been freed the heap is one free block again, as after
\* heap_init: what cmd_alloctest prints to show that nothing leaks.
FullyReclaimed ==
  (heap_start # NULL /\ pc = "idle" /\ DOMAIN live = {}) =>
    hdr = [a \in {heap_base_addr} |->
             [size |-> HEAP_SIZE - HDR, free |-> TRUE, next |-> NULL]]

\* First fit: kmalloc returns NULL only if no free block is large enough for
\* the aligned size, and otherwise the lowest block that is.
FirstFit ==
  [][(pc = "scan" /\ pc' = "idle") =>
       LET Enough == {a \in DOMAIN hdr : hdr[a].free /\ hdr[a].size >= size} IN
       IF live' = live THEN Enough = {}
       ELSE /\ cur \in Enough
            /\ \A a \in Enough : cur <= a
            /\ cur + HDR \in DOMAIN live']_vars

\* heap.c implements the abstract allocator: held regions are long enough, lie
\* in the heap and never overlap, whatever the list does meanwhile.
A == INSTANCE Allocator WITH Low <- heap_base_addr, High <- Limit
AllocatorSpec == A!Spec

\* The blocks that the walk in progress has before it.
Ahead == {a \in DOMAIN hdr : cur # NULL /\ a >= cur}

\* No walk goes in circles, although coalesce looks at the same block again and
\* changes the list under its feet: until the call returns each step leaves
\* fewer blocks ahead.
WalksShrink ==
  [][(pc # "idle" /\ pc' = pc) => Ahead' \subseteq Ahead /\ Ahead' # Ahead]_vars

\* Every call returns: neither walk can loop for ever.
CallsReturn == (pc # "idle") ~> (pc = "idle")

-----------------------------------------------------------------------------
(* The inductive invariant                                                  *)

\* What the walk in progress has established: kmalloc has rejected every block
\* it has passed, coalesce leaves no two free neighbours behind it.
WalkInv ==
  /\ pc = "scan" =>
       /\ want \in Sizes \ {0} /\ size = align_up(want, ALIGNMENT)
       /\ \A a \in DOMAIN hdr :
            (cur = NULL \/ a < cur) => ~(hdr[a].free /\ hdr[a].size >= size)
  /\ pc = "coalesce" =>
       /\ cur # NULL
       /\ \A a \in DOMAIN hdr :
            (a < cur /\ hdr[a].free /\ hdr[a].next # NULL) =>
              ~hdr[hdr[a].next].free

IInv == TypeOK /\ Tiles /\ HeldBlocks /\ Coalesced /\ WalkInv

\* Every block but the first is reached through another one.
Linked ==
  \A a \in DOMAIN hdr :
    a = heap_base_addr \/ \E p \in DOMAIN hdr : hdr[p].next = a

\* Not a byte is lost: what meminfo reports in use and free is, with a header
\* for each block, all that the heap has been given.
BytesAccounted ==
  heap_start # NULL =>
    /\ heap_get_stats.used + heap_get_stats.free_bytes = heap_get_stats.total
    /\ heap_get_stats.total + HDR * Cardinality(DOMAIN hdr) = HEAP_SIZE

-----------------------------------------------------------------------------
(* The list as a function of the blocks in use                              *)

\* u gives the size of each block in use.  Between calls the rest of the heap
\* is its gaps, one free block each: after the base or a block in use, up to
\* the next one or the end.
Gaps(u) ==
  ({heap_base_addr} \cup {a + HDR + u[a] : a \in DOMAIN u})
    \ (DOMAIN u \cup {Limit})

Stop(u, x) ==
  CHOOSE y \in DOMAIN u \cup {Limit} :
    y > x /\ \A z \in DOMAIN u : z > x => y <= z

Link(x) == IF x = Limit THEN NULL ELSE x

Layout(u) ==
  [x \in DOMAIN u \cup Gaps(u) |->
     IF x \in DOMAIN u
     THEN [size |-> u[x], free |-> FALSE, next |-> Link(x + HDR + u[x])]
     ELSE [size |-> Stop(u, x) - x - HDR, free |-> TRUE,
           next |-> Link(Stop(u, x))]]

\* The sizes of the blocks at S.
SizesOf(S) == [a \in S |-> hdr[a].size]

InUse == {a \in DOMAIN hdr : ~hdr[a].free}

\* The list depends on nothing else: not on the order of the calls, nor on what
\* has been allocated and freed in between.
ListDetermined ==
  (heap_start # NULL /\ pc # "coalesce") => hdr = Layout(SizesOf(InUse))
=============================================================================
