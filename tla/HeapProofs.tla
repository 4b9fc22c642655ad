----------------------------- MODULE HeapProofs -----------------------------
(***************************************************************************)
(* Proofs about Heap, for every heap size, alignment, page size and set of *)
(* request sizes that satisfy HeapConstants and SizesAssumption.  The      *)
(* inductive invariant IInv is preserved by every action (one lemma each), *)
(* and the safety properties, FirstFit and the refinement of Allocator     *)
(* follow from it.  The last two parts are about sums over the blocks      *)
(* (no byte is lost) and about the walks (each comes to an end); both rest *)
(* on LeastNat, the least number that would be a counterexample.           *)
(***************************************************************************)
EXTENDS Heap, FiniteSetTheorems, WellFoundedInduction, TLAPS

\* Remainders are in range.
LEMMA ModRange ==
  ASSUME NEW m \in Nat, NEW k \in Nat \ {0}
  PROVE  m % k \in 0 .. (k - 1)
  OBVIOUS

\* A number smaller than the modulus is its own remainder.
LEMMA ModSmall ==
  ASSUME NEW m \in Nat, NEW k \in Nat \ {0}, m < k
  PROVE  m % k = m
  OBVIOUS

\* align_up does not wrap: it returns at least n and less than n + k.
LEMMA AlignUpRange ==
  ASSUME NEW n \in Nat, NEW k \in Nat \ {0}, n + k <= SIZE_MOD
  PROVE  /\ align_up(n, k) \in Nat
         /\ n <= align_up(n, k)
         /\ align_up(n, k) < n + k
  <1>1. n + k - 1 \in Nat /\ n + k - 1 < SIZE_MOD
    BY HeapConstants
  <1>2. (n + k - 1) % SIZE_MOD = n + k - 1
    BY <1>1, ModSmall, HeapConstants
  <1>3. PICK r \in 0 .. (k - 1) : (n + k - 1) % k = r
    BY <1>1, ModRange
  <1>4. align_up(n, k) = n + k - 1 - r
    BY <1>2, <1>3 DEF align_up
  <1> QED
    BY <1>4

\* The heap starts above address 0 and has room for a header.
LEMMA BaseRange ==
  /\ heap_base_addr \in Nat \ {0}
  /\ Limit \in Nat
  /\ heap_base_addr + HDR <= Limit
  <1>1. KERNEL_END + PAGE <= SIZE_MOD
    BY HeapConstants
  <1> QED
    BY <1>1, AlignUpRange, HeapConstants DEF heap_base_addr, Limit

-----------------------------------------------------------------------------
\* Before heap_init there is no block and no held pointer.
LEMMA InitInv == Init => IInv
  BY BaseRange, HeapConstants
     DEF Init, IInv, TypeOK, Tiles, HeldBlocks, Coalesced, WalkInv, Header, NULL

\* heap_init makes one free block out of the whole heap.
LEMMA HeapInitInv == IInv /\ heap_init => IInv'
  <1> SUFFICES ASSUME IInv, heap_init PROVE IInv'
    OBVIOUS
  <1> USE BaseRange, HeapConstants
  <1>1. DOMAIN hdr = {} /\ DOMAIN live = {}
    BY DEF IInv, Tiles, HeldBlocks, heap_init
  <1>2. /\ DOMAIN hdr' = {heap_base_addr}
        /\ hdr'[heap_base_addr] =
             [size |-> HEAP_SIZE - HDR, free |-> TRUE, next |-> NULL]
    BY DEF heap_init
  <1>3. TypeOK'
    BY <1>1, <1>2 DEF IInv, TypeOK, heap_init, Header, NULL
  <1>4. Tiles'
    BY <1>2 DEF Tiles, End, Limit, heap_init, NULL
  <1>5. HeldBlocks' /\ Coalesced' /\ WalkInv'
    BY <1>1, <1>2 DEF HeldBlocks, Coalesced, WalkInv, heap_init, NULL
  <1> QED
    BY <1>3, <1>4, <1>5 DEF IInv

\* kmalloc starts its walk at the first header, having rejected nothing yet.
LEMMA KmallocCallInv ==
  ASSUME IInv, NEW n \in Sizes, KmallocCall(n)
  PROVE  IInv'
  <1>1. n \in Nat /\ n + ALIGNMENT <= SIZE_MOD
    BY SizesAssumption, HeapConstants
  <1>2. align_up(n, ALIGNMENT) \in Nat
    BY <1>1, AlignUpRange, HeapConstants
  <1>3. TypeOK'
    BY <1>2 DEF IInv, TypeOK, Tiles, KmallocCall
  <1>4. Tiles' /\ HeldBlocks' /\ Coalesced'
    BY DEF IInv, Tiles, End, HeldBlocks, Coalesced, KmallocCall
  <1>5. WalkInv'
    <2>1. \A a \in DOMAIN hdr : heap_start # NULL /\ ~(a < heap_start)
      BY BaseRange DEF IInv, TypeOK, Tiles, NULL
    <2> QED
      BY <2>1 DEF WalkInv, KmallocCall
  <1> QED
    BY <1>3, <1>4, <1>5 DEF IInv

\* Where a block on the list lies, in plain arithmetic.
LEMMA BlockRange ==
  ASSUME TypeOK, Tiles, NEW a \in DOMAIN hdr
  PROVE  /\ a \in Nat /\ heap_base_addr <= a
         /\ hdr[a].size \in Nat /\ hdr[a].free \in BOOLEAN /\ hdr[a].next \in Nat
         /\ End(a) \in Nat /\ a + HDR <= End(a) /\ a < End(a) /\ End(a) <= Limit
  <1> USE BaseRange, HeapConstants
  <1>1. /\ a \in Nat /\ heap_base_addr <= a
        /\ hdr[a].size \in Nat /\ hdr[a].free \in BOOLEAN /\ hdr[a].next \in Nat
    BY DEF TypeOK, Header
  <1>2. End(a) \in Nat /\ a + HDR <= End(a) /\ a < End(a)
    BY <1>1 DEF End
  <1>3. End(a) <= Limit
    <2>1. CASE hdr[a].next = NULL /\ End(a) = Limit
      BY <2>1
    <2>2. CASE hdr[a].next \in DOMAIN hdr /\ hdr[a].next = End(a)
      BY <2>2 DEF TypeOK
    <2> QED
      BY <2>1, <2>2 DEF Tiles
  <1> QED
    BY <1>1, <1>2, <1>3

\* The blocks before the successor of a are a and the blocks before a.
LEMMA BeforeNext ==
  ASSUME TypeOK, Tiles, NEW a \in DOMAIN hdr, NEW b \in DOMAIN hdr,
         hdr[a].next = NULL \/ b < hdr[a].next
  PROVE  b = a \/ b < a
  <1> USE BaseRange
  <1>1. /\ a \in Nat /\ b \in Nat /\ End(a) \in Nat /\ End(b) \in Nat
        /\ b < End(b) /\ End(b) <= Limit
    BY BlockRange
  <1>2. a < b => End(a) <= b
    BY DEF Tiles
  <1>3. CASE hdr[a].next = NULL /\ End(a) = Limit
    BY <1>1, <1>2, <1>3
  <1>4. CASE hdr[a].next \in DOMAIN hdr /\ hdr[a].next = End(a)
    <2>1. hdr[a].next # NULL
      BY <1>4, BlockRange DEF NULL
    <2> QED
      BY <1>1, <1>2, <1>4, <2>1
  <1> QED
    BY <1>3, <1>4 DEF Tiles

\* kmalloc passes a block only after rejecting it.
LEMMA KmallocAdvanceInv == IInv /\ KmallocAdvance => IInv'
  <1> SUFFICES ASSUME IInv, KmallocAdvance PROVE IInv'
    OBVIOUS
  <1> USE BaseRange, HeapConstants
  <1>1. cur \in DOMAIN hdr /\ hdr[cur] \in Header
    BY DEF IInv, TypeOK, KmallocAdvance
  <1>2. TypeOK'
    BY <1>1 DEF IInv, TypeOK, Tiles, KmallocAdvance, Header
  <1>3. Tiles' /\ HeldBlocks' /\ Coalesced'
    BY DEF IInv, Tiles, End, HeldBlocks, Coalesced, KmallocAdvance
  <1>4. WalkInv'
    <2>1. ASSUME NEW a \in DOMAIN hdr, cur' = NULL \/ a < cur'
          PROVE  a < cur \/ a = cur
      BY <1>1, <2>1, BeforeNext DEF IInv, KmallocAdvance
    <2> QED
      BY <1>1, <2>1 DEF IInv, WalkInv, KmallocAdvance, Fits
  <1> QED
    BY <1>2, <1>3, <1>4 DEF IInv

\* A refused request leaves the list as it was.
LEMMA KmallocFailInv == IInv /\ KmallocFail => IInv'
  BY DEF IInv, TypeOK, Tiles, End, HeldBlocks, Coalesced, WalkInv, KmallocFail

\* What kmalloc looks for: a size that is at least the one asked for.
LEMMA WantRange ==
  ASSUME IInv, pc = "scan"
  PROVE  want \in Sizes /\ want \in Nat /\ size \in Nat /\ want <= size
  <1>1. want \in Sizes /\ size = align_up(want, ALIGNMENT)
    BY DEF IInv, WalkInv
  <1>2. want \in Nat /\ want + ALIGNMENT <= SIZE_MOD
    BY <1>1, SizesAssumption, HeapConstants
  <1>3. size \in Nat /\ want <= size
    BY <1>1, <1>2, AlignUpRange, HeapConstants
  <1> QED
    BY <1>1, <1>2, <1>3

\* kmalloc takes the whole block.
LEMMA TakeWholeInv ==
  ASSUME IInv, KmallocTake, ~WorthSplitting(cur)
  PROVE  IInv'
  <1> USE BaseRange, HeapConstants
  <1>1. cur \in DOMAIN hdr /\ hdr[cur] \in Header /\ cur \in Nat
    BY BlockRange DEF IInv, TypeOK, KmallocTake
  <1>2. /\ DOMAIN hdr' = DOMAIN hdr
        /\ \A a \in DOMAIN hdr : /\ hdr'[a].size = hdr[a].size
                                /\ hdr'[a].next = hdr[a].next
                                /\ hdr'[a].free = (hdr[a].free /\ a # cur)
        /\ hdr' \in [DOMAIN hdr -> Header]
    BY <1>1 DEF IInv, TypeOK, KmallocTake, Taken, Fits, Header
  <1>3. /\ DOMAIN live' = DOMAIN live \cup {cur + HDR}
        /\ live'[cur + HDR] = want
        /\ \A p \in DOMAIN live : p # cur + HDR => live'[p] = live[p]
    BY DEF KmallocTake
  <1>4. want \in Sizes /\ want \in Nat /\ want <= size /\ size <= hdr[cur].size
    <2>1. want \in Sizes /\ want \in Nat /\ want <= size
      BY WantRange DEF KmallocTake
    <2>2. size <= hdr[cur].size
      BY <1>1, WantRange DEF KmallocTake, Fits, Header
    <2> QED
      BY <2>1, <2>2
  <1>5. TypeOK'
    BY <1>1, <1>2, <1>3, <1>4 DEF IInv, TypeOK, KmallocTake
  <1>6. Tiles'
    BY <1>2 DEF IInv, Tiles, End, KmallocTake
  <1>7. HeldBlocks'
    <2>1. \A p \in DOMAIN live : p \in Nat /\ p # cur + HDR
      BY <1>1 DEF IInv, TypeOK, HeldBlocks, KmallocTake, Fits
    <2>2. \A p \in DOMAIN live' : /\ p - HDR \in DOMAIN hdr'
                                  /\ ~hdr'[p - HDR].free
                                  /\ live'[p] <= hdr'[p - HDR].size
      <3> SUFFICES ASSUME NEW p \in DOMAIN live'
                   PROVE  /\ p - HDR \in DOMAIN hdr'
                          /\ ~hdr'[p - HDR].free
                          /\ live'[p] <= hdr'[p - HDR].size
        OBVIOUS
      <3>1. CASE p = cur + HDR
        <4>1. p - HDR = cur
          BY <1>1, <3>1
        <4> QED
          <5>1. live'[p] <= hdr[cur].size
            BY <1>1, <1>3, <1>4, <3>1, WantRange DEF KmallocTake, Header
          <5> QED
            BY <1>1, <1>2, <4>1, <5>1
      <3>2. CASE p \in DOMAIN live
        BY <1>2, <1>3, <2>1, <3>2 DEF IInv, HeldBlocks
      <3> QED
        BY <1>3, <3>1, <3>2
    <2>3. \A a \in DOMAIN hdr' : ~hdr'[a].free => a + HDR \in DOMAIN live'
      BY <1>2, <1>3 DEF IInv, HeldBlocks
    <2> QED
      BY <2>2, <2>3 DEF HeldBlocks
  <1>8. Coalesced' /\ WalkInv'
    BY <1>2 DEF IInv, Tiles, Coalesced, WalkInv, KmallocTake
  <1> QED
    BY <1>5, <1>6, <1>7, <1>8 DEF IInv

\* kmalloc cuts the block at cur in two.
LEMMA TakeSplitInv ==
  ASSUME IInv, KmallocTake, WorthSplitting(cur)
  PROVE  IInv'
  <1> USE BaseRange, HeapConstants
  <1> DEFINE rest == cur + HDR + size
  <1>1. /\ cur \in DOMAIN hdr /\ hdr[cur] \in Header /\ cur \in Nat
        /\ hdr[cur].size \in Nat /\ hdr[cur].next \in Nat /\ size \in Nat
        /\ heap_base_addr <= cur
    BY BlockRange DEF IInv, TypeOK, KmallocTake, Header
  <1>2. /\ hdr[cur].free
        /\ size + HDR <= hdr[cur].size
        /\ rest \in Nat /\ cur < rest /\ rest + HDR <= End(cur)
        /\ End(cur) <= Limit /\ End(cur) \in Nat
    <2>1. hdr[cur].free
      BY DEF KmallocTake, Fits
    <2>2. size + HDR <= hdr[cur].size
      BY <1>1 DEF WorthSplitting
    <2>3. End(cur) <= Limit /\ End(cur) \in Nat
      BY <1>1, BlockRange DEF IInv
    <2>4. rest \in Nat /\ cur < rest /\ rest + HDR <= End(cur)
      BY <1>1, <2>2 DEF End
    <2> QED
      BY <2>1, <2>2, <2>3, <2>4
  <1>3. rest \notin DOMAIN hdr
    <2>1. rest \in DOMAIN hdr => End(cur) <= rest
      BY <1>1, <1>2 DEF IInv, Tiles
    <2> QED
      BY <1>1, <1>2, <2>1
  <1>4. /\ DOMAIN hdr' = DOMAIN hdr \cup {rest}
        /\ hdr'[rest] = [size |-> hdr[cur].size - size - HDR, free |-> TRUE,
                         next |-> hdr[cur].next]
        /\ hdr'[cur] = [size |-> size, free |-> FALSE, next |-> rest]
        /\ \A a \in DOMAIN hdr : a # cur => hdr'[a] = hdr[a]
    BY <1>1, <1>3 DEF KmallocTake, Taken
  <1>5. /\ DOMAIN live' = DOMAIN live \cup {cur + HDR}
        /\ live'[cur + HDR] = want
        /\ \A p \in DOMAIN live : p # cur + HDR => live'[p] = live[p]
    BY DEF KmallocTake
  <1>6. want \in Sizes /\ want \in Nat /\ want <= size
    BY WantRange DEF KmallocTake
  <1>7. TypeOK'
    <2>1. hdr' = [a \in DOMAIN hdr' |-> hdr'[a]]
      BY DEF KmallocTake, Taken
    <2>2. \A a \in DOMAIN hdr' : hdr'[a] \in Header
      <3>1. hdr'[rest] \in Header
        BY <1>1, <1>2, <1>4 DEF Header
      <3>2. hdr'[cur] \in Header
        BY <1>1, <1>2, <1>4 DEF Header
      <3>3. \A a \in DOMAIN hdr : hdr[a] \in Header
        BY DEF IInv, TypeOK
      <3> QED
        BY <1>4, <3>1, <3>2, <3>3
    <2>3. DOMAIN hdr' \subseteq heap_base_addr .. Limit
      BY <1>1, <1>2, <1>4 DEF IInv, TypeOK
    <2> QED
      BY <1>1, <1>5, <1>6, <2>1, <2>2, <2>3 DEF IInv, TypeOK, KmallocTake
  <1>8. Tiles'
    <2> DEFINE Fin(x) == x + HDR + hdr'[x].size
    <2>1. /\ Fin(rest) = End(cur) /\ Fin(cur) = rest
          /\ \A a \in DOMAIN hdr : a # cur => Fin(a) = End(a)
      BY <1>1, <1>2, <1>4 DEF End
    <2> HIDE DEF Fin
    <2>2. \A a \in DOMAIN hdr' :
            \/ hdr'[a].next = NULL /\ Fin(a) = Limit
            \/ hdr'[a].next \in DOMAIN hdr' /\ hdr'[a].next = Fin(a)
      <3>1. \A a \in DOMAIN hdr : \/ hdr[a].next = NULL /\ End(a) = Limit
                                  \/ hdr[a].next \in DOMAIN hdr /\ hdr[a].next = End(a)
        BY DEF IInv, Tiles
      <3>2. /\ hdr'[rest].next = hdr[cur].next /\ hdr'[cur].next = rest
        BY <1>4
      <3> HIDE DEF rest
      <3> QED
        BY <1>1, <1>4, <2>1, <3>1, <3>2
    <2>3. ASSUME NEW a \in DOMAIN hdr', NEW b \in DOMAIN hdr', a < b
          PROVE  Fin(a) <= b
      <3> HIDE DEF rest
      <3>0. /\ \A x \in DOMAIN hdr : x \in Nat /\ End(x) \in Nat
            /\ \A x, y \in DOMAIN hdr : x < y => End(x) <= y
        BY BlockRange DEF IInv, Tiles
      <3>1. CASE a = rest
        <4>1. b \in DOMAIN hdr /\ cur < b
          BY <1>1, <1>2, <1>4, <2>3, <3>0, <3>1
        <4> QED
          BY <1>1, <2>1, <3>0, <3>1, <4>1
      <3>2. CASE a = cur
        <4>1. CASE b = rest
          BY <1>2, <2>1, <3>2, <4>1
        <4>2. CASE b \in DOMAIN hdr
          <5>1. End(cur) <= b
            BY <1>1, <2>3, <3>0, <3>2, <4>2
          <5> QED
            BY <1>1, <1>2, <2>1, <3>0, <3>2, <4>2, <5>1
        <4> QED
          BY <1>4, <4>1, <4>2
      <3>3. CASE a \in DOMAIN hdr /\ a # cur
        <4>2. CASE b \in DOMAIN hdr
          BY <2>1, <2>3, <3>0, <3>3, <4>2
        <4>3. CASE b = rest
          <5>1. a < cur
            BY <1>1, <1>2, <2>3, <3>0, <3>3, <4>3
          <5>2. End(a) <= cur
            BY <1>1, <3>0, <3>3, <5>1
          <5> QED
            BY <1>1, <1>2, <2>1, <3>0, <3>3, <4>3, <5>2
        <4> QED
          BY <1>4, <4>2, <4>3
      <3> QED
        BY <1>4, <3>1, <3>2, <3>3
    <2> QED
      BY <1>1, <1>4, <2>2, <2>3 DEF IInv, Tiles, KmallocTake, Fin, End
  <1>9. HeldBlocks'
    <2>1. \A p \in DOMAIN live : /\ p \in Nat /\ p - HDR \in DOMAIN hdr
                                 /\ p - HDR # cur /\ p # cur + HDR
      BY <1>1, <1>2 DEF IInv, TypeOK, HeldBlocks
    <2>2. ASSUME NEW p \in DOMAIN live'
          PROVE  /\ p - HDR \in DOMAIN hdr'
                 /\ ~hdr'[p - HDR].free
                 /\ live'[p] <= hdr'[p - HDR].size
      <3>1. CASE p = cur + HDR
        <4>1. p - HDR = cur
          BY <1>1, <3>1
        <4> QED
          BY <1>1, <1>4, <1>5, <1>6, <3>1, <4>1
      <3>2. CASE p \in DOMAIN live
        BY <1>4, <1>5, <2>1, <3>2 DEF IInv, HeldBlocks
      <3> QED
        BY <1>5, <3>1, <3>2
    <2>3. \A a \in DOMAIN hdr' : ~hdr'[a].free => a + HDR \in DOMAIN live'
      BY <1>1, <1>4, <1>5 DEF IInv, HeldBlocks
    <2> QED
      BY <2>2, <2>3 DEF HeldBlocks
  <1>10. Coalesced'
    <2>1. hdr[cur].next # NULL => ~hdr[hdr[cur].next].free /\ hdr[cur].next # cur
      BY <1>1, <1>2, BlockRange DEF IInv, Coalesced, KmallocTake, Tiles
    <2> SUFFICES ASSUME NEW a \in DOMAIN hdr', hdr'[a].free, hdr'[a].next # NULL
                 PROVE  ~hdr'[hdr'[a].next].free
      BY DEF Coalesced
    <2>2. CASE a = rest
      BY <1>1, <1>4, <2>1, <2>2 DEF IInv, Tiles
    <2>3. CASE a \in DOMAIN hdr /\ a # cur
      <3>1. hdr[a].next \in DOMAIN hdr /\ ~hdr[hdr[a].next].free
        BY <1>4, <2>3 DEF IInv, Tiles, Coalesced, KmallocTake
      <3> QED
        BY <1>2, <1>4, <2>3, <3>1
    <2> QED
      BY <1>4, <2>2, <2>3
  <1>11. WalkInv'
    BY DEF WalkInv, KmallocTake
  <1> QED
    BY <1>7, <1>8, <1>9, <1>10, <1>11 DEF IInv

\* kmalloc takes the block, whole or cut.
LEMMA KmallocTakeInv == IInv /\ KmallocTake => IInv'
  BY TakeWholeInv, TakeSplitInv

-----------------------------------------------------------------------------
\* kfree marks the block of a held pointer free and starts to coalesce.
LEMMA KfreeCallInv ==
  ASSUME IInv, NEW p \in DOMAIN live, KfreeCall(p)
  PROVE  IInv'
  <1> USE BaseRange, HeapConstants
  <1>1. p \in Nat /\ p - HDR \in DOMAIN hdr /\ heap_start # NULL
    BY DEF IInv, TypeOK, HeldBlocks, Tiles
  <1>2. /\ DOMAIN hdr' = DOMAIN hdr
        /\ \A a \in DOMAIN hdr : /\ hdr'[a].size = hdr[a].size
                                /\ hdr'[a].next = hdr[a].next
                                /\ hdr'[a].free = (hdr[a].free \/ a = p - HDR)
        /\ hdr' \in [DOMAIN hdr -> Header]
    BY <1>1 DEF IInv, TypeOK, KfreeCall, Header
  <1>3. /\ DOMAIN live' = DOMAIN live \ {p}
        /\ \A q \in DOMAIN live' : live'[q] = live[q]
    BY DEF KfreeCall
  <1>4. TypeOK'
    BY <1>1, <1>2, <1>3 DEF IInv, TypeOK, Tiles, KfreeCall
  <1>5. Tiles'
    BY <1>2 DEF IInv, Tiles, End, KfreeCall
  <1>6. HeldBlocks'
    <2>1. \A q \in DOMAIN live' : q \in Nat /\ q - HDR # p - HDR
      BY <1>1, <1>3 DEF IInv, TypeOK
    <2>2. \A a \in DOMAIN hdr : a \in Nat /\ (a # p - HDR => a + HDR # p)
      BY <1>1, BlockRange DEF IInv
    <2> QED
      BY <1>1, <1>2, <1>3, <2>1, <2>2 DEF IInv, HeldBlocks
  <1>7. Coalesced'
    BY DEF Coalesced, KfreeCall
  <1>8. WalkInv'
    <2>1. \A a \in DOMAIN hdr : heap_start # NULL /\ ~(a < heap_start)
      BY <1>1 DEF IInv, TypeOK, NULL
    <2> QED
      BY <1>2, <2>1 DEF WalkInv, KfreeCall
  <1> QED
    BY <1>4, <1>5, <1>6, <1>7, <1>8 DEF IInv

\* coalesce absorbs the free block that follows cur.
LEMMA CoalesceMergeInv == IInv /\ CoalesceMerge => IInv'
  <1> SUFFICES ASSUME IInv, CoalesceMerge PROVE IInv'
    OBVIOUS
  <1> USE BaseRange, HeapConstants
  <1>0. PICK c \in DOMAIN hdr : c = cur
    BY DEF IInv, TypeOK, CoalesceMerge
  <1>1. PICK n \in DOMAIN hdr : n = hdr[c].next /\ n = End(c)
    BY <1>0 DEF IInv, Tiles, CoalesceMerge
  <1>2. /\ \A a \in DOMAIN hdr : /\ a \in Nat /\ End(a) \in Nat /\ a < End(a)
                                 /\ hdr[a].size \in Nat /\ hdr[a].next \in Nat
                                 /\ hdr[a].free \in BOOLEAN
        /\ \A a, b \in DOMAIN hdr : a < b => End(a) <= b
        /\ \A a \in DOMAIN hdr : \/ hdr[a].next = NULL /\ End(a) = Limit
                                 \/ hdr[a].next \in DOMAIN hdr /\ hdr[a].next = End(a)
    BY BlockRange DEF IInv, Tiles
  <1>3. hdr[c].free /\ hdr[n].free /\ c < n
    BY <1>0, <1>1, <1>2 DEF CoalesceMerge
  <1>4. /\ DOMAIN hdr' = DOMAIN hdr \ {n}
        /\ hdr'[c] = [size |-> hdr[c].size + HDR + hdr[n].size,
                      free |-> hdr[c].free, next |-> hdr[n].next]
        /\ \A a \in DOMAIN hdr' : a # c => hdr'[a] = hdr[a]
    <2>1. c \in DOMAIN hdr \ {n}
      BY <1>2, <1>3
    <2>2. hdr' = [b \in DOMAIN hdr \ {n} |->
                    IF b = c
                    THEN [size |-> hdr[c].size + HDR + hdr[n].size,
                          free |-> hdr[c].free, next |-> hdr[n].next]
                    ELSE hdr[b]]
      BY <1>0, <1>1 DEF CoalesceMerge, Absorbed
    <2> QED
      BY <2>1, <2>2
  <1>5. /\ heap_start' = heap_start /\ live' = live /\ pc' = pc /\ pc = "coalesce"
        /\ cur' = cur /\ want' = want /\ size' = size
    BY DEF CoalesceMerge
  <1>6. ASSUME NEW a \in DOMAIN hdr, a # c
        PROVE  hdr[a].next # n
    <2>1. n # NULL
      BY <1>2, <1>3 DEF NULL
    <2> QED
      BY <1>1, <1>2, <1>3, <1>6, <2>1
  <1>7. hdr[n].next # n /\ hdr[n].next # c
    <2>1. n # NULL /\ c # NULL
      BY <1>0, <1>2, <1>3 DEF CoalesceMerge, NULL
    <2> QED
      BY <1>2, <1>3, <2>1
  <1>8. TypeOK'
    <2>1. hdr' = [a \in DOMAIN hdr' |-> hdr'[a]]
      BY DEF CoalesceMerge, Absorbed
    <2>2. \A a \in DOMAIN hdr' : hdr'[a] \in Header
      <3>1. hdr'[c] \in Header
        BY <1>1, <1>2, <1>4 DEF Header
      <3>2. \A a \in DOMAIN hdr : hdr[a] \in Header
        BY DEF IInv, TypeOK
      <3> QED
        BY <1>4, <3>1, <3>2
    <2>3. DOMAIN hdr' \subseteq heap_base_addr .. Limit /\ cur' \in DOMAIN hdr'
      BY <1>0, <1>2, <1>3, <1>4, <1>5 DEF IInv, TypeOK
    <2> QED
      BY <1>5, <2>1, <2>2, <2>3 DEF IInv, TypeOK
  <1>9. Tiles'
    <2> DEFINE Fin(x) == x + HDR + hdr'[x].size
    <2>1. Fin(c) = End(n) /\ \A a \in DOMAIN hdr' : a # c => Fin(a) = End(a)
      <3>1. Fin(c) = End(n)
        BY <1>1, <1>2, <1>4 DEF End
      <3> QED
        BY <1>4, <3>1 DEF End
    <2> HIDE DEF Fin
    <2>2. \A a \in DOMAIN hdr' :
            \/ hdr'[a].next = NULL /\ Fin(a) = Limit
            \/ hdr'[a].next \in DOMAIN hdr' /\ hdr'[a].next = Fin(a)
      <3>1. hdr'[c].next = hdr[n].next
        BY <1>4
      <3>2. CASE NULL \notin DOMAIN hdr
        BY <1>2, <1>4, <1>6, <1>7, <2>1, <3>1, <3>2
      <3> QED
        BY <3>2 DEF IInv, TypeOK, NULL
    <2>3. ASSUME NEW a \in DOMAIN hdr', NEW b \in DOMAIN hdr', a < b
          PROVE  Fin(a) <= b
      <3>1. CASE a = c
        <4>1. n < b
          BY <1>1, <1>2, <1>4, <2>3, <3>1
        <4> QED
          BY <1>2, <1>4, <2>1, <3>1, <4>1
      <3>2. CASE a # c
        BY <1>2, <1>4, <2>1, <2>3, <3>2
      <3> QED
        BY <3>1, <3>2
    <2>4. heap_start # n
      BY <1>2, <1>3 DEF IInv, TypeOK, NULL
    <2>5. /\ heap_start # NULL => heap_start \in DOMAIN hdr'
          /\ heap_start = NULL => DOMAIN hdr' = {}
      BY <1>4, <2>4 DEF IInv, Tiles
    <2> QED
      BY <1>5, <2>2, <2>3, <2>5 DEF Tiles, Fin, End
  <1>10. HeldBlocks'
    <2>1. ASSUME NEW p \in DOMAIN live
          PROVE  /\ p - HDR \in DOMAIN hdr' /\ ~hdr'[p - HDR].free
                 /\ live[p] <= hdr'[p - HDR].size
      <3>1. p - HDR \in DOMAIN hdr /\ p - HDR # c /\ p - HDR # n
        BY <1>3 DEF IInv, HeldBlocks
      <3> QED
        BY <1>4, <3>1 DEF IInv, HeldBlocks
    <2>2. \A a \in DOMAIN hdr' : ~hdr'[a].free => a + HDR \in DOMAIN live
      BY <1>3, <1>4 DEF IInv, HeldBlocks
    <2> QED
      BY <1>5, <2>1, <2>2 DEF HeldBlocks
  <1>11. Coalesced'
    BY <1>5 DEF Coalesced
  <1>12. WalkInv'
    <2>1. ASSUME NEW a \in DOMAIN hdr', a < c, hdr'[a].free, hdr'[a].next # NULL
          PROVE  ~hdr'[hdr'[a].next].free
      <3>1. a \in DOMAIN hdr /\ a # c /\ hdr'[a] = hdr[a]
        BY <1>2, <1>4, <2>1
      <3>2. hdr[a].next \in DOMAIN hdr /\ ~hdr[hdr[a].next].free
        BY <1>0, <1>2, <1>5, <2>1, <3>1 DEF IInv, WalkInv
      <3>3. hdr[a].next # n
        BY <1>6, <3>1
      <3> QED
        BY <1>3, <1>4, <3>1, <3>2, <3>3
    <2> QED
      BY <1>0, <1>5, <2>1 DEF IInv, WalkInv
  <1> QED
    BY <1>8, <1>9, <1>10, <1>11, <1>12 DEF IInv

\* coalesce leaves behind a pair that is not two free blocks.
LEMMA CoalesceAdvanceInv == IInv /\ CoalesceAdvance => IInv'
  <1> SUFFICES ASSUME IInv, CoalesceAdvance PROVE IInv'
    OBVIOUS
  <1> USE BaseRange, HeapConstants
  <1>1. cur \in DOMAIN hdr /\ hdr[cur].next \in DOMAIN hdr
    BY DEF IInv, TypeOK, Tiles, CoalesceAdvance
  <1>2. TypeOK'
    BY <1>1 DEF IInv, TypeOK, CoalesceAdvance
  <1>3. Tiles' /\ HeldBlocks' /\ Coalesced'
    BY DEF IInv, Tiles, End, HeldBlocks, Coalesced, CoalesceAdvance
  <1>4. WalkInv'
    <2>1. ASSUME NEW a \in DOMAIN hdr, a < cur' PROVE a < cur \/ a = cur
      BY <1>1, <2>1, BeforeNext DEF IInv, CoalesceAdvance
    <2> QED
      BY <1>1, <2>1 DEF IInv, WalkInv, CoalesceAdvance
  <1> QED
    BY <1>2, <1>3, <1>4 DEF IInv

\* At the end of the list every pair has been looked at.
LEMMA CoalesceDoneInv == IInv /\ CoalesceDone => IInv'
  <1> SUFFICES ASSUME IInv, CoalesceDone PROVE IInv'
    OBVIOUS
  <1>1. cur \in DOMAIN hdr /\ hdr[cur].next = NULL
    BY DEF IInv, TypeOK, WalkInv, CoalesceDone
  <1>2. TypeOK' /\ Tiles' /\ HeldBlocks' /\ WalkInv'
    BY DEF IInv, TypeOK, Tiles, End, HeldBlocks, WalkInv, CoalesceDone
  <1>3. Coalesced'
    <2>1. \A a \in DOMAIN hdr : a = cur \/ a < cur
      BY <1>1, BeforeNext DEF IInv
    <2> QED
      BY <1>1, <2>1 DEF IInv, WalkInv, Coalesced, CoalesceDone
  <1> QED
    BY <1>2, <1>3 DEF IInv

-----------------------------------------------------------------------------
\* Every step keeps the inductive invariant.
LEMMA InductiveStep == IInv /\ [Next]_vars => IInv'
  <1> SUFFICES ASSUME IInv, [Next]_vars PROVE IInv'
    OBVIOUS
  <1>1. CASE UNCHANGED vars
    BY <1>1 DEF vars, IInv, TypeOK, Tiles, End, HeldBlocks, Coalesced, WalkInv
  <1>2. CASE Next
    BY <1>2, HeapInitInv, KmallocCallInv, KmallocTakeInv, KmallocAdvanceInv,
       KmallocFailInv, KfreeCallInv, CoalesceMergeInv, CoalesceAdvanceInv,
       CoalesceDoneInv DEF Next
  <1> QED
    BY <1>1, <1>2

\* The inductive invariant: the list tiles the heap, the blocks in use are the
\* held ones, and each walk has established what WalkInv says of it.
THEOREM Inductive == Spec => []IInv
  BY InitInv, InductiveStep, PTL DEF Spec

\* TypeOK always holds: no subtraction on sizes goes negative and no walk ends
\* up outside the list.
THEOREM TypeCorrect == Spec => []TypeOK
  BY Inductive, PTL DEF IInv

\* The list always tiles the heap (the drawing at the top of heap.c).
THEOREM TilesHeap == Spec => []Tiles
  BY Inductive, PTL DEF IInv

\* The blocks in use are always exactly the blocks callers hold.
THEOREM HoldersKnown == Spec => []HeldBlocks
  BY Inductive, PTL DEF IInv

\* Where the region of a held pointer lies.
LEMMA HeldRange ==
  ASSUME IInv, NEW p \in DOMAIN live
  PROVE  /\ p \in Nat /\ live[p] \in Nat
         /\ p - HDR \in DOMAIN hdr /\ p + live[p] <= End(p - HDR)
         /\ heap_base_addr + HDR <= p
  <1> USE BaseRange, HeapConstants, SizesAssumption
  <1>1. p \in Nat /\ live[p] \in Nat /\ p - HDR \in DOMAIN hdr
        /\ live[p] <= hdr[p - HDR].size
    BY DEF IInv, TypeOK, HeldBlocks
  <1>2. hdr[p - HDR].size \in Nat /\ heap_base_addr <= p - HDR
    BY <1>1, BlockRange DEF IInv
  <1> QED
    BY <1>1, <1>2 DEF End

\* No byte that a caller may use is a byte of a header on the list, so callers
\* that respect their sizes cannot corrupt the list.
THEOREM NoHeaderOverwritten == Spec => []HeadersSafe
  <1>1. IInv => HeadersSafe
    <2> SUFFICES ASSUME IInv, NEW p \in DOMAIN live, NEW a \in DOMAIN hdr
                 PROVE  a + HDR <= p \/ p + live[p] <= a
      BY DEF HeadersSafe
    <2> USE HeapConstants
    <2>1. a \in Nat /\ End(a) \in Nat /\ a + HDR <= End(a)
      BY BlockRange DEF IInv
    <2>2. /\ p \in Nat /\ live[p] \in Nat /\ p - HDR \in DOMAIN hdr
          /\ p + live[p] <= End(p - HDR)
      BY HeldRange
    <2>3. End(p - HDR) \in Nat
      BY <2>2, BlockRange DEF IInv
    <2>4. CASE a = p - HDR
      BY <2>1, <2>2, <2>4
    <2>5. CASE a < p - HDR
      <3>1. End(a) <= p - HDR
        BY <2>2, <2>5 DEF IInv, Tiles
      <3> QED
        BY <2>1, <2>2, <3>1
    <2>6. CASE p - HDR < a
      <3>1. End(p - HDR) <= a
        BY <2>2, <2>6 DEF IInv, Tiles
      <3> QED
        BY <2>1, <2>2, <2>3, <3>1
    <2> QED
      BY <2>1, <2>2, <2>4, <2>5, <2>6
  <1> QED
    BY <1>1, Inductive, PTL

\* Between calls no two neighbouring blocks are free.
THEOREM NeighboursMerged == Spec => []Coalesced
  BY Inductive, PTL DEF IInv

\* Once every pointer has been freed the heap is one free block again.
THEOREM NothingLeaks == Spec => []FullyReclaimed
  <1>1. IInv => FullyReclaimed
    <2> SUFFICES ASSUME IInv, heap_start # NULL, pc = "idle", DOMAIN live = {}
                 PROVE  hdr = [a \in {heap_base_addr} |->
                                 [size |-> HEAP_SIZE - HDR, free |-> TRUE,
                                  next |-> NULL]]
      BY DEF FullyReclaimed
    <2> USE BaseRange, HeapConstants
    <2>1. /\ heap_start = heap_base_addr /\ heap_base_addr \in DOMAIN hdr
          /\ \A a \in DOMAIN hdr : hdr[a].free
      BY DEF IInv, TypeOK, Tiles, HeldBlocks
    <2>2. \A a \in DOMAIN hdr : hdr[a].next = NULL
      BY <2>1 DEF IInv, Coalesced, Tiles
    <2>3. DOMAIN hdr = {heap_base_addr}
      <3>1. ASSUME NEW a \in DOMAIN hdr PROVE a = heap_base_addr
        <4>1. a = heap_base_addr \/ a < heap_base_addr
          BY <2>1, <2>2, BeforeNext DEF IInv
        <4> QED
          BY <4>1, BlockRange DEF IInv
      <3> QED
        BY <2>1, <3>1
    <2>4. hdr[heap_base_addr].size = HEAP_SIZE - HDR
      <3>1. End(heap_base_addr) = Limit /\ hdr[heap_base_addr].size \in Nat
        <4>1. hdr[heap_base_addr].next \notin DOMAIN hdr
          BY <2>1, <2>2 DEF IInv, TypeOK, NULL
        <4> QED
          BY <2>1, <4>1, BlockRange DEF IInv, Tiles
      <3> QED
        BY <3>1 DEF End, Limit
    <2>5. hdr[heap_base_addr] \in Header
      BY <2>1 DEF IInv, TypeOK
    <2>6. hdr[heap_base_addr] =
            [size |-> HEAP_SIZE - HDR, free |-> TRUE, next |-> NULL]
      BY <2>1, <2>2, <2>4, <2>5 DEF Header
    <2>7. hdr = [a \in DOMAIN hdr |-> hdr[a]]
      BY DEF IInv, TypeOK
    <2> QED
      BY <2>3, <2>6, <2>7
  <1> QED
    BY <1>1, Inductive, PTL

-----------------------------------------------------------------------------
\* The block kmalloc takes is free for the abstract allocator to give.
LEMMA TakeAvailable ==
  ASSUME IInv, KmallocTake
  PROVE  /\ want \in Sizes
         /\ cur + HDR \in heap_base_addr .. Limit
         /\ cur + HDR \notin DOMAIN live
         /\ A!Available(cur + HDR, want)
  <1> USE BaseRange, HeapConstants
  <1>1. /\ cur \in DOMAIN hdr /\ hdr[cur].free /\ size <= hdr[cur].size
        /\ want \in Sizes /\ want \in Nat /\ size \in Nat /\ want <= size
    <2>1. cur \in DOMAIN hdr /\ hdr[cur].free /\ hdr[cur].size >= size
      BY DEF IInv, TypeOK, KmallocTake, Fits
    <2>2. want \in Sizes /\ want \in Nat /\ size \in Nat /\ want <= size
      BY WantRange DEF KmallocTake
    <2>3. hdr[cur].size \in Nat
      BY <2>1, BlockRange DEF IInv
    <2> QED
      BY <2>1, <2>2, <2>3
  <1>2. /\ cur \in Nat /\ heap_base_addr <= cur /\ End(cur) \in Nat
        /\ hdr[cur].size \in Nat /\ End(cur) <= Limit
    BY <1>1, BlockRange DEF IInv
  <1>3. cur + HDR + want <= End(cur)
    BY <1>1, <1>2 DEF End
  <1>4. ASSUME NEW q \in DOMAIN live
        PROVE  /\ q # cur + HDR
               /\ cur + HDR + want <= q \/ q + live[q] <= cur + HDR
    <2>1. /\ q \in Nat /\ live[q] \in Nat /\ q - HDR \in DOMAIN hdr
          /\ q + live[q] <= End(q - HDR)
      BY HeldRange
    <2>2. q - HDR # cur /\ End(q - HDR) \in Nat
      BY <1>1, <2>1, BlockRange DEF IInv, HeldBlocks
    <2>3. /\ q - HDR < cur => End(q - HDR) <= cur
          /\ cur < q - HDR => End(cur) <= q - HDR
      BY <1>1, <2>1 DEF IInv, Tiles
    <2> QED
      BY <1>1, <1>2, <1>3, <2>1, <2>2, <2>3
  <1> QED
    BY <1>1, <1>2, <1>3, <1>4 DEF A!Available

\* kmalloc succeeds with the lowest block that is large enough and fails only
\* if there is none.
THEOREM FirstFitHolds == Spec => FirstFit
  <1> DEFINE Enough == {a \in DOMAIN hdr : hdr[a].free /\ hdr[a].size >= size}
  <1>1. ASSUME IInv, Next, pc = "scan", pc' = "idle"
        PROVE  IF live' = live THEN Enough = {}
               ELSE /\ cur \in Enough
                    /\ \A a \in Enough : cur <= a
                    /\ cur + HDR \in DOMAIN live'
    <2>1. CASE KmallocFail
      BY <1>1, <2>1 DEF IInv, WalkInv, KmallocFail
    <2>2. CASE KmallocTake
      <3>1. cur \in DOMAIN hdr /\ cur \in Enough
        BY <1>1, <2>2 DEF IInv, TypeOK, KmallocTake, Fits
      <3>2. \A a \in Enough : cur <= a
        <4> SUFFICES ASSUME NEW a \in Enough PROVE cur <= a
          OBVIOUS
        <4>1. ~(a < cur)
          BY <1>1 DEF IInv, WalkInv
        <4> QED
          BY <3>1, <4>1, <1>1, BlockRange DEF IInv
      <3>3. cur + HDR \in DOMAIN live'
        BY <2>2 DEF KmallocTake
      <3>4. cur + HDR \notin DOMAIN live
        BY <1>1, <2>2, TakeAvailable
      <3> QED
        BY <3>1, <3>2, <3>3, <3>4
    <2>3. KmallocFail \/ KmallocTake
      BY <1>1 DEF Next, heap_init, KmallocCall, KmallocAdvance, KfreeCall,
                  CoalesceMerge, CoalesceAdvance, CoalesceDone
    <2> QED
      BY <2>1, <2>2, <2>3
  <1>2. IInv /\ [Next]_vars =>
          [(pc = "scan" /\ pc' = "idle") =>
             LET Enough2 == {a \in DOMAIN hdr : hdr[a].free /\ hdr[a].size >= size} IN
             IF live' = live THEN Enough2 = {}
             ELSE /\ cur \in Enough2
                  /\ \A a \in Enough2 : cur <= a
                  /\ cur + HDR \in DOMAIN live']_vars
    BY <1>1
  <1> QED
    BY <1>2, Inductive, PTL DEF Spec, FirstFit

\* heap.c implements Allocator: splitting, merging and the walks are invisible
\* to callers, who always hold disjoint regions of the heap.
THEOREM Refinement == Spec => AllocatorSpec
  <1>1. Init => A!Init
    BY DEF Init, A!Init
  <1>2. ASSUME IInv, [Next]_vars PROVE [A!Next]_live
    <2>1. CASE KmallocTake
      <3>1. A!Alloc(cur + HDR, want)
        BY <2>1, <1>2, TakeAvailable DEF A!Alloc, KmallocTake
      <3> QED
        BY <2>1, <3>1, <1>2, TakeAvailable DEF A!Next
    <2>2. ASSUME NEW p \in DOMAIN live, KfreeCall(p) PROVE A!Next
      BY <2>2 DEF KfreeCall, A!Next, A!Free
    <2>3. CASE live' = live
      BY <2>3
    <2> QED
      BY <1>2, <2>1, <2>2, <2>3 DEF Next, vars, heap_init, KmallocCall,
         KmallocAdvance, KmallocFail, CoalesceMerge, CoalesceAdvance, CoalesceDone
  <1> QED
    BY <1>1, <1>2, Inductive, PTL DEF Spec, AllocatorSpec, A!Spec

-----------------------------------------------------------------------------
(* Induction on the number of blocks                                        *)

Less == {pair \in Nat \X Nat : pair[1] < pair[2]}

\* A set of naturals has a least element: proofs by induction take the least
\* counterexample.
LEMMA LeastNat ==
  ASSUME NEW T, T \subseteq Nat, T # {}
  PROVE  \E n \in T : \A m \in T : n <= m
  <1>1. IsWellFoundedOn(Less, Nat)
    <2>1. Less = OpToRel(<, Nat)
      BY Zenon DEF OpToRel, Less
    <2> QED
      BY <2>1, NatLessThanWellFounded, Zenon
  <1>2. PICK n \in T : \A m \in T : ~(<<m, n>> \in Less)
    BY <1>1, WFMin
  <1>3. ASSUME NEW m \in T PROVE n <= m
    <2>1. m \in Nat /\ n \in Nat /\ <<m, n>> \in Nat \X Nat
      OBVIOUS
    <2>2. ~(m < n)
      BY <1>2, <2>1 DEF Less
    <2> QED
      BY <2>1, <2>2
  <1> QED
    BY <1>3

-----------------------------------------------------------------------------
(* Sums over blocks                                                         *)

\* MapThenSumSet takes the elements of s one by one, in the order of CHOOSE.
Pick(s) == CHOOSE x \in s : TRUE

SumStep(h, g, s) ==
  IF s = {} THEN 0 ELSE h[Pick(s)].size + g[s \ {Pick(s)}]

SumFn(h, S) == CHOOSE g : g = [s \in SUBSET S |-> SumStep(h, g, s)]

LEMMA BytesDef ==
  ASSUME NEW h, NEW S
  PROVE  Bytes(h, S) = SumFn(h, S)[S]
  BY DEF Bytes, MapThenSumSet, MapThenFoldSet, SumFn, SumStep, Pick

\* What Pick leaves of a finite set has one element less.
LEMMA PickRange ==
  ASSUME NEW S, IsFiniteSet(S), NEW s \in SUBSET S, s # {}
  PROVE  /\ Pick(s) \in s /\ s \ {Pick(s)} \in SUBSET S
         /\ Cardinality(s) \in Nat /\ Cardinality(s \ {Pick(s)}) \in Nat
         /\ Cardinality(s \ {Pick(s)}) = Cardinality(s) - 1
  <1>1. Pick(s) \in s
    BY DEF Pick
  <1>2. IsFiniteSet(s)
    BY FS_Subset
  <1> QED
    BY <1>1, <1>2, FS_RemoveElement, FS_CardinalityType

\* A function with the equation of SumFn exists: it is right for the sets of at
\* most n elements, for every n.
LEMMA SumExists ==
  ASSUME NEW h, NEW S, IsFiniteSet(S), \A a \in S : h[a].size \in Nat
  PROVE  \E g \in [SUBSET S -> Nat] : \A s \in SUBSET S : g[s] = SumStep(h, g, s)
  <1> DEFINE Right(g, n) ==
               \A s \in SUBSET S : Cardinality(s) <= n => g[s] = SumStep(h, g, s)
             Bad == {n \in Nat : ~ \E g \in [SUBSET S -> Nat] : Right(g, n)}
             Later(g) == [s \in SUBSET S |-> SumStep(h, g, s)]
  <1>1. ASSUME NEW g \in [SUBSET S -> Nat] PROVE Later(g) \in [SUBSET S -> Nat]
    <2>1. ASSUME NEW s \in SUBSET S PROVE SumStep(h, g, s) \in Nat
      <3>1. CASE s = {}
        BY <3>1 DEF SumStep
      <3>2. CASE s # {}
        <4>1. Pick(s) \in S /\ s \ {Pick(s)} \in SUBSET S
          BY <3>2, PickRange
        <4>2. h[Pick(s)].size \in Nat /\ g[s \ {Pick(s)}] \in Nat
          BY <4>1
        <4> QED
          BY <3>2, <4>2 DEF SumStep
      <3> QED
        BY <3>1, <3>2
    <2> QED
      BY <2>1
  <1>2. ASSUME NEW s \in SUBSET S
        PROVE  Cardinality(s) \in Nat /\ (Cardinality(s) = 0 <=> s = {})
    <2>1. IsFiniteSet(s)
      BY FS_Subset
    <2> QED
      BY <2>1, FS_CardinalityType, FS_EmptySet
  <1>3. 0 \notin Bad
    <2> DEFINE g0 == [s \in SUBSET S |-> 0]
    <2>1. g0 \in [SUBSET S -> Nat]
      OBVIOUS
    <2>2. Right(g0, 0)
      BY <1>2 DEF SumStep
    <2> QED
      BY <2>1, <2>2
  <1>4. ASSUME NEW n \in Nat, NEW g \in [SUBSET S -> Nat], Right(g, n)
        PROVE  Right(Later(g), n + 1)
    <2> SUFFICES ASSUME NEW s \in SUBSET S, Cardinality(s) <= n + 1
                 PROVE  Later(g)[s] = SumStep(h, Later(g), s)
      OBVIOUS
    <2>1. CASE s = {}
      BY <2>1 DEF SumStep
    <2>2. CASE s # {}
      <3> DEFINE r == s \ {Pick(s)}
      <3>1. r \in SUBSET S /\ Cardinality(r) <= n
        BY <2>2, PickRange
      <3>2. g[r] = SumStep(h, g, r)
        BY <1>4, <3>1
      <3>3. g[r] = Later(g)[r]
        BY <3>1, <3>2
      <3> QED
        BY <2>2, <3>3 DEF SumStep
    <2> QED
      BY <2>1, <2>2
  <1>5. ASSUME NEW n \in Nat, n + 1 \in Bad PROVE n \in Bad
    BY <1>1, <1>4, <1>5
  <1>6. Bad = {}
    <2> SUFFICES ASSUME Bad # {} PROVE FALSE
      OBVIOUS
    <2>1. PICK n \in Bad : \A m \in Bad : n <= m
      <3>1. Bad \subseteq Nat
        OBVIOUS
      <3> HIDE DEF Bad
      <3> QED
        BY <3>1, LeastNat
    <2>2. n \in Nat /\ n # 0
      BY <1>3
    <2>3. n - 1 \in Nat /\ (n - 1) + 1 = n
      BY <2>2
    <2> HIDE DEF Bad
    <2>4. n - 1 \in Bad
      BY <1>5, <2>3
    <2> QED
      BY <2>1, <2>2, <2>4
  <1>7. PICK g \in [SUBSET S -> Nat] : Right(g, Cardinality(S))
    BY <1>2, <1>6
  <1>8. \A s \in SUBSET S : Cardinality(s) <= Cardinality(S)
    BY FS_Subset
  <1> QED
    BY <1>7, <1>8

\* Two functions with this equation agree where the sizes do.
LEMMA SumUnique ==
  ASSUME NEW h, NEW h2, NEW S, IsFiniteSet(S), NEW g, NEW g2,
         \A s \in SUBSET S : g[s] = SumStep(h, g, s),
         \A s \in SUBSET S : g2[s] = SumStep(h2, g2, s),
         \A a \in S : h[a].size = h2[a].size
  PROVE  \A s \in SUBSET S : g[s] = g2[s]
  <1> DEFINE Bad == {n \in Nat : \E s \in SUBSET S : Cardinality(s) = n /\ g[s] # g2[s]}
  <1>1. \A s \in SUBSET S : Cardinality(s) \in Nat
    BY FS_Subset, FS_CardinalityType
  <1>2. ASSUME NEW n \in Bad PROVE \E m \in Bad : m < n
    <2>1. PICK s \in SUBSET S : Cardinality(s) = n /\ g[s] # g2[s]
      BY <1>2
    <2> DEFINE r == s \ {Pick(s)}
    <2>2. s # {}
      BY <2>1 DEF SumStep
    <2>3. Pick(s) \in S /\ r \in SUBSET S /\ Cardinality(r) \in Nat
          /\ Cardinality(r) = Cardinality(s) - 1
      BY <2>2, PickRange
    <2>4. g[r] # g2[r]
      BY <2>1, <2>2, <2>3 DEF SumStep
    <2> QED
      BY <1>1, <2>1, <2>3, <2>4
  <1>3. Bad = {}
    <2> SUFFICES ASSUME Bad # {} PROVE FALSE
      OBVIOUS
    <2>1. Bad \subseteq Nat
      OBVIOUS
    <2> HIDE DEF Bad
    <2>2. PICK n \in Bad : \A m \in Bad : n <= m
      BY <2>1, LeastNat
    <2>3. PICK m \in Bad : m < n
      BY <1>2
    <2> QED
      BY <2>1, <2>2, <2>3
  <1> QED
    BY <1>1, <1>3

LEMMA SumFnDef ==
  ASSUME NEW h, NEW S, IsFiniteSet(S), \A a \in S : h[a].size \in Nat
  PROVE  /\ SumFn(h, S) \in [SUBSET S -> Nat]
         /\ \A s \in SUBSET S : SumFn(h, S)[s] = SumStep(h, SumFn(h, S), s)
  <1>1. PICK g \in [SUBSET S -> Nat] : \A s \in SUBSET S : g[s] = SumStep(h, g, s)
    BY SumExists
  <1>2. g = [s \in SUBSET S |-> SumStep(h, g, s)]
    BY <1>1
  <1>3. SumFn(h, S) = [s \in SUBSET S |-> SumStep(h, SumFn(h, S), s)]
    <2>1. \E f : f = [s \in SUBSET S |-> SumStep(h, f, s)]
      BY <1>2
    <2> QED
      BY <2>1, Zenon DEF SumFn
  <1>4. \A s \in SUBSET S : SumFn(h, S)[s] = SumStep(h, SumFn(h, S), s)
    BY <1>3
  <1>5. \A s \in SUBSET S : SumFn(h, S)[s] = g[s]
    BY <1>1, <1>4, SumUnique
  <1> QED
    BY <1>3, <1>4, <1>5

\* Equal sizes add up to equal sums.
LEMMA BytesSame ==
  ASSUME NEW h, NEW h2, NEW S, IsFiniteSet(S),
         \A a \in S : h[a].size \in Nat /\ h2[a].size = h[a].size
  PROVE  Bytes(h, S) = Bytes(h2, S)
  <1>1. \A s \in SUBSET S : SumFn(h, S)[s] = SumFn(h2, S)[s]
    <2>1. \A a \in S : h[a].size \in Nat /\ h2[a].size \in Nat
      OBVIOUS
    <2>2. \A s \in SUBSET S : SumFn(h, S)[s] = SumStep(h, SumFn(h, S), s)
      BY <2>1, SumFnDef
    <2>3. \A s \in SUBSET S : SumFn(h2, S)[s] = SumStep(h2, SumFn(h2, S), s)
      BY <2>1, SumFnDef
    <2> QED
      BY <2>2, <2>3, SumUnique
  <1> QED
    BY <1>1, BytesDef

LEMMA BytesPick ==
  ASSUME NEW h, NEW S, IsFiniteSet(S), \A a \in S : h[a].size \in Nat
  PROVE  /\ Bytes(h, S) \in Nat
         /\ S = {} => Bytes(h, S) = 0
         /\ S # {} => Bytes(h, S) = h[Pick(S)].size + Bytes(h, S \ {Pick(S)})
  <1>1. Bytes(h, S) \in Nat
    <2>1. SumFn(h, S) \in [SUBSET S -> Nat]
      BY SumFnDef
    <2>2. S \in SUBSET S /\ Bytes(h, S) = SumFn(h, S)[S]
      BY BytesDef
    <2> QED
      BY <2>1, <2>2
  <1>2. ASSUME S = {} PROVE Bytes(h, S) = 0
    <2>1. SumFn(h, S)[S] = SumStep(h, SumFn(h, S), S)
      BY SumFnDef
    <2> QED
      BY <1>2, <2>1, BytesDef DEF SumStep
  <1>3. ASSUME S # {}
        PROVE  Bytes(h, S) = h[Pick(S)].size + Bytes(h, S \ {Pick(S)})
    <2> DEFINE R == S \ {Pick(S)}
    <2>1. R \in SUBSET S /\ IsFiniteSet(R) /\ \A a \in R : h[a].size \in Nat
      BY <1>3, FS_Subset
    <2>2. \A s \in SUBSET S : SumFn(h, S)[s] = SumStep(h, SumFn(h, S), s)
      BY SumFnDef
    <2>3. \A s \in SUBSET R : SumFn(h, R)[s] = SumStep(h, SumFn(h, R), s)
      BY <2>1, SumFnDef
    <2>4. \A s \in SUBSET R : SumFn(h, S)[s] = SumStep(h, SumFn(h, S), s)
      BY <2>1, <2>2
    <2>5. \A s \in SUBSET R : SumFn(h, S)[s] = SumFn(h, R)[s]
      <3> HIDE DEF R
      <3> QED
        BY <2>1, <2>3, <2>4, SumUnique
    <2>6. SumFn(h, S)[S] = h[Pick(S)].size + SumFn(h, S)[R]
      BY <1>3, <2>2 DEF SumStep
    <2> QED
      BY <2>5, <2>6, BytesDef
  <1> QED
    BY <1>1, <1>2, <1>3

\* The order does not matter: any block may be counted first.
LEMMA BytesRemove ==
  ASSUME NEW h, NEW S, IsFiniteSet(S), \A a \in S : h[a].size \in Nat, NEW x \in S
  PROVE  Bytes(h, S) = h[x].size + Bytes(h, S \ {x})
  <1> DEFINE Wrong(s, y) == Bytes(h, s) # h[y].size + Bytes(h, s \ {y})
             Bad == {n \in Nat : \E s \in SUBSET S : Cardinality(s) = n
                                   /\ \E y \in s : Wrong(s, y)}
  <1>1. ASSUME NEW s \in SUBSET S
        PROVE  /\ IsFiniteSet(s) /\ Cardinality(s) \in Nat
               /\ \A a \in s : h[a].size \in Nat
               /\ Bytes(h, s) \in Nat
               /\ s # {} => Bytes(h, s) = h[Pick(s)].size + Bytes(h, s \ {Pick(s)})
    <2>1. IsFiniteSet(s) /\ Cardinality(s) \in Nat /\ \A a \in s : h[a].size \in Nat
      BY FS_Subset, FS_CardinalityType
    <2> QED
      BY <2>1, BytesPick
  <1>2. ASSUME NEW n \in Bad PROVE \E m \in Bad : m < n
    <2>1. PICK s \in SUBSET S : Cardinality(s) = n /\ \E y \in s : Wrong(s, y)
      BY <1>2
    <2>2. PICK y \in s : Wrong(s, y)
      BY <2>1
    <2> DEFINE p == Pick(s)
               P == s \ {p}
               Y == s \ {y}
               B == s \ {p, y}
    <2>3. s # {} /\ p \in s
      BY <2>2, PickRange
    <2>4. Bytes(h, s) = h[p].size + Bytes(h, P)
      BY <1>1, <2>3
    <2>5. p # y
      BY <2>2, <2>4
    <2>6. P \in SUBSET S /\ Y \in SUBSET S /\ B \in SUBSET S /\ y \in P /\ p \in Y
      BY <2>3, <2>5
    <2>7. P \ {y} = B /\ Y \ {p} = B
      OBVIOUS
    <2>8. Cardinality(P) = n - 1 /\ Cardinality(Y) = n - 1 /\ n - 1 \in Nat
      <3>1. IsFiniteSet(s) /\ Cardinality(P) \in Nat
        BY <1>1, <2>6
      <3> QED
        BY <2>1, <2>3, <3>1, FS_RemoveElement
    <2>9. h[p].size \in Nat /\ h[y].size \in Nat /\ Bytes(h, P) \in Nat
          /\ Bytes(h, Y) \in Nat /\ Bytes(h, B) \in Nat
      BY <1>1, <2>3, <2>6
    <2>10. Wrong(P, y) \/ Wrong(Y, p)
      <3> SUFFICES ASSUME ~Wrong(P, y), ~Wrong(Y, p) PROVE FALSE
        OBVIOUS
      <3>1. Bytes(h, P) = h[y].size + Bytes(h, B) /\ Bytes(h, Y) = h[p].size + Bytes(h, B)
        <4>1. Bytes(h, P) = h[y].size + Bytes(h, P \ {y})
          OBVIOUS
        <4>2. Bytes(h, Y) = h[p].size + Bytes(h, Y \ {p})
          OBVIOUS
        <4> QED
          BY <2>7, <4>1, <4>2
      <3>2. Bytes(h, s) = h[y].size + Bytes(h, Y)
        <4> HIDE DEF p, P, Y, B
        <4> QED
          BY <2>4, <2>9, <3>1
      <3> QED
        BY <2>2, <3>2
    <2>11. n - 1 \in Bad /\ n - 1 < n
      <3>1. CASE Wrong(P, y)
        <4>1. \E z \in P : Wrong(P, z)
          BY <2>6, <3>1
        <4> HIDE DEF P, Y, Wrong
        <4> QED
          BY <2>6, <2>8, <4>1
      <3>2. CASE Wrong(Y, p)
        <4>1. \E z \in Y : Wrong(Y, z)
          BY <2>6, <3>2
        <4> HIDE DEF P, Y, Wrong
        <4> QED
          BY <2>6, <2>8, <4>1
      <3> QED
        BY <2>10, <3>1, <3>2
    <2> QED
      BY <2>11
  <1>3. Bad = {}
    <2> SUFFICES ASSUME Bad # {} PROVE FALSE
      OBVIOUS
    <2>1. Bad \subseteq Nat
      OBVIOUS
    <2> HIDE DEF Bad
    <2>2. PICK n \in Bad : \A m \in Bad : n <= m
      BY <2>1, LeastNat
    <2>3. PICK m \in Bad : m < n
      BY <1>2
    <2> QED
      BY <2>1, <2>2, <2>3
  <1> QED
    BY <1>1, <1>3

\* The sum over two sets of blocks is the sum of their sums.
LEMMA BytesUnion ==
  ASSUME NEW h, NEW P, NEW Q, IsFiniteSet(P), IsFiniteSet(Q), P \cap Q = {},
         \A a \in P \cup Q : h[a].size \in Nat
  PROVE  Bytes(h, P \cup Q) = Bytes(h, P) + Bytes(h, Q)
  <1> DEFINE Wrong(s) == Bytes(h, P \cup s) # Bytes(h, P) + Bytes(h, s)
             Bad == {n \in Nat : \E s \in SUBSET Q : Cardinality(s) = n /\ Wrong(s)}
  <1>1. ASSUME NEW s \in SUBSET Q
        PROVE  /\ IsFiniteSet(s) /\ IsFiniteSet(P \cup s) /\ Cardinality(s) \in Nat
               /\ \A a \in s : h[a].size \in Nat
               /\ \A a \in P \cup s : h[a].size \in Nat
    <2>1. IsFiniteSet(s)
      BY FS_Subset
    <2> QED
      BY <2>1, FS_CardinalityType, FS_Union
  <1>2. \A a \in P : h[a].size \in Nat
    OBVIOUS
  <1>3. ASSUME NEW n \in Bad PROVE \E m \in Bad : m < n
    <2>1. PICK s \in SUBSET Q : Cardinality(s) = n /\ Wrong(s)
      BY <1>3
    <2>2. s # {}
      <3>1. CASE s = {}
        <4>1. IsFiniteSet(s) /\ \A a \in s : h[a].size \in Nat
          BY <1>1
        <4>2. Bytes(h, s) = 0
          BY <3>1, <4>1, BytesPick
        <4>3. Bytes(h, P) \in Nat /\ P \cup s = P
          BY <1>2, <3>1, BytesPick
        <4>4. Bytes(h, P \cup s) = Bytes(h, P)
          BY <4>3
        <4> QED
          BY <2>1, <4>2, <4>3, <4>4
      <3> QED
        BY <3>1
    <2>3. PICK x \in s : TRUE
      BY <2>2
    <2> DEFINE r == s \ {x}
    <2>4. r \in SUBSET Q /\ x \notin P /\ (P \cup s) \ {x} = P \cup r
      OBVIOUS
    <2>5. Bytes(h, s) = h[x].size + Bytes(h, r)
      <3>1. IsFiniteSet(s) /\ \A a \in s : h[a].size \in Nat
        BY <1>1
      <3> QED
        BY <2>3, <3>1, BytesRemove
    <2>6. Bytes(h, P \cup s) = h[x].size + Bytes(h, P \cup r)
      <3>1. IsFiniteSet(P \cup s) /\ \A a \in P \cup s : h[a].size \in Nat
        BY <1>1
      <3>2. x \in P \cup s
        BY <2>3
      <3>3. Bytes(h, P \cup s) = h[x].size + Bytes(h, (P \cup s) \ {x})
        BY <3>1, <3>2, BytesRemove
      <3> QED
        BY <2>4, <3>3
    <2>7. /\ h[x].size \in Nat /\ Bytes(h, P) \in Nat /\ Bytes(h, r) \in Nat
          /\ Bytes(h, P \cup r) \in Nat
      <3> HIDE DEF r
      <3>1. /\ IsFiniteSet(r) /\ IsFiniteSet(P \cup r)
            /\ \A a \in r : h[a].size \in Nat
            /\ \A a \in P \cup r : h[a].size \in Nat
        BY <1>1, <2>4
      <3> QED
        BY <1>1, <1>2, <3>1, BytesPick
    <2>8. Cardinality(r) = n - 1 /\ n - 1 \in Nat
      <3>1. IsFiniteSet(s) /\ Cardinality(r) \in Nat
        BY <1>1, <2>4
      <3> QED
        BY <2>1, <3>1, FS_RemoveElement
    <2> HIDE DEF r
    <2>9. Wrong(r)
      BY <2>1, <2>5, <2>6, <2>7
    <2> HIDE DEF Wrong
    <2> QED
      BY <2>4, <2>8, <2>9
  <1>4. Bad = {}
    <2> SUFFICES ASSUME Bad # {} PROVE FALSE
      OBVIOUS
    <2>1. Bad \subseteq Nat
      OBVIOUS
    <2> HIDE DEF Bad
    <2>2. PICK n \in Bad : \A m \in Bad : n <= m
      BY <2>1, LeastNat
    <2>3. PICK m \in Bad : m < n
      BY <1>3
    <2> QED
      BY <2>1, <2>2, <2>3
  <1> QED
    BY <1>1, <1>4

-----------------------------------------------------------------------------
(* Every byte of the heap is accounted for                                  *)

\* The rest of a block that is cut starts inside it.
LEMMA RestIsNew ==
  ASSUME IInv, cur \in DOMAIN hdr, WorthSplitting(cur)
  PROVE  cur + HDR + size \notin DOMAIN hdr
  <1> DEFINE rest == cur + HDR + size
  <1>1. cur \in Nat /\ size \in Nat /\ hdr[cur].size \in Nat
    BY BlockRange DEF IInv, TypeOK
  <1>2. rest \in Nat /\ cur < rest /\ rest < End(cur)
    <2>1. hdr[cur].size - size >= HDR + MIN_BLOCK_DATA
      BY DEF WorthSplitting
    <2> QED
      BY <1>1, <2>1, HeapConstants DEF End
  <1>3. rest \in DOMAIN hdr => End(cur) <= rest
    BY <1>2 DEF IInv, Tiles
  <1>4. End(cur) \in Nat
    BY BlockRange DEF IInv
  <1> QED
    BY <1>2, <1>3, <1>4

\* What the blocks at S take of the heap, headers included.
Weight(h, S) == Bytes(h, S) + HDR * Cardinality(S)

LEMMA WeightRemove ==
  ASSUME NEW h, NEW S, IsFiniteSet(S), \A a \in S : h[a].size \in Nat, NEW x \in S
  PROVE  /\ Weight(h, S) = h[x].size + HDR + Weight(h, S \ {x})
         /\ Weight(h, S \ {x}) \in Nat
  <1>1. IsFiniteSet(S \ {x}) /\ \A a \in S \ {x} : h[a].size \in Nat
    BY FS_RemoveElement
  <1>2. Bytes(h, S \ {x}) \in Nat /\ h[x].size \in Nat
    BY <1>1, BytesPick
  <1>3. Bytes(h, S) = h[x].size + Bytes(h, S \ {x})
    BY BytesRemove
  <1>4. PICK n \in Nat : Cardinality(S \ {x}) = n
    BY <1>1, FS_CardinalityType
  <1>5. Cardinality(S) = n + 1
    <2>1. Cardinality(S) \in Nat /\ Cardinality(S \ {x}) = Cardinality(S) - 1
      BY FS_RemoveElement, FS_CardinalityType
    <2> QED
      BY <1>4, <2>1
  <1>6. HDR * (n + 1) = HDR * n + HDR /\ HDR * n \in Nat /\ HDR \in Nat
    BY HeapConstants
  <1> QED
    BY <1>2, <1>3, <1>4, <1>5, <1>6 DEF Weight

LEMMA WeightSame ==
  ASSUME NEW h, NEW h2, NEW S, IsFiniteSet(S),
         \A a \in S : h[a].size \in Nat /\ h2[a].size = h[a].size
  PROVE  Weight(h, S) = Weight(h2, S)
  BY BytesSame DEF Weight

LEMMA HeadersFinite ==
  ASSUME TypeOK
  PROVE  IsFiniteSet(DOMAIN hdr) /\ \A a \in DOMAIN hdr : hdr[a].size \in Nat
  <1>1. IsFiniteSet(heap_base_addr .. Limit)
    BY BaseRange, FS_Interval
  <1>2. IsFiniteSet(DOMAIN hdr)
    BY <1>1, FS_Subset DEF TypeOK
  <1> QED
    BY <1>2 DEF TypeOK, Header

\* The blocks always weigh what the heap has been given.
Full == heap_start # NULL => Weight(hdr, DOMAIN hdr) = HEAP_SIZE

\* The two parts of a split weigh what the block did.
LEMMA SplitFull ==
  ASSUME IInv, Full, KmallocTake, WorthSplitting(cur), IInv'
  PROVE  Full'
  <1> DEFINE rest == cur + HDR + size
             D == DOMAIN hdr
  <1>1. /\ cur \in D /\ heap_start' = heap_start /\ heap_start # NULL
        /\ size \in Nat /\ hdr[cur].size \in Nat
    BY BlockRange DEF IInv, TypeOK, Tiles, KmallocTake
  <1>2. rest \notin D
    BY <1>1, RestIsNew
  <1>3. hdr' = [b \in D \cup {rest} |->
                  IF b = rest
                  THEN [size |-> hdr[cur].size - size - HDR, free |-> TRUE,
                        next |-> hdr[cur].next]
                  ELSE IF b = cur
                  THEN [size |-> size, free |-> FALSE, next |-> rest]
                  ELSE hdr[b]]
    BY DEF KmallocTake, Taken
  <1> HIDE DEF rest
  <1>4. /\ DOMAIN hdr' = D \cup {rest}
        /\ hdr'[rest].size = hdr[cur].size - size - HDR /\ hdr'[cur].size = size
        /\ \A b \in D \ {cur} : hdr'[b].size = hdr[b].size
    BY <1>1, <1>2, <1>3
  <1>5. /\ IsFiniteSet(D) /\ IsFiniteSet(D \ {cur}) /\ IsFiniteSet(D \cup {rest})
        /\ \A a \in D : hdr[a].size \in Nat
        /\ \A a \in D \cup {rest} : hdr'[a].size \in Nat
    <2>1. IsFiniteSet(D) /\ \A a \in D : hdr[a].size \in Nat
      BY HeadersFinite DEF IInv
    <2>2. \A a \in DOMAIN hdr' : hdr'[a].size \in Nat
      BY DEF IInv, TypeOK, Header
    <2> QED
      BY <1>4, <2>1, <2>2, FS_AddElement, FS_RemoveElement
  <1> DEFINE h2 == hdr'
  <1> HIDE DEF D, h2
  <1>6. Weight(h2, D \cup {rest}) = h2[rest].size + HDR + Weight(h2, D)
    <2>1. (D \cup {rest}) \ {rest} = D
      BY <1>2 DEF D
    <2>2. rest \in D \cup {rest} /\ \A a \in D \cup {rest} : h2[a].size \in Nat
      BY <1>5 DEF h2
    <2>3. Weight(h2, D \cup {rest}) =
            h2[rest].size + HDR + Weight(h2, (D \cup {rest}) \ {rest})
      BY <1>5, <2>2, WeightRemove
    <2> QED
      BY <2>1, <2>3
  <1>7. /\ Weight(h2, D) = h2[cur].size + HDR + Weight(h2, D \ {cur})
        /\ Weight(h2, D \ {cur}) \in Nat
    <2>1. \A a \in D : h2[a].size \in Nat
      BY <1>5 DEF h2
    <2> QED
      BY <1>1, <1>5, <2>1, WeightRemove DEF D
  <1>8. Weight(hdr, D) = hdr[cur].size + HDR + Weight(hdr, D \ {cur})
    BY <1>1, <1>5, WeightRemove DEF D
  <1>9. Weight(hdr, D \ {cur}) = Weight(h2, D \ {cur})
    <2>1. \A a \in D \ {cur} : hdr[a].size \in Nat /\ h2[a].size = hdr[a].size
      BY <1>4, <1>5 DEF h2, D
    <2> QED
      BY <1>5, <2>1, WeightSame
  <1>10. Weight(h2, D \cup {rest}) = Weight(hdr, D)
    <2>1. h2[rest].size = hdr[cur].size - size - HDR /\ h2[cur].size = size
      BY <1>4 DEF h2
    <2> QED
      BY <1>1, <1>6, <1>7, <1>8, <1>9, <2>1, HeapConstants
  <1> QED
    BY <1>1, <1>4, <1>10 DEF Full, D, h2

\* A merge turns the header it removes into bytes of the block.
LEMMA MergeFull ==
  ASSUME IInv, Full, CoalesceMerge, IInv'
  PROVE  Full'
  <1> DEFINE n == hdr[cur].next
             D == DOMAIN hdr
             h2 == hdr'
  <1>1. /\ cur \in D /\ n \in D /\ n # cur
        /\ heap_start' = heap_start /\ heap_start # NULL
    <2>1. cur \in DOMAIN hdr /\ n # NULL /\ heap_start' = heap_start
      BY DEF IInv, TypeOK, CoalesceMerge
    <2>2. n \in DOMAIN hdr /\ n = End(cur) /\ heap_start # NULL
      BY <2>1 DEF IInv, Tiles
    <2>3. cur \in Nat /\ End(cur) \in Nat /\ cur < End(cur)
      BY <2>1, BlockRange DEF IInv
    <2> QED
      BY <2>1, <2>2, <2>3
  <1>2. hdr' = [b \in D \ {n} |->
                  IF b = cur
                  THEN [size |-> hdr[cur].size + HDR + hdr[n].size,
                        free |-> hdr[cur].free, next |-> hdr[n].next]
                  ELSE hdr[b]]
    BY DEF CoalesceMerge, Absorbed
  <1> HIDE DEF n
  <1>3. /\ DOMAIN hdr' = D \ {n} /\ cur \in D \ {n}
        /\ hdr'[cur].size = hdr[cur].size + HDR + hdr[n].size
        /\ \A b \in (D \ {n}) \ {cur} : hdr'[b].size = hdr[b].size
    BY <1>1, <1>2
  <1>4. /\ IsFiniteSet(D) /\ IsFiniteSet(D \ {n}) /\ IsFiniteSet((D \ {n}) \ {cur})
        /\ \A a \in D : hdr[a].size \in Nat
        /\ \A a \in D \ {n} : h2[a].size \in Nat
    <2>1. IsFiniteSet(D) /\ \A a \in D : hdr[a].size \in Nat
      BY HeadersFinite DEF IInv
    <2>2. \A a \in DOMAIN hdr' : hdr'[a].size \in Nat
      BY DEF IInv, TypeOK, Header
    <2>3. IsFiniteSet(D \ {n})
      BY <2>1, FS_RemoveElement
    <2>4. IsFiniteSet((D \ {n}) \ {cur})
      BY <2>3, FS_RemoveElement
    <2> QED
      BY <1>3, <2>1, <2>2, <2>3, <2>4
  <1> HIDE DEF D, h2
  <1>5. Weight(hdr, D) = hdr[n].size + HDR + Weight(hdr, D \ {n})
    BY <1>1, <1>4, WeightRemove
  <1>6. /\ Weight(hdr, D \ {n}) = hdr[cur].size + HDR + Weight(hdr, (D \ {n}) \ {cur})
        /\ Weight(hdr, (D \ {n}) \ {cur}) \in Nat
    BY <1>3, <1>4, WeightRemove
  <1>7. Weight(h2, D \ {n}) = h2[cur].size + HDR + Weight(h2, (D \ {n}) \ {cur})
    BY <1>3, <1>4, WeightRemove
  <1>8. Weight(hdr, (D \ {n}) \ {cur}) = Weight(h2, (D \ {n}) \ {cur})
    <2>1. \A a \in (D \ {n}) \ {cur} : hdr[a].size \in Nat /\ h2[a].size = hdr[a].size
      BY <1>3, <1>4 DEF h2
    <2> QED
      BY <1>4, <2>1, WeightSame
  <1>9. Weight(h2, D \ {n}) = Weight(hdr, D)
    <2>1. h2[cur].size = hdr[cur].size + HDR + hdr[n].size
      BY <1>3 DEF h2
    <2>2. hdr[cur].size \in Nat /\ hdr[n].size \in Nat
      BY <1>1, <1>4
    <2> QED
      BY <1>5, <1>6, <1>7, <1>8, <2>1, <2>2, HeapConstants
  <1> QED
    BY <1>1, <1>3, <1>9 DEF Full, D, h2

LEMMA SameFull ==
  ASSUME IInv, Full, heap_start' = heap_start, DOMAIN hdr' = DOMAIN hdr,
         \A a \in DOMAIN hdr : hdr'[a].size = hdr[a].size
  PROVE  Full'
  <1> DEFINE D == DOMAIN hdr
             h2 == hdr'
  <1>1. IsFiniteSet(D) /\ \A a \in D : hdr[a].size \in Nat /\ h2[a].size = hdr[a].size
    BY HeadersFinite DEF IInv
  <1> HIDE DEF D, h2
  <1>2. Weight(hdr, D) = Weight(h2, D)
    BY <1>1, WeightSame
  <1> QED
    BY <1>2 DEF Full, D, h2

LEMMA InitFull ==
  ASSUME heap_init
  PROVE  Full'
  <1> DEFINE h2 == hdr'
             S == {heap_base_addr}
  <1>1. /\ DOMAIN h2 = S /\ h2[heap_base_addr].size = HEAP_SIZE - HDR
    BY DEF heap_init
  <1> HIDE DEF h2
  <1>2. IsFiniteSet(S) /\ \A a \in S : h2[a].size \in Nat
    <2>1. IsFiniteSet(S)
      BY FS_Singleton
    <2>2. HEAP_SIZE - HDR \in Nat
      BY HeapConstants
    <2> QED
      BY <1>1, <2>1, <2>2
  <1>3. Weight(h2, S) = h2[heap_base_addr].size + HDR + Weight(h2, S \ {heap_base_addr})
    BY <1>2, WeightRemove
  <1>4. S \ {heap_base_addr} = {}
    OBVIOUS
  <1>5. Weight(h2, {}) = 0
    <2>1. IsFiniteSet({}) /\ Cardinality({}) = 0
      BY FS_EmptySet
    <2>2. Bytes(h2, {}) = 0
      BY <2>1, BytesPick
    <2> QED
      BY <2>1, <2>2, HeapConstants DEF Weight
  <1>6. Weight(h2, S) = HEAP_SIZE
    <2>1. Weight(h2, S) = h2[heap_base_addr].size + HDR + Weight(h2, {})
      BY <1>3, <1>4
    <2> HIDE DEF S
    <2> QED
      BY <1>1, <1>5, <2>1, HeapConstants
  <1> QED
    BY <1>1, <1>6 DEF Full, h2

LEMMA NextFull ==
  ASSUME IInv, Full, [Next]_vars
  PROVE  Full'
  <1>1. CASE heap_init
    BY <1>1, InitFull
  <1>2. CASE KmallocTake
    <2>1. CASE WorthSplitting(cur)
      BY <1>2, <2>1, SplitFull, KmallocTakeInv
    <2>2. CASE ~WorthSplitting(cur)
      <3>1. /\ hdr' = [hdr EXCEPT ![cur].free = FALSE] /\ hdr \in [DOMAIN hdr -> Header]
            /\ heap_start' = heap_start
        BY <1>2, <2>2 DEF KmallocTake, Taken, IInv, TypeOK
      <3> QED
        BY <3>1, SameFull DEF Header
    <2> QED
      BY <2>1, <2>2
  <1>3. ASSUME NEW p \in DOMAIN live, KfreeCall(p)
        PROVE  Full'
    <2>1. /\ hdr' = [hdr EXCEPT ![p - HDR].free = TRUE]
          /\ hdr \in [DOMAIN hdr -> Header] /\ heap_start' = heap_start
      BY <1>3 DEF KfreeCall, IInv, TypeOK
    <2> QED
      BY <2>1, SameFull DEF Header
  <1>4. CASE CoalesceMerge
    BY <1>4, MergeFull, CoalesceMergeInv
  <1>5. CASE UNCHANGED <<hdr, heap_start>>
    BY <1>5, SameFull
  <1> QED
    BY <1>1, <1>2, <1>3, <1>4, <1>5
    DEF Next, vars, KmallocCall, KmallocAdvance, KmallocFail, CoalesceAdvance, CoalesceDone

\* meminfo never loses a byte: the blocks in use, the free ones and a header for
\* each always add up to the size of the heap.
THEOREM EveryByteAccounted == Spec => []BytesAccounted
  <1>1. Init => Full
    BY DEF Init, Full
  <1>2. IInv /\ Full => BytesAccounted
    <2> SUFFICES ASSUME IInv, Full, heap_start # NULL
                 PROVE  /\ heap_get_stats.used + heap_get_stats.free_bytes
                             = heap_get_stats.total
                        /\ heap_get_stats.total + HDR * Cardinality(DOMAIN hdr)
                             = HEAP_SIZE
      BY DEF BytesAccounted
    <2> DEFINE D == DOMAIN hdr
               U == {a \in D : ~hdr[a].free}
               V == {a \in D : hdr[a].free}
    <2>1. /\ heap_get_stats.total = Bytes(hdr, D) /\ heap_get_stats.used = Bytes(hdr, U)
          /\ heap_get_stats.free_bytes = Bytes(hdr, V)
      BY DEF heap_get_stats, Figures
    <2>2. IsFiniteSet(D) /\ \A a \in D : hdr[a].size \in Nat
      BY HeadersFinite DEF IInv
    <2>3. U \cup V = D /\ U \cap V = {} /\ U \in SUBSET D /\ V \in SUBSET D
      OBVIOUS
    <2> HIDE DEF D, U, V
    <2>4. IsFiniteSet(U) /\ IsFiniteSet(V)
      BY <2>2, <2>3, FS_Subset
    <2>5. Bytes(hdr, U \cup V) = Bytes(hdr, U) + Bytes(hdr, V)
      BY <2>2, <2>3, <2>4, BytesUnion
    <2> QED
      BY <2>1, <2>3, <2>5 DEF Full, Weight, D
  <1> QED
    BY <1>1, <1>2, NextFull, Inductive, PTL DEF Spec

-----------------------------------------------------------------------------
(* The walks end                                                            *)

\* What a step to the next block, or over it, leaves ahead.
LEMMA AheadShrinks ==
  ASSUME IInv, cur \in DOMAIN hdr, cur # NULL, Ahead' \subseteq Ahead \ {cur}
  PROVE  Ahead' \subseteq Ahead /\ Ahead' # Ahead
  <1>1. cur \in Ahead
    <2>1. cur \in Nat
      BY BlockRange DEF IInv
    <2> QED
      BY <2>1 DEF Ahead
  <1> QED
    BY <1>1

LEMMA AdvanceShrinks ==
  ASSUME IInv, cur \in DOMAIN hdr, cur # NULL, cur' = hdr[cur].next, hdr' = hdr
  PROVE  Ahead' \subseteq Ahead /\ Ahead' # Ahead
  <1>1. cur \in Nat /\ hdr[cur].next \in Nat /\ (cur' # NULL => cur < cur')
    <2>1. cur \in Nat /\ End(cur) \in Nat /\ cur < End(cur) /\ hdr[cur].next \in Nat
      BY BlockRange DEF IInv
    <2>2. cur' = NULL \/ cur' = End(cur)
      BY DEF IInv, Tiles
    <2> QED
      BY <2>1, <2>2
  <1>2. ASSUME NEW a \in Ahead' PROVE a \in Ahead \ {cur}
    <2>1. a \in DOMAIN hdr /\ cur' # NULL /\ a >= cur'
      BY <1>2 DEF Ahead
    <2>2. a \in Nat
      BY <2>1, BlockRange DEF IInv
    <2> QED
      BY <1>1, <2>1, <2>2 DEF Ahead
  <1> QED
    BY <1>2, AheadShrinks

\* kmalloc's walk and coalesce's come to an end: with finitely many blocks on
\* the list, fewer of them are ahead after every step.
THEOREM WalksEnd == Spec => WalksShrink
  <1>1. ASSUME IInv, Next, pc # "idle", pc' = pc
        PROVE  Ahead' \subseteq Ahead /\ Ahead' # Ahead
    <2>1. CASE KmallocAdvance
      BY <1>1, <2>1, AdvanceShrinks DEF KmallocAdvance, IInv, TypeOK
    <2>2. CASE CoalesceAdvance
      BY <1>1, <2>2, AdvanceShrinks DEF CoalesceAdvance, IInv, TypeOK
    <2>3. CASE CoalesceMerge
      <3> DEFINE n == hdr[cur].next
      <3>1. cur \in DOMAIN hdr /\ cur # NULL /\ cur' = cur /\ n # NULL
        BY <1>1, <2>3 DEF CoalesceMerge, IInv, TypeOK
      <3>2. n \in DOMAIN hdr /\ n = End(cur)
        BY <1>1, <3>1 DEF IInv, Tiles
      <3>3. cur \in Nat /\ End(cur) \in Nat /\ cur < End(cur)
        BY <1>1, <3>1, BlockRange DEF IInv
      <3>4. DOMAIN hdr' = DOMAIN hdr \ {n}
        BY <2>3 DEF CoalesceMerge, Absorbed
      <3>5. n \in Ahead /\ n \notin Ahead' /\ Ahead' \subseteq Ahead
        BY <3>1, <3>2, <3>3, <3>4 DEF Ahead
      <3> QED
        BY <3>5
    <2> QED
      BY <1>1, <2>1, <2>2, <2>3
      DEF Next, heap_init, KmallocCall, KmallocTake, KmallocFail, KfreeCall, CoalesceDone
  <1>2. IInv /\ [Next]_vars =>
          [(pc # "idle" /\ pc' = pc) => Ahead' \subseteq Ahead /\ Ahead' # Ahead]_vars
    BY <1>1
  <1> QED
    BY <1>2, Inductive, PTL DEF Spec, WalksShrink

\* The number of blocks ahead, which WalksEnd makes smaller, is finite.
THEOREM AheadFinite == Spec => []IsFiniteSet(Ahead)
  <1>1. IInv => IsFiniteSet(Ahead)
    <2> SUFFICES ASSUME IInv PROVE IsFiniteSet(Ahead)
      OBVIOUS
    <2>1. Ahead \in SUBSET DOMAIN hdr
      BY DEF Ahead
    <2> QED
      BY <2>1, HeadersFinite, FS_Subset DEF IInv
  <1> QED
    BY <1>1, Inductive, PTL

=============================================================================
