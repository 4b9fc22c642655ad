--------------------------- MODULE AlloctestProofs ---------------------------
(***************************************************************************)
(* Proofs about the command alloctest, for every heap and every use of it: *)
(* between calls the list of blocks is a function of the blocks in use,    *)
(* and therefore the command leaves the heap with the figures it found.    *)
(***************************************************************************)
EXTENDS Alloctest, HeapProofs

-----------------------------------------------------------------------------
(* Predecessors                                                             *)

LEMMA SameLinks ==
  ASSUME Linked, DOMAIN hdr' = DOMAIN hdr,
         \A a \in DOMAIN hdr : hdr'[a].next = hdr[a].next
  PROVE  Linked'
  BY DEF Linked

\* The rest of a block that is cut is reached through what is taken of it, and
\* what followed the block through the rest.
LEMMA TakeLinks ==
  ASSUME IInv, Linked, KmallocTake
  PROVE  Linked'
  <1>1. cur \in DOMAIN hdr
    BY DEF IInv, TypeOK, KmallocTake
  <1>2. CASE ~WorthSplitting(cur)
    <2>1. hdr' = [hdr EXCEPT ![cur].free = FALSE] /\ hdr \in [DOMAIN hdr -> Header]
      BY <1>2 DEF KmallocTake, Taken, IInv, TypeOK
    <2> QED
      BY <1>1, <2>1, SameLinks DEF Header
  <1>3. CASE WorthSplitting(cur)
    <2> DEFINE rest == cur + HDR + size
    <2>1. hdr' = [b \in DOMAIN hdr \cup {rest} |->
                    IF b = rest
                    THEN [size |-> hdr[cur].size - size - HDR, free |-> TRUE,
                          next |-> hdr[cur].next]
                    ELSE IF b = cur
                    THEN [size |-> size, free |-> FALSE, next |-> rest]
                    ELSE hdr[b]]
      BY <1>3 DEF KmallocTake, Taken
    <2>2. rest # cur
      BY <1>1, HeapConstants, BlockRange DEF IInv, TypeOK
    <2> HIDE DEF rest
    <2>3. /\ DOMAIN hdr' = DOMAIN hdr \cup {rest}
          /\ hdr'[rest].next = hdr[cur].next /\ hdr'[cur].next = rest
          /\ \A b \in DOMAIN hdr : b # cur /\ b # rest => hdr'[b] = hdr[b]
      BY <1>1, <2>1, <2>2
    <2>4. ASSUME NEW a \in DOMAIN hdr', a # heap_base_addr
          PROVE  \E p \in DOMAIN hdr' : hdr'[p].next = a
      <3>1. CASE a = rest
        BY <1>1, <2>3, <3>1
      <3>2. CASE a \in DOMAIN hdr /\ a # rest
        <4>1. PICK p \in DOMAIN hdr : hdr[p].next = a
          BY <2>4, <3>2 DEF Linked
        <4>2. CASE p = cur
          BY <2>3, <4>1, <4>2
        <4>3. CASE p # cur /\ p # rest
          BY <2>3, <4>1, <4>3
        <4>4. p # rest
          BY <1>1, <1>3, RestIsNew DEF rest
        <4> QED
          BY <4>2, <4>3, <4>4
      <3> QED
        BY <2>3, <3>1, <3>2
    <2> QED
      BY <2>4 DEF Linked
  <1> QED
    BY <1>2, <1>3

\* What followed the absorbed block is reached through the one that absorbs it.
LEMMA MergeLinks ==
  ASSUME IInv, Linked, CoalesceMerge
  PROVE  Linked'
  <1> DEFINE n == hdr[cur].next
  <1>1. cur \in DOMAIN hdr /\ n # cur
    <2>1. cur \in DOMAIN hdr
      BY DEF IInv, TypeOK, CoalesceMerge
    <2>2. hdr[cur].next = End(cur) /\ cur < End(cur) /\ cur \in Nat /\ End(cur) \in Nat
      BY <2>1, BlockRange DEF IInv, Tiles, CoalesceMerge
    <2> QED
      BY <2>1, <2>2
  <1>2. hdr' = [b \in DOMAIN hdr \ {n} |->
                  IF b = cur
                  THEN [size |-> hdr[cur].size + HDR + hdr[n].size,
                        free |-> hdr[cur].free, next |-> hdr[n].next]
                  ELSE hdr[b]]
    BY DEF CoalesceMerge, Absorbed
  <1>3. /\ DOMAIN hdr' = DOMAIN hdr \ {n}
        /\ hdr'[cur].next = hdr[n].next
        /\ \A b \in DOMAIN hdr' : b # cur => hdr'[b] = hdr[b]
    BY <1>1, <1>2
  <1>4. ASSUME NEW a \in DOMAIN hdr', a # heap_base_addr
        PROVE  \E p \in DOMAIN hdr' : hdr'[p].next = a
    <2>1. PICK p \in DOMAIN hdr : hdr[p].next = a
      BY <1>3, <1>4 DEF Linked
    <2>2. CASE p = n
      BY <1>1, <1>3, <2>1, <2>2
    <2>3. CASE p # n
      <3>1. p # cur
        BY <1>3, <1>4, <2>1
      <3> QED
        BY <1>3, <2>1, <2>3, <3>1
    <2> QED
      BY <2>2, <2>3
  <1> QED
    BY <1>4 DEF Linked

LEMMA NextLinked ==
  ASSUME IInv, Linked, [Next]_vars
  PROVE  Linked'
  <1>1. CASE heap_init
    BY <1>1 DEF heap_init, Linked
  <1>2. CASE KmallocTake
    BY <1>2, TakeLinks
  <1>3. ASSUME NEW p \in DOMAIN live, KfreeCall(p)
        PROVE  Linked'
    <2>1. /\ hdr' = [hdr EXCEPT ![p - HDR].free = TRUE]
          /\ hdr \in [DOMAIN hdr -> Header] /\ p - HDR \in DOMAIN hdr
      BY <1>3 DEF KfreeCall, IInv, TypeOK, HeldBlocks
    <2> QED
      BY <2>1, SameLinks DEF Header
  <1>4. CASE CoalesceMerge
    BY <1>4, MergeLinks
  <1>5. CASE UNCHANGED hdr
    BY <1>5, SameLinks
  <1> QED
    BY <1>1, <1>2, <1>3, <1>4, <1>5
    DEF Next, vars, KmallocCall, KmallocAdvance, KmallocFail, CoalesceAdvance, CoalesceDone

-----------------------------------------------------------------------------
(* The list as a function of the blocks in use                              *)

\* Every link says where the block ends, which is a header unless it is the end
\* of the heap.
LEMMA LinkOfEnd ==
  ASSUME TypeOK, Tiles, NEW a \in DOMAIN hdr
  PROVE  /\ hdr[a].next = Link(End(a))
         /\ End(a) = Limit \/ End(a) \in DOMAIN hdr
         /\ a # Limit
  <1> USE BaseRange
  <1>1. \A b \in DOMAIN hdr : b # Limit
    <2> SUFFICES ASSUME NEW b \in DOMAIN hdr PROVE b # Limit
      OBVIOUS
    <2>1. b \in Nat /\ End(b) \in Nat /\ b < End(b) /\ End(b) <= Limit
      BY BlockRange
    <2> QED
      BY <2>1
  <1>2. CASE hdr[a].next = NULL /\ End(a) = Limit
    BY <1>1, <1>2 DEF Link
  <1>3. CASE hdr[a].next \in DOMAIN hdr /\ hdr[a].next = End(a)
    BY <1>1, <1>3 DEF Link
  <1> QED
    BY <1>2, <1>3 DEF Tiles

\* Nothing in use starts inside a free block, and between calls something in
\* use, or the end of the heap, follows it.
LEMMA StopIsEnd ==
  ASSUME IInv, pc # "coalesce", NEW x \in DOMAIN hdr, hdr[x].free
  PROVE  Stop(SizesOf(InUse), x) = End(x)
  <1> DEFINE Stops == InUse \cup {Limit}
             Nearest(y) == y > x /\ \A z \in InUse : z > x => y <= z
  <1> USE BaseRange
  <1>1. DOMAIN SizesOf(InUse) = InUse
    BY DEF SizesOf
  <1>2. /\ x \in Nat /\ End(x) \in Nat /\ x < End(x) /\ End(x) <= Limit
        /\ \A z \in InUse : z \in Nat /\ z < Limit
    <2>1. x \in Nat /\ End(x) \in Nat /\ x < End(x) /\ End(x) <= Limit
      BY BlockRange DEF IInv
    <2>2. ASSUME NEW z \in InUse PROVE z \in Nat /\ z < Limit
      <3>1. /\ z \in Nat /\ End(z) \in Nat /\ z < End(z) /\ End(z) <= Limit
        BY BlockRange DEF IInv, InUse
      <3> QED
        BY <3>1
    <2> QED
      BY <2>1, <2>2
  <1>3. End(x) \in Stops
    <2>1. CASE End(x) = Limit
      BY <2>1
    <2>2. CASE End(x) # Limit
      <3>1. hdr[x].next = End(x) /\ End(x) \in DOMAIN hdr
        BY <2>2, LinkOfEnd DEF IInv, Link
      <3>2. hdr[x].next # NULL
        BY <1>2, <3>1 DEF NULL
      <3> QED
        BY <3>1, <3>2 DEF IInv, Coalesced, InUse
    <2> QED
      BY <2>1, <2>2
  <1>4. \A z \in InUse : z > x => End(x) <= z
    BY <1>2 DEF IInv, Tiles, InUse
  <1>5. Nearest(End(x))
    BY <1>2, <1>4
  <1>6. ASSUME NEW y \in Stops, Nearest(y)
        PROVE  y = End(x)
    <2>1. CASE y = Limit
      <3>1. End(x) \in InUse => Limit <= End(x)
        BY <1>2, <1>6, <2>1
      <3> QED
        BY <1>2, <1>3, <2>1, <3>1
    <2>2. CASE y \in InUse
      <3>1. y \in Nat /\ y < Limit /\ End(x) <= y
        BY <1>2, <1>4, <1>6, <2>2
      <3>2. End(x) \in InUse => y <= End(x)
        BY <1>2, <1>6
      <3> QED
        BY <1>2, <1>3, <3>1, <3>2
    <2> QED
      BY <2>1, <2>2
  <1>7. Stop(SizesOf(InUse), x) = CHOOSE y \in Stops : Nearest(y)
    BY <1>1 DEF Stop
  <1> HIDE DEF Stops, Nearest
  <1> QED
    BY <1>3, <1>5, <1>6, <1>7

\* A free block is a gap: between calls what precedes it is in use.
LEMMA HeadersAreGaps ==
  ASSUME IInv, Linked, heap_start # NULL, pc # "coalesce"
  PROVE  DOMAIN hdr = InUse \cup Gaps(SizesOf(InUse))
  <1> USE BaseRange
  <1>1. /\ DOMAIN SizesOf(InUse) = InUse
        /\ \A a \in InUse : a + HDR + SizesOf(InUse)[a] = End(a)
    BY DEF SizesOf, End
  <1>2. Gaps(SizesOf(InUse)) =
          ({heap_base_addr} \cup {End(a) : a \in InUse}) \ (InUse \cup {Limit})
    BY <1>1 DEF Gaps
  <1>3. ASSUME NEW x \in DOMAIN hdr, hdr[x].free
        PROVE  x \in {heap_base_addr} \cup {End(a) : a \in InUse}
    <2>1. CASE x = heap_base_addr
      BY <2>1
    <2>2. CASE x # heap_base_addr
      <3>1. PICK p \in DOMAIN hdr : hdr[p].next = x
        BY <2>2 DEF Linked
      <3>2. x # NULL
        BY DEF IInv, TypeOK, NULL
      <3>3. p \in InUse
        BY <1>3, <3>1, <3>2 DEF IInv, Coalesced, InUse
      <3>4. x = End(p)
        BY <3>1, <3>2, LinkOfEnd DEF IInv, Link
      <3> QED
        BY <3>3, <3>4
    <2> QED
      BY <2>1, <2>2
  <1>4. heap_base_addr \in DOMAIN hdr
    BY DEF IInv, TypeOK, Tiles
  <1>5. \A a \in InUse : End(a) = Limit \/ End(a) \in DOMAIN hdr
    BY LinkOfEnd DEF IInv, InUse
  <1>6. Limit \notin DOMAIN hdr
    BY LinkOfEnd DEF IInv
  <1> QED
    BY <1>2, <1>3, <1>4, <1>5, <1>6 DEF InUse

LEMMA Determined ==
  IInv /\ Linked => ListDetermined
  <1> SUFFICES ASSUME IInv, Linked, heap_start # NULL, pc # "coalesce"
               PROVE  hdr = Layout(SizesOf(InUse))
    BY DEF ListDetermined
  <1> DEFINE u == SizesOf(InUse)
             Want(x) == IF x \in InUse
                        THEN [size |-> u[x], free |-> FALSE,
                              next |-> Link(x + HDR + u[x])]
                        ELSE [size |-> Stop(u, x) - x - HDR, free |-> TRUE,
                              next |-> Link(Stop(u, x))]
  <1>1. Layout(u) = [x \in DOMAIN hdr |-> Want(x)]
    <2>1. DOMAIN u = InUse
      BY DEF SizesOf
    <2> QED
      BY <2>1, HeadersAreGaps DEF Layout
  <1>2. ASSUME NEW x \in DOMAIN hdr
        PROVE  hdr[x] = Want(x)
    <2>1. hdr[x] = [size |-> hdr[x].size, free |-> hdr[x].free, next |-> hdr[x].next]
      BY DEF IInv, TypeOK, Header
    <2>2. hdr[x].next = Link(End(x))
      BY LinkOfEnd DEF IInv
    <2>3. x \in Nat /\ hdr[x].size \in Nat /\ hdr[x].free \in BOOLEAN
      BY BlockRange DEF IInv
    <2>4. CASE x \in InUse
      <3>1. u[x] = hdr[x].size /\ x + HDR + u[x] = End(x) /\ hdr[x].free = FALSE
        BY <2>3, <2>4 DEF SizesOf, End, InUse
      <3> QED
        BY <2>1, <2>2, <2>4, <3>1
    <2>5. CASE x \notin InUse
      <3>1. hdr[x].free = TRUE
        BY <2>3, <2>5 DEF InUse
      <3>2. Stop(u, x) = End(x)
        BY <3>1, StopIsEnd
      <3>3. End(x) - x - HDR = hdr[x].size
        BY <2>3, HeapConstants DEF End
      <3> QED
        BY <2>1, <2>2, <2>5, <3>1, <3>2, <3>3
    <2> QED
      BY <2>4, <2>5
  <1>3. hdr = [x \in DOMAIN hdr |-> hdr[x]]
    BY DEF IInv, TypeOK
  <1> HIDE DEF u, Want
  <1>4. hdr = [x \in DOMAIN hdr |-> Want(x)]
    BY <1>2, <1>3
  <1> QED
    BY <1>1, <1>4 DEF u

THEOREM LinkedAlways == Spec => [](IInv /\ Linked)
  <1>1. Init => Linked
    BY DEF Init, Linked
  <1> QED
    BY <1>1, NextLinked, Inductive, PTL DEF Spec

\* Outside kfree the list of blocks, free ones included, is a function of the
\* blocks in use: the same whatever calls, in whatever order, led to them.
THEOREM OneListPerUse == Spec => []ListDetermined
  BY LinkedAlways, Determined, PTL

-----------------------------------------------------------------------------
(* The command                                                              *)

\* While the command is not running there is nothing to keep.
LEMMA NotRunning ==
  ASSUME step' = 0, ptrs' = <<>>
  PROVE  CommandInv'
  <1>1. Pending' = {}
    BY DEF Pending
  <1>2. Mine' = {}
    BY <1>1 DEF Mine
  <1>3. Freed' <= 3 /\ ~(Freed' >= 1)
    BY DEF Freed
  <1> QED
    BY <1>1, <1>2, <1>3 DEF CommandInv

\* The first figures stay those of the other blocks as long as these stay.
LEMMA OthersStay ==
  ASSUME before = Figures(Layout(SizesOf(NotMine))), before' = before,
         NotMine' = NotMine, \A a \in NotMine : hdr'[a].size = hdr[a].size
  PROVE  (before = Figures(Layout(SizesOf(NotMine))))'
  <1>1. SizesOf(NotMine)' = SizesOf(NotMine)
    BY DEF SizesOf
  <1> QED
    BY <1>1

\* kmalloc puts the block it takes, and no other, in use.
LEMMA TakeInUse ==
  ASSUME IInv, KmallocTake
  PROVE  /\ InUse' = InUse \cup {cur} /\ cur \notin InUse
         /\ \A a \in InUse : hdr'[a] = hdr[a]
  <1>1. /\ cur \in DOMAIN hdr /\ hdr[cur].free /\ hdr \in [DOMAIN hdr -> Header]
        /\ hdr' = Taken(cur)
    BY DEF IInv, TypeOK, KmallocTake, Fits
  <1>2. CASE ~WorthSplitting(cur)
    <2>1. hdr' = [hdr EXCEPT ![cur].free = FALSE]
      BY <1>1, <1>2 DEF Taken
    <2> QED
      BY <1>1, <2>1 DEF InUse, Header
  <1>3. CASE WorthSplitting(cur)
    <2> DEFINE rest == cur + HDR + size
    <2>1. rest \notin DOMAIN hdr
      BY <1>1, <1>3, RestIsNew
    <2>2. hdr' = [b \in DOMAIN hdr \cup {rest} |->
                    IF b = rest
                    THEN [size |-> hdr[cur].size - size - HDR, free |-> TRUE,
                          next |-> hdr[cur].next]
                    ELSE IF b = cur
                    THEN [size |-> size, free |-> FALSE, next |-> rest]
                    ELSE hdr[b]]
      BY <1>1, <1>3 DEF Taken
    <2> HIDE DEF rest
    <2>3. /\ DOMAIN hdr' = DOMAIN hdr \cup {rest}
          /\ hdr'[rest].free /\ ~hdr'[cur].free
          /\ \A b \in DOMAIN hdr : b # cur => hdr'[b] = hdr[b]
      BY <1>1, <2>1, <2>2
    <2> QED
      BY <1>1, <2>1, <2>3 DEF InUse
  <1> QED
    BY <1>2, <1>3

\* A step that hands out and takes back nothing.
LEMMA CommandHeld ==
  ASSUME CommandInv, step' = step, ptrs' = ptrs, Freed' = Freed,
         step > 0 => (live' = live /\ heap_start' = heap_start /\ before' = before),
         \/ pc' = pc /\ want' = want
         \/ step \in 1 .. 3 /\ pc' = "scan" /\ want' = AllocSizes[step],
         InUse' = InUse, \A a \in InUse : hdr'[a].size = hdr[a].size
  PROVE  CommandInv'
  <1>1. CASE step = 0
    <2>1. ptrs = <<>>
      BY <1>1 DEF CommandInv
    <2> QED
      BY <1>1, <2>1, NotRunning
  <1>2. CASE step > 0
    <2>1. Pending' = Pending
      BY DEF Pending
    <2>2. Mine' = Mine
      BY <2>1 DEF Mine
    <2>3. NotMine' = NotMine
      BY <2>2 DEF NotMine
    <2>4. \A a \in NotMine : hdr'[a].size = hdr[a].size
      BY DEF NotMine
    <2>5. (before = Figures(Layout(SizesOf(NotMine))))'
      BY <1>2, <2>3, <2>4, OthersStay DEF CommandInv
    <2>6. Failure' <=> Failure
      BY DEF Failure
    <2> QED
      BY <1>2, <2>1, <2>2, <2>5, <2>6 DEF CommandInv
  <1> QED
    BY <1>1, <1>2 DEF CommandInv

\* What kmalloc takes is one more block of the command's and of the heap's.
LEMMA CommandTakes ==
  ASSUME IInv, CommandInv, KmallocTake, Returned(cur + HDR)
  PROVE  CommandInv'
  <1> DEFINE p == cur + HDR
  <1> USE BaseRange, HeapConstants
  <1>1. /\ cur \in DOMAIN hdr /\ hdr[cur].free /\ cur \in Nat
        /\ pc = "scan" /\ pc' = "idle" /\ heap_start' = heap_start
    BY BlockRange DEF IInv, TypeOK, KmallocTake, Fits
  <1>2. CASE step = 0
    BY <1>2, NotRunning DEF Returned, CommandInv
  <1>3. CASE step # 0
    <2>1. /\ step \in 1 .. 3 /\ step' = step + 1 /\ ptrs' = Append(ptrs, p)
          /\ before' = before
      BY <1>1, <1>3 DEF Returned, CommandInv
    <2>2. p \in Nat /\ p # NULL /\ p \notin DOMAIN live
      BY <1>1, TakeAvailable DEF NULL
    <2>3. Pending' = Pending \cup {step}
      <3>1. Len(ptrs) = step - 1 /\ ptrs \in Seq(Nat)
        BY <2>1 DEF CommandInv
      <3>2. /\ DOMAIN ptrs = 1 .. (step - 1) /\ DOMAIN ptrs' = 1 .. step
            /\ ptrs'[step] = p /\ \A i \in DOMAIN ptrs : ptrs'[i] = ptrs[i]
        BY <2>1, <2>2, <3>1
      <3>3. Freed = step - 4 /\ Freed' = step - 3
        BY <1>1, <2>1 DEF Freed
      <3> QED
        BY <2>1, <2>2, <3>2, <3>3 DEF Pending
    <2>4. \A i \in Pending : i \in DOMAIN ptrs /\ i # step /\ ptrs'[i] = ptrs[i]
      <3>1. Len(ptrs) = step - 1 /\ ptrs \in Seq(Nat)
        BY <2>1 DEF CommandInv
      <3> QED
        BY <2>1, <2>2, <3>1 DEF Pending
    <2>5. ptrs'[step] = p /\ Len(ptrs') = step /\ ptrs' \in Seq(Nat)
      BY <2>1, <2>2 DEF CommandInv
    <2>6. Mine' = Mine \cup {p}
      BY <2>3, <2>4, <2>5 DEF Mine
    <2>7. \A i, j \in Pending' : ptrs'[i] = ptrs'[j] => i = j
      <3>1. \A i \in Pending : ptrs'[i] # p
        BY <2>2, <2>4 DEF CommandInv, Mine
      <3> QED
        BY <2>3, <2>4, <2>5, <3>1 DEF CommandInv
    <2>8. /\ Mine' \subseteq DOMAIN live'
          /\ \A i \in Pending' : live'[ptrs'[i]] = AllocSizes[i]
      <3>1. /\ DOMAIN live' = DOMAIN live \cup {p} /\ live'[p] = want
            /\ \A q \in DOMAIN live : live'[q] = live[q]
        BY <2>2 DEF KmallocTake
      <3>2. want = AllocSizes[step]
        BY <1>1, <2>1 DEF CommandInv
      <3>3. ASSUME NEW i \in Pending
            PROVE  ptrs[i] \in DOMAIN live /\ live[ptrs[i]] = AllocSizes[i]
        BY DEF CommandInv, Mine
      <3> QED
        BY <2>3, <2>4, <2>5, <2>6, <3>1, <3>2, <3>3 DEF CommandInv
    <2>9. /\ InUse' = InUse \cup {cur} /\ cur \notin InUse
          /\ \A a \in InUse : hdr'[a] = hdr[a]
      BY <1>1, TakeInUse
    <2>10. NotMine' = NotMine
      <3>1. \A a \in InUse : a \in Nat /\ a # cur /\ (a + HDR \in Mine' <=> a + HDR \in Mine)
        BY <1>1, <2>6, <2>9, BlockRange DEF IInv, InUse
      <3> QED
        BY <2>6, <2>9, <3>1 DEF NotMine
    <2>11. (before = Figures(Layout(SizesOf(NotMine))))'
      BY <2>1, <2>9, <2>10, OthersStay DEF CommandInv, NotMine
    <2>12. Freed' = step - 3 /\ Freed' <= 3 /\ (step' >= 4 /\ Freed' >= 1 => FALSE)
      BY <1>1, <2>1 DEF Freed
    <2>13. /\ step' \in 0 .. 7
           /\ Len(ptrs') = IF step' = 0 THEN 0 ELSE IF step' <= 4 THEN step' - 1 ELSE 3
      BY <2>1, <2>5
    <2>14. pc' # "coalesce" /\ pc' # "scan" /\ heap_start' # NULL
      BY <1>1, <2>1 DEF CommandInv
    <2> QED
      BY <2>5, <2>7, <2>8, <2>11, <2>12, <2>13, <2>14 DEF CommandInv
  <1> QED
    BY <1>2, <1>3

\* Once the three calls are over there are three pointers.
LEMMA ThreePointers ==
  ASSUME CommandInv, step \in 4 .. 7
  PROVE  ptrs \in Seq(Nat) /\ Len(ptrs) = 3 /\ DOMAIN ptrs = 1 .. 3
  <1>1. /\ ptrs \in Seq(Nat)
        /\ Len(ptrs) = IF step = 0 THEN 0 ELSE IF step <= 4 THEN step - 1 ELSE 3
    BY DEF CommandInv
  <1>2. Len(ptrs) = 3
    BY <1>1
  <1> QED
    BY <1>1, <1>2

\* A pointer given to kfree leaves the command's blocks and those in use.
LEMMA CommandFrees ==
  ASSUME IInv, CommandInv, Free
  PROVE  CommandInv'
  <1> DEFINE k == step - 3
             p == ptrs[k]
  <1> USE HeapConstants
  <1>1. /\ step \in 4 .. 6 /\ ~Failure /\ pc = "idle" /\ KfreeCall(p)
        /\ step' = step /\ ptrs' = ptrs /\ before' = before
        /\ pc' = "coalesce" /\ heap_start' = heap_start
    BY DEF Free, FREES, KfreeCall, command
  <1>2. Freed = k - 1 /\ Freed' = k /\ k \in 1 .. 3
    BY <1>1 DEF Freed
  <1>3. DOMAIN ptrs = 1 .. 3
    BY <1>1, ThreePointers
  <1>4. k \in Pending /\ p # NULL
    BY <1>1, <1>2, <1>3 DEF Pending, Failure
  <1>5. Pending' = Pending \ {k}
    BY <1>1, <1>2, <1>3 DEF Pending
  <1>6. Mine' = Mine \ {p}
    <2>1. \A i \in Pending : ptrs[i] = p => i = k
      BY <1>4 DEF CommandInv
    <2> QED
      BY <1>1, <1>4, <1>5, <2>1 DEF Mine
  <1>7. p \in DOMAIN live /\ p \in Nat /\ p - HDR \in DOMAIN hdr /\ p \in Mine
    <2>1. p \in Mine /\ p \in DOMAIN live
      BY <1>4 DEF CommandInv, Mine
    <2> QED
      BY <2>1, HeldRange
  <1>8. /\ Mine' \subseteq DOMAIN live'
        /\ \A i \in Pending' : live'[ptrs'[i]] = AllocSizes[i]
    <2>1. /\ DOMAIN live' = DOMAIN live \ {p}
          /\ \A q \in DOMAIN live' : live'[q] = live[q]
      BY <1>1 DEF KfreeCall
    <2>2. ASSUME NEW i \in Pending'
          PROVE  i \in Pending /\ ptrs'[i] = ptrs[i] /\ ptrs[i] \in Mine'
      BY <1>1, <1>5 DEF Mine
    <2>3. Mine' \subseteq DOMAIN live'
      BY <1>6, <2>1 DEF CommandInv
    <2> QED
      BY <2>1, <2>2, <2>3 DEF CommandInv
  <1>9. \A i, j \in Pending' : ptrs'[i] = ptrs'[j] => i = j
    BY <1>1, <1>5 DEF CommandInv
  <1>10. InUse' = InUse \ {p - HDR} /\ \A a \in InUse : hdr'[a].size = hdr[a].size
    <2>1. /\ hdr' = [hdr EXCEPT ![p - HDR].free = TRUE]
          /\ hdr \in [DOMAIN hdr -> Header]
      BY <1>1 DEF KfreeCall, IInv, TypeOK
    <2> QED
      BY <1>7, <2>1 DEF InUse, Header
  <1> HIDE DEF k, p
  <1>11. NotMine' = NotMine
    <2>1. \A a \in InUse : a \in Nat
      BY BlockRange DEF IInv, InUse
    <2>2. \A a \in InUse : a # p - HDR => (a + HDR \in Mine' <=> a + HDR \in Mine)
      BY <1>6, <1>7, <2>1
    <2>3. p - HDR + HDR \in Mine
      BY <1>7
    <2> QED
      BY <1>10, <2>2, <2>3 DEF NotMine
  <1>12. (before = Figures(Layout(SizesOf(NotMine))))'
    <2>1. \A a \in NotMine : hdr'[a].size = hdr[a].size
      BY <1>10 DEF NotMine
    <2>2. before = Figures(Layout(SizesOf(NotMine)))
      BY <1>1 DEF CommandInv
    <2> QED
      BY <1>1, <1>11, <2>1, <2>2, OthersStay
  <1>13. /\ step' \in 4 .. 6 /\ Freed' <= 3 /\ pc' # "scan" /\ heap_start' # NULL
         /\ ~Failure' /\ ptrs' \in Seq(Nat) /\ Len(ptrs') = 3
    BY <1>1, <1>2, <1>3 DEF CommandInv, Failure
  <1> QED
    BY <1>8, <1>9, <1>12, <1>13 DEF CommandInv

\* A merge leaves the blocks in use alone.
LEMMA MergeInUse ==
  ASSUME IInv, CoalesceMerge
  PROVE  InUse' = InUse /\ \A a \in InUse : hdr'[a].size = hdr[a].size
  <1> DEFINE n == hdr[cur].next
  <1>1. /\ cur \in DOMAIN hdr /\ n \in DOMAIN hdr /\ n # cur
        /\ hdr[cur].free /\ hdr[n].free
    <2>1. cur \in DOMAIN hdr /\ n # NULL /\ hdr[cur].free /\ hdr[n].free
      BY DEF IInv, TypeOK, CoalesceMerge
    <2>2. n \in DOMAIN hdr /\ n = End(cur)
      BY <2>1 DEF IInv, Tiles
    <2>3. cur \in Nat /\ End(cur) \in Nat /\ cur < End(cur)
      BY <2>1, BlockRange DEF IInv
    <2> QED
      BY <2>1, <2>2, <2>3
  <1>2. hdr' = [b \in DOMAIN hdr \ {n} |->
                  IF b = cur
                  THEN [size |-> hdr[cur].size + HDR + hdr[n].size,
                        free |-> hdr[cur].free, next |-> hdr[n].next]
                  ELSE hdr[b]]
    BY DEF CoalesceMerge, Absorbed
  <1> HIDE DEF n
  <1>3. /\ DOMAIN hdr' = DOMAIN hdr \ {n}
        /\ hdr'[cur].free
        /\ \A b \in DOMAIN hdr' : b # cur => hdr'[b] = hdr[b]
    BY <1>1, <1>2
  <1> QED
    BY <1>1, <1>3 DEF InUse

\* A call that returns NULL gives the command no block.
LEMMA CommandGetsNothing ==
  ASSUME IInv, CommandInv, KmallocFail \/ CoalesceDone, Returned(NULL)
  PROVE  CommandInv'
  <1>1. /\ pc' = "idle" /\ live' = live /\ hdr' = hdr /\ heap_start' = heap_start
        /\ before' = before
    BY DEF KmallocFail, CoalesceDone, Returned
  <1>2. CASE step = 0
    BY <1>2, NotRunning DEF Returned, CommandInv
  <1>3. CASE step # 0 /\ KmallocFail
    <2>1. pc = "scan" /\ step \in 1 .. 3
      BY <1>3 DEF CommandInv, KmallocFail
    <2>2. step' = step + 1 /\ ptrs' = Append(ptrs, NULL)
      BY <2>1 DEF Returned
    <2>3. ptrs \in Seq(Nat) /\ Len(ptrs) = step - 1
      BY <2>1 DEF CommandInv
    <2>4. /\ ptrs' \in Seq(Nat) /\ Len(ptrs') = step /\ DOMAIN ptrs' = 1 .. step
          /\ DOMAIN ptrs = 1 .. (step - 1) /\ ptrs'[step] = NULL
          /\ \A i \in DOMAIN ptrs : ptrs'[i] = ptrs[i]
      BY <2>1, <2>2, <2>3 DEF NULL
    <2>5. Freed = step - 4 /\ Freed' = step - 3
      BY <1>1, <2>1, <2>2 DEF Freed
    <2>6. Pending' = Pending /\ \A i \in Pending : ptrs'[i] = ptrs[i]
      BY <2>1, <2>4, <2>5 DEF Pending
    <2>7. Mine' = Mine
      BY <2>6 DEF Mine
    <2>8. NotMine' = NotMine
      BY <1>1, <2>7 DEF NotMine, InUse
    <2>9. (before = Figures(Layout(SizesOf(NotMine))))'
      BY <1>1, <2>1, <2>8, OthersStay DEF CommandInv
    <2>10. /\ step' \in 2 .. 4 /\ ~(Freed' >= 1) /\ Freed' <= 3
           /\ Len(ptrs') = IF step' = 0 THEN 0 ELSE IF step' <= 4 THEN step' - 1 ELSE 3
      BY <2>1, <2>2, <2>4, <2>5
    <2>11. heap_start' # NULL /\ pc' # "coalesce" /\ pc' # "scan"
      BY <1>1, <2>1 DEF CommandInv
    <2>12. /\ Mine' \subseteq DOMAIN live'
           /\ \A i \in Pending' : live'[ptrs'[i]] = AllocSizes[i]
           /\ \A i, j \in Pending' : ptrs'[i] = ptrs'[j] => i = j
      BY <1>1, <2>6, <2>7 DEF CommandInv
    <2> QED
      BY <2>4, <2>9, <2>10, <2>11, <2>12 DEF CommandInv
  <1>4. CASE step # 0 /\ CoalesceDone
    <2>1. pc = "coalesce" /\ step \in 4 .. 6 /\ Freed = step - 3
      BY <1>4 DEF CommandInv, CoalesceDone, Freed
    <2>2. step' = step + 1 /\ ptrs' = ptrs /\ Freed' = Freed
      BY <1>1, <2>1 DEF Returned, Freed
    <2>3. Pending' = Pending
      BY <2>2 DEF Pending
    <2>4. Mine' = Mine
      BY <2>2, <2>3 DEF Mine
    <2>5. NotMine' = NotMine
      BY <1>1, <2>4 DEF NotMine, InUse
    <2>6. (before = Figures(Layout(SizesOf(NotMine))))'
      BY <1>1, <2>1, <2>5, OthersStay DEF CommandInv
    <2>7. /\ step' \in 5 .. 7 /\ Freed' \in 1 .. 3 /\ ptrs' \in Seq(Nat)
          /\ Len(ptrs') = 3
      BY <2>1, <2>2, ThreePointers
    <2>8. ~Failure' /\ heap_start' # NULL /\ pc' # "coalesce" /\ pc' # "scan"
      BY <1>1, <2>1, <2>2 DEF CommandInv, Failure
    <2>9. /\ Mine' \subseteq DOMAIN live'
          /\ \A i \in Pending' : live'[ptrs'[i]] = AllocSizes[i]
          /\ \A i, j \in Pending' : ptrs'[i] = ptrs'[j] => i = j
      BY <1>1, <2>2, <2>3, <2>4 DEF CommandInv
    <2> QED
      BY <2>6, <2>7, <2>8, <2>9 DEF CommandInv
  <1> QED
    BY <1>2, <1>3, <1>4

-----------------------------------------------------------------------------
(* Every step of the command is a step of the heap                          *)

LEMMA CommandSteps ==
  ASSUME IInv, CommandInv, [AlloctestNext]_allvars
  PROVE  [Next]_vars
  <1>1. CASE Others
    BY <1>1 DEF Others, Next
  <1>2. CASE Allocate
    <2>1. AllocSizes[step] \in Sizes
      BY <1>2, AlloctestConstants DEF Allocate
    <2> QED
      BY <1>2, <2>1 DEF Allocate, Next
  <1>3. CASE Free
    <2>1. ptrs[step - 3] \in Mine
      <3>1. step \in 4 .. 6 /\ ~Failure /\ pc = "idle"
        BY <1>3 DEF Free, FREES, KfreeCall
      <3>2. Freed = step - 4
        BY <3>1 DEF Freed
      <3>3. step - 3 \in DOMAIN ptrs
        BY <3>1, ThreePointers
      <3> QED
        BY <3>1, <3>2, <3>3 DEF Pending, Failure, Mine
    <2>2. ptrs[step - 3] \in DOMAIN live
      BY <2>1 DEF CommandInv
    <2> QED
      BY <1>3, <2>2 DEF Free, Next
  <1>4. CASE Call
    BY <1>4 DEF Call, Next
  <1>5. CASE Start \/ GiveUp \/ Finish \/ UNCHANGED allvars
    BY <1>5 DEF Start, GiveUp, Finish, allvars, vars
  <1> QED
    BY <1>1, <1>2, <1>3, <1>4, <1>5 DEF AlloctestNext

\* What the command keeps is kept by all its steps and by everybody else's.
LEMMA CommandNext ==
  ASSUME IInv, Linked, CommandInv, [AlloctestNext]_allvars
  PROVE  CommandInv'
  <1>1. CASE step = 0 /\ UNCHANGED <<step, ptrs>>
    <2>1. ptrs = <<>>
      BY <1>1 DEF CommandInv
    <2> QED
      BY <1>1, <2>1, NotRunning
  <1>2. CASE UNCHANGED allvars
    BY <1>2, CommandHeld DEF allvars, vars, command, InUse, Freed
  <1>3. CASE Start
    <2>1. /\ step' = 1 /\ ptrs = <<>> /\ ptrs' = <<>> /\ pc = "idle" /\ pc' = "idle"
          /\ before' = Figures(hdr) /\ hdr' = hdr /\ live' = live
          /\ heap_start # NULL /\ heap_start' = heap_start
      BY <1>3 DEF Start, CommandInv, vars, heap_get_stats
    <2>2. Pending' = {} /\ Mine' = {}
      BY <2>1 DEF Pending, Mine
    <2>3. NotMine' = InUse
      BY <2>1, <2>2 DEF NotMine, InUse
    <2>4. SizesOf(NotMine)' = SizesOf(InUse)
      BY <2>1, <2>3 DEF SizesOf
    <2>5. hdr = Layout(SizesOf(InUse))
      BY <2>1, Determined DEF ListDetermined
    <2>6. (before = Figures(Layout(SizesOf(NotMine))))'
      BY <2>1, <2>4, <2>5
    <2>7. Freed' <= 3 /\ ~(Freed' >= 1)
      BY <2>1 DEF Freed
    <2> QED
      BY <2>1, <2>2, <2>6, <2>7 DEF CommandInv
  <1>4. CASE Allocate
    <2>1. /\ step \in 1 .. 3 /\ pc = "idle" /\ pc' = "scan" /\ hdr' = hdr
          /\ live' = live /\ heap_start' = heap_start /\ want' = AllocSizes[step]
          /\ step' = step /\ ptrs' = ptrs /\ before' = before
      BY <1>4 DEF Allocate, KmallocCall, command
    <2>2. InUse' = InUse /\ Freed' = Freed
      BY <2>1 DEF InUse, Freed
    <2> QED
      BY <2>1, <2>2, CommandHeld
  <1>5. CASE Free
    BY <1>5, CommandFrees
  <1>6. CASE GiveUp \/ Finish
    BY <1>6, NotRunning DEF GiveUp, Finish
  <1>7. CASE (KmallocAdvance \/ CoalesceAdvance) /\ UNCHANGED command
    <2>1. /\ pc' = pc /\ hdr' = hdr /\ live' = live /\ heap_start' = heap_start
          /\ want' = want /\ step' = step /\ ptrs' = ptrs /\ before' = before
      BY <1>7 DEF KmallocAdvance, CoalesceAdvance, command
    <2>2. InUse' = InUse /\ Freed' = Freed
      BY <2>1 DEF InUse, Freed
    <2> QED
      BY <2>1, <2>2, CommandHeld
  <1>8. CASE CoalesceMerge /\ UNCHANGED command
    <2>1. /\ pc' = pc /\ live' = live /\ heap_start' = heap_start
          /\ want' = want /\ step' = step /\ ptrs' = ptrs /\ before' = before
      BY <1>8 DEF CoalesceMerge, command
    <2>2. Freed' = Freed
      BY <2>1 DEF Freed
    <2> QED
      BY <1>8, <2>1, <2>2, MergeInUse, CommandHeld
  <1>9. CASE KmallocTake /\ Returned(cur + HDR)
    BY <1>9, CommandTakes
  <1>10. CASE (KmallocFail \/ CoalesceDone) /\ Returned(NULL)
    BY <1>10, CommandGetsNothing
  <1> QED
    BY <1>1, <1>2, <1>3, <1>4, <1>5, <1>6, <1>7, <1>8, <1>9, <1>10
    DEF AlloctestNext, Others, Call, command

\* Under the command, too, the heap keeps its invariants, and the command holds
\* what it believes to hold.
THEOREM CommandInvariance == AlloctestSpec => []AlloctestIInv
  <1>1. AlloctestInit => AlloctestIInv
    <2>1. AlloctestInit => IInv /\ Linked /\ CommandInv
      <3> SUFFICES ASSUME AlloctestInit PROVE IInv /\ Linked /\ CommandInv
        OBVIOUS
      <3>1. Pending = {} /\ Mine = {} /\ Freed = 0 - 4
        BY DEF AlloctestInit, Init, Pending, Mine, Freed
      <3> QED
        BY <3>1, InitInv DEF AlloctestInit, Init, Linked, CommandInv
    <2> QED
      BY <2>1 DEF AlloctestIInv
  <1>2. AlloctestIInv /\ [AlloctestNext]_allvars => AlloctestIInv'
    <2> SUFFICES ASSUME IInv, Linked, CommandInv, [AlloctestNext]_allvars
                 PROVE  AlloctestIInv'
      BY DEF AlloctestIInv
    <2>1. [Next]_vars
      BY CommandSteps
    <2> QED
      BY <2>1, InductiveStep, NextLinked, CommandNext DEF AlloctestIInv
  <1> QED
    BY <1>1, <1>2, PTL DEF AlloctestSpec

\* alloctest uses the heap through its calls only: every theorem about Heap
\* holds while it runs.
THEOREM AlloctestIsCalls == AlloctestSpec => Spec
  <1>1. AlloctestInit => Init
    BY DEF AlloctestInit
  <1>2. AlloctestIInv /\ [AlloctestNext]_allvars => [Next]_vars
    BY CommandSteps DEF AlloctestIInv
  <1> QED
    BY <1>1, <1>2, CommandInvariance, PTL DEF AlloctestSpec, Spec

\* "pour prouver que la memoire est bien recuperee (pas de fuite)": whatever the
\* heap held before and however it was fragmented, the figures that alloctest
\* prints last are those it printed first.
THEOREM FiguresComeBack == AlloctestSpec => []FiguresRestored
  <1>1. AlloctestIInv => FiguresRestored
    <2> SUFFICES ASSUME IInv, Linked, CommandInv, pc = "idle", step = 7
                 PROVE  heap_get_stats = before
      BY DEF AlloctestIInv, FiguresRestored, FREES
    <2>1. DOMAIN ptrs = 1 .. 3 /\ Freed = 3
      BY ThreePointers DEF Freed
    <2>2. Pending = {} /\ Mine = {}
      BY <2>1 DEF Pending, Mine
    <2>3. NotMine = InUse
      BY <2>2 DEF NotMine
    <2>4. hdr = Layout(SizesOf(InUse))
      BY Determined DEF ListDetermined, CommandInv
    <2> QED
      BY <2>3, <2>4 DEF CommandInv, heap_get_stats
  <1> QED
    BY <1>1, CommandInvariance, PTL

\* The first figures count the blocks in use that are not the command's.
LEMMA FirstFigures ==
  ASSUME IInv, CommandInv, step > 0
  PROVE  before.used = Bytes(hdr, NotMine)
  <1> DEFINE N == NotMine
             u == SizesOf(NotMine)
             L == Layout(u)
  <1>1. DOMAIN u = N /\ \A a \in N : u[a] = hdr[a].size
    BY DEF SizesOf
  <1>2. IsFiniteSet(N) /\ \A a \in N : hdr[a].size \in Nat
    <2>1. N \in SUBSET DOMAIN hdr
      BY DEF NotMine, InUse
    <2> HIDE DEF N
    <2> QED
      BY <2>1, HeadersFinite, FS_Subset DEF IInv
  <1> HIDE DEF N, u
  <1>3. /\ N \subseteq DOMAIN L /\ \A a \in N : L[a].size = u[a]
        /\ {a \in DOMAIN L : ~L[a].free} = N
    <2>1. \A a \in DOMAIN L : L[a].free <=> a \notin N
      BY <1>1 DEF Layout
    <2> QED
      BY <1>1, <2>1 DEF Layout
  <1> HIDE DEF L
  <1>4. Bytes(hdr, N) = Bytes(L, N)
    BY <1>1, <1>2, <1>3, BytesSame
  <1>5. before.used = Bytes(L, {a \in DOMAIN L : ~L[a].free})
    BY DEF CommandInv, Figures, L, u
  <1> QED
    BY <1>3, <1>4, <1>5 DEF N

\* The three blocks show in the figures while the command holds them.
THEOREM BlocksAreCounted == AlloctestSpec => []BlocksCounted
  <1>1. AlloctestIInv => BlocksCounted
    <2> SUFFICES ASSUME IInv, CommandInv, pc = "idle", step = 4, ~Failure
                 PROVE  heap_get_stats.used >= before.used + AllocSizes[1]
                          + AllocSizes[2] + AllocSizes[3]
      BY DEF AlloctestIInv, BlocksCounted
    <2> DEFINE b(i) == ptrs[i] - HDR
               S1 == InUse \ {b(1)}
               S2 == S1 \ {b(2)}
               S3 == S2 \ {b(3)}
    <2>1. Pending = 1 .. 3
      BY ThreePointers DEF Pending, Freed, Failure
    <2>2. ASSUME NEW i \in 1 .. 3
          PROVE  /\ ptrs[i] \in Nat /\ b(i) \in InUse /\ b(i) + HDR = ptrs[i]
                 /\ ptrs[i] \in Mine
                 /\ AllocSizes[i] \in Nat /\ AllocSizes[i] <= hdr[b(i)].size
      <3>1. /\ ptrs[i] \in Mine /\ ptrs[i] \in DOMAIN live
            /\ live[ptrs[i]] = AllocSizes[i]
        BY <2>1 DEF CommandInv, Mine
      <3>2. /\ ptrs[i] \in Nat /\ live[ptrs[i]] \in Nat /\ b(i) \in DOMAIN hdr
        BY <3>1, HeldRange
      <3>3. ~hdr[b(i)].free /\ live[ptrs[i]] <= hdr[b(i)].size
        BY <3>1 DEF IInv, HeldBlocks
      <3> QED
        BY <3>1, <3>2, <3>3, HeapConstants DEF InUse
    <2>3. b(1) # b(2) /\ b(1) # b(3) /\ b(2) # b(3)
      <3>1. /\ \A i, j \in 1 .. 3 : ptrs[i] = ptrs[j] => i = j
        BY <2>1 DEF CommandInv
      <3>2. ptrs[1] # ptrs[2] /\ ptrs[1] # ptrs[3] /\ ptrs[2] # ptrs[3]
        BY <3>1
      <3> QED
        BY <2>2, <3>2, HeapConstants
    <2>4. NotMine = S3
      <3>1. Mine = {ptrs[1], ptrs[2], ptrs[3]}
        BY <2>1 DEF Mine
      <3>2. ASSUME NEW a \in InUse
            PROVE  a + HDR \in Mine <=> a \in {b(1), b(2), b(3)}
        <4>1. a \in Nat
          BY BlockRange DEF IInv, InUse
        <4> QED
          BY <2>2, <3>1, <4>1, HeapConstants
      <3> HIDE DEF b
      <3>3. NotMine = {a \in InUse : a \notin {b(1), b(2), b(3)}}
        BY <3>2 DEF NotMine
      <3>4. S3 = {a \in InUse : a \notin {b(1), b(2), b(3)}}
        OBVIOUS
      <3> QED
        BY <3>3, <3>4
    <2>5. /\ IsFiniteSet(InUse) /\ IsFiniteSet(S1) /\ IsFiniteSet(S2) /\ IsFiniteSet(S3)
          /\ \A a \in InUse : hdr[a].size \in Nat
      <3>1. InUse \in SUBSET DOMAIN hdr
        BY DEF InUse
      <3>2. IsFiniteSet(InUse) /\ \A a \in InUse : hdr[a].size \in Nat
        BY <3>1, HeadersFinite, FS_Subset DEF IInv
      <3>3. S1 \in SUBSET InUse /\ S2 \in SUBSET InUse /\ S3 \in SUBSET InUse
        OBVIOUS
      <3> HIDE DEF S1, S2, S3
      <3> QED
        BY <3>2, <3>3, FS_Subset
    <2>6. b(1) \in InUse /\ b(2) \in S1 /\ b(3) \in S2
      BY <2>2, <2>3
    <2>7. ASSUME NEW i \in 1 .. 3
          PROVE  AllocSizes[i] \in Nat /\ AllocSizes[i] <= hdr[b(i)].size
      BY <2>2
    <2> HIDE DEF b
    <2>8. /\ \A a \in S1 : hdr[a].size \in Nat
          /\ \A a \in S2 : hdr[a].size \in Nat
          /\ \A a \in S3 : hdr[a].size \in Nat
      BY <2>5
    <2>9. Bytes(hdr, InUse) = hdr[b(1)].size + Bytes(hdr, S1)
      BY <2>5, <2>6, BytesRemove
    <2>10. Bytes(hdr, S1) = hdr[b(2)].size + Bytes(hdr, S2)
      <3> HIDE DEF S1
      <3> QED
        BY <2>5, <2>6, <2>8, BytesRemove
    <2>11. Bytes(hdr, S2) = hdr[b(3)].size + Bytes(hdr, S3)
      <3> HIDE DEF S2
      <3> QED
        BY <2>5, <2>6, <2>8, BytesRemove
    <2>12. Bytes(hdr, S3) \in Nat
      <3> HIDE DEF S3
      <3> QED
        BY <2>5, <2>8, BytesPick
    <2>13. heap_get_stats.used = Bytes(hdr, InUse)
      BY DEF heap_get_stats, Figures, InUse
    <2>14. before.used = Bytes(hdr, S3)
      BY <2>4, FirstFigures
    <2>15. /\ hdr[b(1)].size \in Nat /\ hdr[b(2)].size \in Nat /\ hdr[b(3)].size \in Nat
      BY <2>5, <2>6
    <2>16. /\ AllocSizes[1] \in Nat /\ AllocSizes[1] <= hdr[b(1)].size
           /\ AllocSizes[2] \in Nat /\ AllocSizes[2] <= hdr[b(2)].size
           /\ AllocSizes[3] \in Nat /\ AllocSizes[3] <= hdr[b(3)].size
      BY <2>7
    <2> HIDE DEF S1, S2, S3
    <2> QED
      BY <2>9, <2>10, <2>11, <2>12, <2>13, <2>14, <2>15, <2>16
  <1> QED
    BY <1>1, CommandInvariance, PTL

\* alloctest shows what it was written to show.
THEOREM AlloctestProvesItsPoint == AlloctestSpec => []AlloctestRestores
  BY FiguresComeBack, BlocksAreCounted, PTL DEF AlloctestRestores

=============================================================================
