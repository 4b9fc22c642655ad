----------------------------- MODULE Allocator -----------------------------
(***************************************************************************)
(* What kmalloc and kfree promise to the rest of the kernel, without       *)
(* headers, splitting or merging: every pointer a caller holds designates  *)
(* a region of the heap at least as long as the request, and no two held   *)
(* regions overlap.  A request may always be refused (kmalloc returns      *)
(* NULL): that leaves the state unchanged.                                 *)
(***************************************************************************)
EXTENDS Integers

CONSTANTS Low,     \* first address of the heap
          High,    \* first address past the heap
          Sizes    \* the sizes callers ask for

VARIABLE live      \* live[p] = size asked for by the caller that holds p

\* The n bytes at p are in the heap and share no byte with a held region.
Available(p, n) ==
  /\ Low < p /\ p + n <= High
  /\ \A q \in DOMAIN live : p + n <= q \/ q + live[q] <= p

Init == live = [p \in {} |-> 0]

Alloc(p, n) ==
  /\ p \notin DOMAIN live
  /\ Available(p, n)
  /\ live' = [q \in DOMAIN live \cup {p} |-> IF q = p THEN n ELSE live[q]]

Free(p) ==
  /\ p \in DOMAIN live
  /\ live' = [q \in DOMAIN live \ {p} |-> live[q]]

Next ==
  \/ \E n \in Sizes : \E p \in Low .. High : Alloc(p, n)
  \/ \E p \in DOMAIN live : Free(p)

Spec == Init /\ [][Next]_live
=============================================================================
