----------------------------- MODULE Alloctest -----------------------------
(***************************************************************************)
(* The shell command alloctest over the heap: three allocations and, if    *)
(* none of them fails, three calls of kfree, with the figures of           *)
(* heap_get_stats before and after.  The command runs inside an interrupt, *)
(* so that nobody else uses the heap until it is over; the other users     *)
(* have left the heap in any state that a sequence of calls can produce.   *)
(***************************************************************************)
EXTENDS Heap, Sequences

CONSTANT AllocSizes    \* the three sizes (32, 128 and 40 bytes)

ASSUME AlloctestConstants == AllocSizes \in Seq(Sizes) /\ Len(AllocSizes) = 3

VARIABLES
  step,    \* 0: not running, 1 to 3: kmalloc, from 4 on: kfree, last figures
  ptrs,    \* a, b and c, as far as they have been assigned
  before,  \* the figures at the beginning
  lost     \* blocks whose last pointer was a local variable of the command

command == <<step, ptrs, before, lost>>
allvars == <<vars, command>>

\* Mutant: c is not freed.
FREES_Two == 2

\* Calls of kfree.
FREES == 3

NoFigures == [total |-> 0, used |-> 0, free_bytes |-> 0, free_blocks |-> 0]

AlloctestInit ==
  Init /\ step = 0 /\ ptrs = <<>> /\ before = NoFigures /\ lost = {}

\* The other users of the heap.
Others ==
  /\ step = 0
  /\ \/ heap_init
     \/ \E n \in Sizes : KmallocCall(n)
     \/ \E p \in DOMAIN live \ lost : KfreeCall(p)
  /\ UNCHANGED command

\* Bound: the command is not repeated once it has failed.
Start ==
  /\ lost = {} /\ step = 0 /\ pc = "idle" /\ heap_start # NULL
  /\ step' = 1 /\ before' = heap_get_stats
  /\ UNCHANGED <<vars, ptrs, lost>>

Allocate ==
  /\ step \in 1 .. 3 /\ KmallocCall(AllocSizes[step])
  /\ UNCHANGED command

\* What a call that returns gives its caller: a step of the command is over.
Returned(p) ==
  /\ IF step = 0 THEN UNCHANGED <<step, ptrs>>
     ELSE step' = step + 1 /\ ptrs' = IF step <= 3 THEN Append(ptrs, p) ELSE ptrs
  /\ UNCHANGED <<before, lost>>

Failure == \E i \in DOMAIN ptrs : ptrs[i] = NULL

\* The command gives up and keeps what it has.
GiveUp ==
  /\ step = 4 /\ pc = "idle" /\ Failure
  /\ step' = 0 /\ ptrs' = <<>> /\ before' = NoFigures
  /\ lost' = lost \cup {ptrs[i] : i \in {j \in DOMAIN ptrs : ptrs[j] # NULL}}
  /\ UNCHANGED vars

Free ==
  /\ step \in 4 .. 3 + FREES /\ ~Failure /\ KfreeCall(ptrs[step - 3])
  /\ UNCHANGED command

\* Its last figures are printed.
Finish ==
  /\ step = 4 + FREES /\ pc = "idle"
  /\ step' = 0 /\ ptrs' = <<>> /\ before' = NoFigures
  /\ UNCHANGED <<vars, lost>>

\* The rest of a call that has started.
Call ==
  \/ (KmallocAdvance \/ CoalesceMerge \/ CoalesceAdvance) /\ UNCHANGED command
  \/ KmallocTake /\ Returned(cur + HDR)
  \/ KmallocFail /\ Returned(NULL)
  \/ CoalesceDone /\ Returned(NULL)

AlloctestNext == Others \/ Start \/ Allocate \/ GiveUp \/ Free \/ Finish \/ Call

\* As in Heap, a call runs to its end.
AlloctestSpec ==
  AlloctestInit /\ [][AlloctestNext]_allvars /\ WF_allvars(Call)

-----------------------------------------------------------------------------
(* Properties                                                               *)

\* The figures printed after the last kfree are those printed at the beginning.
FiguresRestored ==
  (pc = "idle" /\ step = 4 + FREES) => heap_get_stats = before

\* In between the three blocks are accounted for.
BlocksCounted ==
  (pc = "idle" /\ step = 4 /\ ~Failure) =>
    heap_get_stats.used >= before.used + AllocSizes[1] + AllocSizes[2]
                                       + AllocSizes[3]

\* "pour prouver que la memoire est bien recuperee (pas de fuite)", however
\* fragmented the heap was.
AlloctestRestores == FiguresRestored /\ BlocksCounted
-----------------------------------------------------------------------------
(* The inductive invariant                                                  *)

\* The last of the three pointers that has been given to kfree.
Freed == IF pc = "coalesce" THEN step - 3 ELSE step - 4

\* The others, and the blocks in use that are not theirs.
Pending == {i \in DOMAIN ptrs : i > Freed /\ ptrs[i] # NULL}
Mine == {ptrs[i] : i \in Pending}
NotMine == {a \in InUse : a + HDR \notin Mine}

\* The command holds different blocks of the sizes it asked for, and its first figures are those of a
\* heap without them.
CommandInv ==
  /\ step \in 0 .. 7 /\ ptrs \in Seq(Nat)
  /\ Len(ptrs) = IF step = 0 THEN 0 ELSE IF step <= 4 THEN step - 1 ELSE 3
  /\ step \in 1 .. 3 => pc # "coalesce"
  /\ step >= 4 => pc # "scan"
  /\ step >= 4 /\ Freed >= 1 => ~Failure
  /\ Freed <= 3
  /\ Mine \subseteq DOMAIN live
  /\ \A i, j \in Pending : ptrs[i] = ptrs[j] => i = j
  /\ \A i \in Pending : live[ptrs[i]] = AllocSizes[i]
  /\ step # 0 /\ pc = "scan" => want = AllocSizes[step]
  /\ step > 0 => /\ heap_start # NULL
                 /\ before = Figures(Layout(SizesOf(NotMine)))

AlloctestIInv == IInv /\ Linked /\ CommandInv
=============================================================================
