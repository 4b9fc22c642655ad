------------------------------- MODULE MCHeap -------------------------------
(***************************************************************************)
(* A small instance of Heap for TLC, with the command alloctest among its  *)
(* users.  The header, alignment and minimum block are the code's (12, 8   *)
(* and 16 bytes); the heap is a few blocks long and size_t has 512 values  *)
(* instead of 2^32.                                                        *)
(***************************************************************************)
EXTENDS Alloctest

\* 1 and 16 round to the two smallest aligned sizes, 40 is cmd_alloctest's
\* int[10], and the last one is the largest size that align_up does not wrap.
MCSizes == {1, 16, 40, SIZE_MOD - ALIGNMENT}

\* Small enough for the command to succeed between the blocks of others.
MCAllocSizes == <<1, 16, 1>>
=============================================================================
