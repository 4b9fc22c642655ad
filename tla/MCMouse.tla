------------------------------ MODULE MCMouse ------------------------------
(***************************************************************************)
(* Small instances of Mouse: a small grid, movements of 3 and -9 (247),    *)
(* whose bytes have bit 3 clear, so that only first bytes have it set, or  *)
(* of -1 (255), which has it set.                                          *)
(***************************************************************************)
EXTENDS Mouse

MCFlags == {8, 10}
Calm == {3, 247}
Leftward == {0, 255}
=============================================================================
