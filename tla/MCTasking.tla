----------------------------- MODULE MCTasking -----------------------------
(***************************************************************************)
(* Small instances of Tasking for TLC: task 0 and up to three others, each of*)
(* which either loops for ever or returns.                                 *)
(***************************************************************************)
EXTENDS Tasking

Loops == {"loops"}
Returns == {"returns"}
Either == {"loops", "returns"}
=============================================================================
