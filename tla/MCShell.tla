------------------------------ MODULE MCShell ------------------------------
(***************************************************************************)
(* A small instance of Shell: a buffer with room for two characters, and   *)
(* one device on the slave besides the mouse.                              *)
(***************************************************************************)
EXTENDS Shell

MCMasks == {{1, 2, 11, 12}, {11}}
MCDevices == {0, 1, 11, 12}
=============================================================================
