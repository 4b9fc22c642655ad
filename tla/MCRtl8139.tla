----------------------------- MODULE MCRtl8139 -----------------------------
(***************************************************************************)
(* Instances of Rtl8139 for TLC: a ring of 32 bytes in which a handful of  *)
(* frames fit and the limit of frames per interrupt is met, one of a length*)
(* that has to be rounded, with the proportions of the code's margins and  *)
(* two transmit descriptors; and the ring of the code with the shortest and*)
(* the longest Ethernet frame, one at a time.                              *)
(***************************************************************************)
EXTENDS Rtl8139

SmallFrames == {4, 11}
Runt == {2}
Ethernet == {64, 1518}
=============================================================================
