------------------------------- MODULE MCXmux --------------------------------
(* Xmux for TLC. *)
EXTENDS Xmux, TLC

StreamSymmetry == Permutations(Streams) \cup Permutations(Slots)
=============================================================================
