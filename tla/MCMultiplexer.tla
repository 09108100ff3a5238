--------------------------- MODULE MCMultiplexer ----------------------------
(***************************************************************************)
(* Instances of Multiplexer for TLC.                                       *)
(***************************************************************************)
EXTENDS Multiplexer, TLC

QuerySymmetry == Permutations(Procs)
=============================================================================
