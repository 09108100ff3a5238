------------------------------ MODULE MCFakeIP -------------------------------
(* FakeIP for TLC. *)
EXTENDS FakeIP, TLC

FakeIPSymmetry == Permutations(Procs) \cup Permutations(Domains)
=============================================================================
