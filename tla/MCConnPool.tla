----------------------------- MODULE MCConnPool -----------------------------
(***************************************************************************)
(* ConnPool for TLC: two callers, one dial, one Reset.                     *)
(***************************************************************************)
EXTENDS ConnPool
=============================================================================
