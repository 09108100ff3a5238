---------------------------- MODULE MCExpiringMap ----------------------------
(* Two goroutines, two keys; a lifetime of two ticks. *)
EXTENDS ExpiringMap
=============================================================================
