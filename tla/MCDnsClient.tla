----------------------------- MODULE MCDnsClient -----------------------------
(* Two callers, in all MaxCalls calls; the network is known or not. *)
EXTENDS DnsClient
=============================================================================
