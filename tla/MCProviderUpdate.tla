-------------------------- MODULE MCProviderUpdate --------------------------
(* Two outbounds and an endpoint, each in two versions; b's first version is  *)
(* chained over a, its second one is not.                                     *)
EXTENDS ProviderUpdate

CONSTANTS a, b, e, compatible

N(t, v) == [tag |-> t, opt |-> v, via |-> IF t = b /\ v = 1 THEN {a} ELSE {}]
C(out, ep) == [k \in {"outbound", "endpoint"} |-> IF k = "outbound" THEN out ELSE ep]

\* The selector lists no configured outbound, or "Compatible".
MembersConfigured == {<<>>, <<1>>}

\* Downloads that add, drop, change and reorder nodes.
Downloads ==
    {C(<<>>, <<>>), C(<<N(a, 1)>>, <<>>), C(<<N(a, 1), N(b, 1)>>, <<>>), C(<<N(b, 1), N(a, 1)>>, <<N(e, 1)>>),
     C(<<N(a, 2), N(b, 1)>>, <<N(e, 1)>>), C(<<N(b, 2)>>, <<N(e, 2)>>)}
=============================================================================
