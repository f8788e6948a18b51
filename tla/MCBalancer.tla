------------------------------ MODULE MCBalancer ------------------------------
(* Instances of Balancer for TLC: two calls on three endpoints.             *)
EXTENDS Balancer, TLC

CONSTANTS c1, c2, c3, d1, d2, None

TwoCalls == {c1, c2}
ThreeCalls == {c1, c2, c3}
TwoDomains == {d1, d2}
\* Endpoints 0 and 1 belong to one provider, as two subdomains of it do.
ThreeDomainOf == (0 :> d1) @@ (1 :> d1) @@ (2 :> d2)
TwoDomainOf   == (0 :> d1) @@ (1 :> d2)

\* Endpoint 1 weighs double.
ThreeWeights == (0 :> 1) @@ (1 :> 2) @@ (2 :> 1)
TwoWeights   == (0 :> 1) @@ (1 :> 2)

\* Endpoint 0 takes only the small request of c1.
ThreeCaps  == (0 :> 1) @@ (1 :> 3) @@ (2 :> None)
TwoCaps    == (0 :> 2) @@ (1 :> None)
MixedBytes == (c1 :> 1) @@ (c2 :> 3)
\* No endpoint of LiveCaps takes the request of c3.
LiveBytes == (c1 :> 1) @@ (c2 :> 3) @@ (c3 :> 9)
LiveCaps  == (0 :> 2) @@ (1 :> 3)
SmallBytes == (c1 :> 1) @@ (c2 :> 1)

\* Domains other transports of the process also use.
NoDomain  == {}
OneDomain == {d2}

ThreeLimits == (0 :> 1) @@ (1 :> 1) @@ (2 :> None)
TwoLimits   == (0 :> 1) @@ (1 :> 1)
===============================================================================
