---------------------------- MODULE MCTransports ----------------------------
(* An instance of Transports for TLC: two small requests fill a packet, the  *)
(* third, as large as both, needs one of its own.                            *)
EXTENDS Transports, TLC

CONSTANTS c1, c2, r1, r2, r3

TwoCalls      == {c1, c2}
OneSingle     == {c1}
ThreeRequests == {r1, r2, r3}
CallRequests  == (c1 :> <<r3>>) @@ (c2 :> <<r1, r2>>)
OwnIds        == [r \in Requests |-> r]
Sizes         == (r1 :> 1) @@ (r2 :> 1) @@ (r3 :> 2)
=============================================================================
