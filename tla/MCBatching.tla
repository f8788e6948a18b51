------------------------------ MODULE MCBatching ------------------------------
(* Instances of Batching for TLC.                                            *)
EXTENDS Batching, TLC

CONSTANTS c1, c2, r1, r2, r3, r4

TwoCalls  == {c1, c2}
OneSingle == {c1}
OwnIds    == [r \in Requests |-> r]

\* A Single and a Batch of three; the Single has the id of one of the Batch.
LargeRequests   == {r1, r2, r3, r4}
LargeRequestsOf == (c1 :> <<r4>>) @@ (c2 :> <<r1, r2, r3>>)
LargeIds        == (r1 :> 1) @@ (r2 :> 2) @@ (r3 :> 3) @@ (r4 :> 1)

\* A Single and a Batch of none.
SmallRequests   == {r1}
SmallRequestsOf == (c1 :> <<r1>>) @@ (c2 :> <<>>)
===============================================================================
