------------------------------ MODULE Upstream ------------------------------
(***************************************************************************)
(* What LoadBalancedTransport::call promises its caller about each packet, *)
(* whichever endpoints it goes through: a packet that no endpoint takes is *)
(* refused without being sent; any other is sent at least once and at most *)
(* MaxSends times, and gets an answer some endpoint gave to it.  Module    *)
(* Balancer is shown to keep this promise, and module Transports composes  *)
(* it with BatchingTransport.                                              *)
(***************************************************************************)
EXTENDS Integers

CONSTANTS
  Packets,   \* the calls, one for each packet
  Fits,      \* the packets that some endpoint takes
  MaxSends,  \* (max_retry_rounds + 1) * endpoints.len()
  Answers    \* what endpoints answer

VARIABLES
  status,  \* packet -> "new", "open", "returned" or "cancelled"
  sent,    \* packet -> how often an endpoint was given it
  answer   \* packet -> what the call returned

vars == <<status, sent, answer>>

Init ==
  /\ status = [p \in Packets |-> "new"]
  /\ sent   = [p \in Packets |-> 0]
  /\ answer = [p \in Packets |-> "pending"]

\* The size check passes.
Accept(p) ==
  /\ status[p] = "new" /\ p \in Fits
  /\ status' = [status EXCEPT ![p] = "open"]
  /\ UNCHANGED <<sent, answer>>

\* Faulty variant: the size is checked only after the packet was sent.
RefuseLate(p) ==
  /\ p \notin Fits
  /\ \/ /\ status[p] = "new"
        /\ status' = [status EXCEPT ![p] = "open"]
        /\ sent' = [sent EXCEPT ![p] = @ + 1]
        /\ UNCHANGED answer
     \/ /\ status[p] = "open"
        /\ status' = [status EXCEPT ![p] = "returned"]
        /\ answer' = [answer EXCEPT ![p] = "exceeds_every_limit"]
        /\ UNCHANGED sent

\* It does not.
Refuse(p) ==
  /\ status[p] = "new" /\ p \notin Fits
  /\ status' = [status EXCEPT ![p] = "returned"]
  /\ answer' = [answer EXCEPT ![p] = "exceeds_every_limit"]
  /\ UNCHANGED sent

\* The packet goes to some endpoint.
Transmit(p) ==
  /\ status[p] = "open" /\ sent[p] < MaxSends
  /\ sent' = [sent EXCEPT ![p] = @ + 1]
  /\ UNCHANGED <<status, answer>>

\* The answer of the endpoint that was tried last ends the call.
Reply(p) ==
  /\ status[p] = "open" /\ sent[p] > 0
  /\ status' = [status EXCEPT ![p] = "returned"]
  /\ \E a \in Answers : answer' = [answer EXCEPT ![p] = a]
  /\ UNCHANGED sent

\* The caller drops the future.
Drop(p) ==
  /\ status[p] \in {"new", "open"}
  /\ status' = [status EXCEPT ![p] = "cancelled"]
  /\ UNCHANGED <<sent, answer>>

Next == \E p \in Packets :
  Accept(p) \/ Refuse(p) \/ Transmit(p) \/ Reply(p) \/ Drop(p)
Spec == Init /\ [][Next]_vars
=============================================================================
