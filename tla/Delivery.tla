------------------------------ MODULE Delivery ------------------------------
(***************************************************************************)
(* What a transport promises about each request, whatever it does to get   *)
(* there: it is put on the wire a bounded number of times, gets one answer *)
(* and is never put on the wire again once it has its answer.  The retry   *)
(* of batches in src/src/batching.rs is shown to keep this promise.        *)
(***************************************************************************)
EXTENDS Integers

CONSTANTS Requests, MaxSends

VARIABLES
  phase,  \* request -> "new", "open" or "answered"
  sends   \* request -> how often it was put on the wire

vars == <<phase, sends>>

Init ==
  /\ phase = [r \in Requests |-> "new"]
  /\ sends = [r \in Requests |-> 0]

Move(from, to) ==
  /\ DOMAIN phase' = Requests
  /\ \A r \in Requests : phase'[r] # phase[r] => phase[r] = from /\ phase'[r] = to

\* The requests of one call are handed over together.
Submit == Move("new", "open") /\ UNCHANGED sends

\* Some requests travel together.
Transmit ==
  /\ DOMAIN sends' = Requests
  /\ \A r \in Requests : sends'[r] # sends[r] =>
       phase[r] = "open" /\ sends[r] < MaxSends /\ sends'[r] = sends[r] + 1
  /\ UNCHANGED phase

\* Some requests get their answers, a response or an error.
Answer == Move("open", "answered") /\ UNCHANGED sends

Next == Submit \/ Transmit \/ Answer
Spec == Init /\ [][Next]_vars
=============================================================================
