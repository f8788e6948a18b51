------------------------------ MODULE Backoff ------------------------------
(***************************************************************************)
(* What DomainThrottleState promises of a domain's backoff level however   *)
(* its threads interleave, and all that module Balancer assumes of it: a   *)
(* 429 raises the level once, to the cap at most; nothing else raises it.  *)
(***************************************************************************)
EXTENDS Integers

CONSTANT MaxLevel  \* max_backoff_level

VARIABLES
  level,  \* the backoff level
  owed    \* 429s recorded that have not yet reached the level

vars == <<level, owed>>

Init == level = 0 /\ owed = 0

\* A 429 is received.
RateLimited == owed' = owed + 1 /\ UNCHANGED level

\* It reaches the level.
Escalate ==
  /\ owed > 0 /\ owed' = owed - 1
  /\ level' = IF level < MaxLevel THEN level + 1 ELSE MaxLevel

\* Time or successes give levels back.
Lower == level' \in 0 .. level - 1 /\ UNCHANGED owed

Next == RateLimited \/ Escalate \/ Lower
Spec == Init /\ [][Next]_vars
=============================================================================
