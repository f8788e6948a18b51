-------------------------- MODULE RateLimitDomain --------------------------
(***************************************************************************)
(* extract_rate_limit_domain (src/src/throttle.rs).  A host is the sequence *)
(* of its labels, what lies between the dots of its name.                  *)
(***************************************************************************)
EXTENDS Integers, Sequences

CONSTANT Labels   \* the labels host names are made of

Hosts == Seq(Labels) \ {<<>>}

\* The last two labels, the whole host if it has one only.
RateLimitDomainOf(host) ==
  IF Len(host) >= 2 THEN <<host[Len(host) - 1], host[Len(host)]>> ELSE host
=============================================================================
