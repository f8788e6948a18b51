------------------------------ MODULE Balancer ------------------------------
(***************************************************************************)
(* LoadBalancedTransport::call (src/src/lib.rs): several calls in flight   *)
(* on clones of one transport.  Each call makes up to MaxRetryRounds + 1   *)
(* rotations through the endpoints, starting at the endpoint the weighted  *)
(* round-robin counter picks, skipping endpoints too small for the request *)
(* and heavily throttled ones, and waiting for the endpoint's in-flight    *)
(* permit before it sends.                                                 *)
(*                                                                         *)
(* One action is one stretch of code between two points where another      *)
(* thread can be observed: every read of a domain's throttle is a step of  *)
(* its own.  A throttle is seen here through what its functions do to the  *)
(* backoff level; module Throttle opens those functions up.  A sleep is    *)
(* the time that passes before the step that follows it.                   *)
(***************************************************************************)
EXTENDS Integers, FiniteSets, Functions

CONSTANTS
  Calls,            \* the futures returned by call(), one per request
  NumEndpoints,     \* endpoints.len()
  Weights,          \* endpoint -> configured weight
  Caps,             \* endpoint -> max_request_bytes, or Unlimited
  InFlightLimits,   \* endpoint -> max_in_flight, or Unlimited
  Bytes,            \* call -> length of its serialized request
  Domains,          \* rate-limit domains
  DomainOf,         \* endpoint -> its domain
  SharedDomains,    \* domains whose throttle other transports also drive
  MaxLevel,         \* max_backoff_level
  HeavyLevels,      \* levels whose delay is >= heavy_throttle_threshold
  MaxRetryRounds,   \* max_retry_rounds
  Replies,          \* the answers the endpoints may give
  CounterMod,       \* the counter's range, 2^64 in the code
  Unlimited         \* None

Endpoints == 0 .. NumEndpoints - 1
Levels    == 0 .. MaxLevel

\* cumulative_weights, as build() computes it, and total_weight.
CumulativeWeights[i \in Endpoints] ==
  IF i = 0 THEN Weights[0] ELSE CumulativeWeights[i - 1] + Weights[i]
TotalWeight == CumulativeWeights[NumEndpoints - 1]

\* What build() asserts of the configuration.
ASSUME ConfigAssumption ==
  /\ NumEndpoints \in Nat \ {0}
  /\ Weights \in [Endpoints -> Nat \ {0}]
  /\ InFlightLimits \in [Endpoints -> (Nat \ {0}) \cup {Unlimited}]
  /\ Unlimited \notin Int
  /\ DomainOf \in [Endpoints -> Domains]
  /\ SharedDomains \subseteq Domains
  /\ HeavyLevels \subseteq Levels
  /\ MaxLevel \in Nat
  /\ MaxRetryRounds \in Nat
  /\ CounterMod \in Nat \ {0}
  /\ Replies \cap {"none", "pending", "panic"} = {}

ASSUME CallsFinite == IsFiniteSet(Calls)

-----------------------------------------------------------------------------
(* Answers of Http::call, named for what is_retryable and is_rate_limit     *)
(* tell apart.                                                              *)

NoError == "none"
IsRateLimit(r) == r \in {"http_429", "custom_429"}
IsRetryable(r) ==
  r \in {"http_413", "http_429", "http_502", "http_503", "http_504",
         "backend_gone", "custom_timeout", "custom_connection", "custom_429"}

VARIABLES
  counter,   \* the shared round-robin counter
  level,     \* domain -> backoff level
  permits,   \* endpoint -> free permits of its semaphore
  pc,        \* call -> where it is
  round,     \* call -> retry round
  start,     \* call -> start_idx of the round
  attempt,   \* call -> offset from start of the endpoint being considered
  scan,      \* call -> offset of the alternative being looked at
  own,       \* call -> level read for the endpoint being considered
  lastErr,   \* call -> last_err
  result,    \* call -> what it returned
  tries,     \* history: call -> endpoint -> requests sent
  skips      \* history: call -> endpoint -> record_skip calls

progress == <<round, start, attempt, scan, own, lastErr>>
history  == <<tries, skips>>
vars     == <<counter, level, permits, pc, progress, result, history>>

AcceptsRequest(e, bytes) == Caps[e] # Unlimited => bytes <= Caps[e]
Accepts(c, e) == AcceptsRequest(e, Bytes[c])

\* Faulty variant: the offset is clamped to the last endpoint, not wrapped.
RotationClamped(s, k) == IF s + k < NumEndpoints THEN s + k ELSE NumEndpoints - 1

\* The endpoint at an offset of the rotation.
Rotation(s, k) == (s + k) % NumEndpoints
Current(c)   == Rotation(start[c], attempt[c])
Candidate(c) == Rotation(start[c], scan[c])

\* Faulty variant: strict comparison in partition_point.
SelectOffByOne(tick) ==
  Cardinality({i \in Endpoints : CumulativeWeights[i] < tick % TotalWeight})

\* select_endpoint: the first bucket whose cumulative weight exceeds the tick.
SelectEndpoint(tick) ==
  Cardinality({i \in Endpoints : CumulativeWeights[i] <= tick % TotalWeight})

Goto(c, label) == pc' = [pc EXCEPT ![c] = label]

\* Leaving the loop body drops _permit, if the endpoint has a semaphore.
Release(e) ==
  permits' = IF InFlightLimits[e] = Unlimited
             THEN permits ELSE [permits EXCEPT ![e] = @ + 1]

NextAttempt(c) ==
  /\ attempt' = [attempt EXCEPT ![c] = @ + 1]
  /\ Goto(c, "attempt")
  /\ UNCHANGED <<round, start, scan, own>>

Return(c, r) ==
  /\ result' = [result EXCEPT ![c] = r]
  /\ Goto(c, "returned")

-----------------------------------------------------------------------------
(* The throttle functions, by their effect on a domain's level.             *)

\* pre_request_delay: time-based decay may lower the level before it is read.
ReadDelay(d, l) == l \in 0 .. level[d] /\ level' = [level EXCEPT ![d] = l]

\* Faulty variant: record_rate_limit without min(max).
EscalateUncapped(d) == level' = [level EXCEPT ![d] = @ + 1]

\* record_rate_limit.
Escalate(d) ==
  level' = [level EXCEPT ![d] = IF @ < MaxLevel THEN @ + 1 ELSE MaxLevel]

\* record_success: the level drops by one once enough successes are counted.
Recover(d) ==
  \/ UNCHANGED level
  \/ level[d] > 0 /\ level' = [level EXCEPT ![d] = @ - 1]

-----------------------------------------------------------------------------
Init ==
  /\ counter = 0
  /\ level   = [d \in Domains |-> 0]
  /\ permits = [e \in Endpoints |->
                  IF InFlightLimits[e] = Unlimited THEN 0 ELSE InFlightLimits[e]]
  /\ pc      = [c \in Calls |-> "new"]
  /\ round   = [c \in Calls |-> 0]
  /\ start   = [c \in Calls |-> 0]
  /\ attempt = [c \in Calls |-> 0]
  /\ scan    = [c \in Calls |-> 0]
  /\ own     = [c \in Calls |-> 0]
  /\ lastErr = [c \in Calls |-> NoError]
  /\ result  = [c \in Calls |-> "pending"]
  /\ tries   = [c \in Calls |-> [e \in Endpoints |-> 0]]
  /\ skips   = [c \in Calls |-> [e \in Endpoints |-> 0]]

\* Faulty variant: no size check before the rotations.
BeginUnchecked(c) ==
  /\ pc[c] = "new"
  /\ Goto(c, "select")
  /\ UNCHANGED <<counter, level, permits, progress, result, history>>

\* The size check before anything else.
Begin(c) ==
  /\ pc[c] = "new"
  /\ IF \E e \in Endpoints : Accepts(c, e)
     THEN Goto(c, "select") /\ UNCHANGED result
     ELSE Return(c, "exceeds_every_limit")
  /\ UNCHANGED <<counter, level, permits, progress, history>>

\* Head of a round, after the backoff sleep of the rounds but the first.
Select(c) ==
  /\ pc[c] = "select"
  /\ start'   = [start EXCEPT ![c] = SelectEndpoint(counter)]
  /\ counter' = (counter + 1) % CounterMod
  /\ attempt' = [attempt EXCEPT ![c] = 0]
  /\ lastErr' = [lastErr EXCEPT ![c] = NoError]
  /\ Goto(c, "attempt")
  /\ UNCHANGED <<level, permits, round, scan, own, result, history>>

\* The endpoint is too small for this request.
PassOver(c) ==
  /\ pc[c] = "attempt" /\ attempt[c] < NumEndpoints
  /\ ~Accepts(c, Current(c))
  /\ NextAttempt(c)
  /\ UNCHANGED <<counter, level, permits, lastErr, result, history>>

\* delay = pre_request_delay(throttle).
Consider(c) ==
  /\ pc[c] = "attempt" /\ attempt[c] < NumEndpoints
  /\ Accepts(c, Current(c))
  /\ \E l \in Levels : /\ ReadDelay(DomainOf[Current(c)], l)
                       /\ own' = [own EXCEPT ![c] = l]
  /\ scan' = [scan EXCEPT ![c] = attempt[c] + 1]
  /\ Goto(c, "scan")
  /\ UNCHANGED <<counter, permits, round, start, attempt, lastErr, result, history>>

\* One endpoint later in the rotation is examined; it is no alternative if it
\* is too small or heavily throttled.
ScanPast(c) ==
  /\ pc[c] = "scan" /\ scan[c] < NumEndpoints
  /\ \/ ~Accepts(c, Candidate(c)) /\ UNCHANGED level
     \/ /\ Accepts(c, Candidate(c))
        /\ \E l \in HeavyLevels : ReadDelay(DomainOf[Candidate(c)], l)
  /\ scan' = [scan EXCEPT ![c] = @ + 1]
  /\ UNCHANGED <<counter, permits, pc, round, start, attempt, own, lastErr, result, history>>

\* Faulty variant: alternatives are not asked whether they accept the request.
FindsAnyAlternative(c) ==
  /\ pc[c] = "scan" /\ scan[c] < NumEndpoints
  /\ \E l \in Levels \ HeavyLevels : ReadDelay(DomainOf[Candidate(c)], l)

\* An unthrottled alternative: its delay has just been read.
FindsAlternative(c) ==
  /\ pc[c] = "scan" /\ scan[c] < NumEndpoints
  /\ Accepts(c, Candidate(c))
  /\ \E l \in Levels \ HeavyLevels : ReadDelay(DomainOf[Candidate(c)], l)

\* record_skip; continue.
Skip(c) ==
  /\ FindsAlternative(c)
  /\ own[c] \in HeavyLevels
  /\ skips' = [skips EXCEPT ![c][Current(c)] = @ + 1]
  /\ NextAttempt(c)
  /\ UNCHANGED <<counter, permits, lastErr, result, tries>>

\* The endpoint is kept: it is not heavily throttled, or nothing better is left.
Keep(c) ==
  /\ \/ FindsAlternative(c) /\ own[c] \notin HeavyLevels
     \/ pc[c] = "scan" /\ scan[c] >= NumEndpoints /\ UNCHANGED level
  /\ Goto(c, "acquire")
  /\ UNCHANGED <<counter, permits, progress, result, history>>

\* After sleep(delay): the permit, then the request goes out.
Send(c) ==
  LET e == Current(c) IN
  /\ pc[c] = "acquire"
  /\ \/ InFlightLimits[e] = Unlimited /\ UNCHANGED permits
     \/ /\ InFlightLimits[e] # Unlimited /\ permits[e] > 0
        /\ permits' = [permits EXCEPT ![e] = @ - 1]
  /\ tries' = [tries EXCEPT ![c][e] = @ + 1]
  /\ Goto(c, "inflight")
  /\ UNCHANGED <<counter, level, progress, result, skips>>

\* Ok(resp), or an error that is not retried.
Finish(c) ==
  /\ pc[c] = "inflight"
  /\ \E r \in Replies :
       /\ ~IsRetryable(r)
       /\ IF r = "ok" THEN Recover(DomainOf[Current(c)]) ELSE UNCHANGED level
       /\ Return(c, r)
  /\ Release(Current(c))
  /\ UNCHANGED <<counter, progress, history>>

\* A retryable error.  A 429 that is not the rotation's last attempt keeps the
\* permit while it sleeps for rate_limit_failover_delay.
FailOver(c) ==
  /\ pc[c] = "inflight"
  /\ \E r \in Replies :
       /\ IsRetryable(r)
       /\ IF IsRateLimit(r) THEN Escalate(DomainOf[Current(c)]) ELSE UNCHANGED level
       /\ lastErr' = [lastErr EXCEPT ![c] = r]
       /\ IF IsRateLimit(r) /\ attempt[c] < NumEndpoints - 1
          THEN /\ Goto(c, "failover")
               /\ UNCHANGED <<permits, round, start, attempt, scan, own>>
          ELSE Release(Current(c)) /\ NextAttempt(c)
  /\ UNCHANGED <<counter, result, history>>

\* Faulty variant: the permit taken for a rate-limited attempt is forgotten.
FailoverLeaksPermit(c) ==
  /\ pc[c] = "failover"
  /\ NextAttempt(c)
  /\ UNCHANGED <<counter, level, permits, lastErr, result, history>>

FailoverDelayOver(c) ==
  /\ pc[c] = "failover"
  /\ Release(Current(c))
  /\ NextAttempt(c)
  /\ UNCHANGED <<counter, level, lastErr, result, history>>

\* Faulty variant: the last round is dropped.
EndRoundEarly(c) ==
  /\ pc[c] = "attempt" /\ attempt[c] >= NumEndpoints
  /\ IF round[c] + 1 >= MaxRetryRounds
     THEN /\ Return(c, IF lastErr[c] = NoError THEN "panic" ELSE lastErr[c])
          /\ UNCHANGED round
     ELSE /\ round' = [round EXCEPT ![c] = @ + 1]
          /\ Goto(c, "select")
          /\ UNCHANGED result
  /\ UNCHANGED <<counter, level, permits, start, attempt, scan, own, lastErr, history>>

\* All endpoints of the round were considered.
EndRound(c) ==
  /\ pc[c] = "attempt" /\ attempt[c] >= NumEndpoints
  /\ IF round[c] = MaxRetryRounds
     THEN /\ Return(c, IF lastErr[c] = NoError THEN "panic" ELSE lastErr[c])
          /\ UNCHANGED round
     ELSE /\ round' = [round EXCEPT ![c] = @ + 1]
          /\ Goto(c, "select")
          /\ UNCHANGED result
  /\ UNCHANGED <<counter, level, permits, start, attempt, scan, own, lastErr, history>>

-----------------------------------------------------------------------------
(* What surrounds the calls.                                                *)

Holding(c) == pc[c] \in {"inflight", "failover"}

\* Faulty variant: a dropped future keeps its permit.
CancelLeaksPermit(c) ==
  /\ pc[c] \in {"new", "select", "acquire", "inflight", "failover"}
  /\ Goto(c, "cancelled")
  /\ UNCHANGED <<counter, level, permits, progress, result, history>>

\* The caller drops the future at one of its await points.
Cancel(c) ==
  /\ pc[c] \in {"new", "select", "acquire", "inflight", "failover"}
  /\ IF Holding(c) THEN Release(Current(c)) ELSE UNCHANGED permits
  /\ Goto(c, "cancelled")
  /\ UNCHANGED <<counter, level, progress, result, history>>

\* Another transport of the process drives the throttle of a shared domain.
OtherTransport(d) ==
  /\ \E l \in Levels \ {level[d]} : level' = [level EXCEPT ![d] = l]
  /\ UNCHANGED <<counter, permits, pc, progress, result, history>>

Finished(c) == pc[c] \in {"returned", "cancelled"}
AllFinished == (\A c \in Calls : Finished(c)) /\ UNCHANGED vars

Step(c) ==
  \/ Begin(c) \/ Select(c) \/ PassOver(c) \/ Consider(c) \/ ScanPast(c)
  \/ Skip(c) \/ Keep(c) \/ Send(c) \/ Finish(c) \/ FailOver(c)
  \/ FailoverDelayOver(c) \/ EndRound(c)

Next ==
  \/ \E c \in Calls : Step(c) \/ Cancel(c)
  \/ \E d \in SharedDomains : OtherTransport(d)
  \/ AllFinished

\* The executor polls every woken task and an HTTP request ends by its timeout;
\* a tokio semaphore serves its waiters in order, hence strong fairness of Send.
Fairness == \A c \in Calls : WF_vars(Step(c)) /\ SF_vars(Send(c))

Spec     == Init /\ [][Next]_vars
FairSpec == Spec /\ Fairness
-----------------------------------------------------------------------------
(* Properties.                                                              *)

Labels == {"new", "select", "attempt", "scan", "acquire", "inflight",
           "failover", "returned", "cancelled"}

\* Type invariant: in particular a level never passes max_backoff_level and
\* an offset never leaves the rotation.
TypeOK ==
  /\ counter \in 0 .. CounterMod - 1
  /\ level   \in [Domains -> Levels]
  /\ permits \in [Endpoints -> Nat]
  /\ pc      \in [Calls -> Labels]
  /\ round   \in [Calls -> 0 .. MaxRetryRounds]
  /\ start   \in [Calls -> Endpoints]
  /\ attempt \in [Calls -> 0 .. NumEndpoints]
  /\ scan    \in [Calls -> 0 .. NumEndpoints]
  /\ own     \in [Calls -> Levels]
  /\ lastErr \in [Calls -> Replies \cup {NoError}]
  /\ result  \in [Calls -> Replies \cup {"pending", "exceeds_every_limit", "panic"}]
  /\ tries   \in [Calls -> [Endpoints -> Nat]]
  /\ skips   \in [Calls -> [Endpoints -> Nat]]

\* call() never reaches last_err.expect("at least one endpoint was tried") with
\* no error: however the throttles move between the reads, a round that ends
\* has sent the request to at least one endpoint.
NeverPanics == \A c \in Calls : result[c] # "panic"

\* On every path out of the loop body - a reply, an error, a failover pause, a
\* dropped future - exactly the permits of the calls at an endpoint are out.
Holders(e) == {c \in Calls : Holding(c) /\ Current(c) = e}
PermitsConserved ==
  \A e \in Endpoints :
    InFlightLimits[e] # Unlimited =>
      permits[e] + Cardinality(Holders(e)) = InFlightLimits[e]

\* No endpoint is visited twice in a rotation, whatever rounds and shared
\* counter do, so a call sends at most endpoints x (1 + max_retry_rounds).
VisitsBounded ==
  \A c \in Calls, e \in Endpoints : tries[c][e] + skips[c][e] <= round[c] + 1

\* A call gives up with a retryable error only after max_retry_rounds + 1 full
\* rotations, each of which sent to or deliberately skipped every endpoint
\* that accepts the request.
GivesUpAfterFullRotations ==
  \A c \in Calls :
    IsRetryable(result[c]) =>
      \A e \in Endpoints :
        Accepts(c, e) => tries[c][e] + skips[c][e] = MaxRetryRounds + 1

\* Between two wraps of the counter, every total_weight consecutive selections
\* - whichever calls make them - give each endpoint exactly its weight.
WeightedShare ==
  counter + TotalWeight <= CounterMod =>
    \A e \in Endpoints :
      Cardinality({k \in 0 .. TotalWeight - 1 :
                     SelectEndpoint((counter + k) % CounterMod) = e}) = Weights[e]

\* What README.md:360 says of retried errors: callers never see these unless
\* all endpoints fail.
SeenOnlyIfAllFail ==
  \A c \in Calls :
    IsRetryable(result[c]) =>
      \A e \in Endpoints : Accepts(c, e) => tries[c][e] > 0

\* The states of Upstream.
Status(c) == IF pc[c] \in {"new", "returned", "cancelled"} THEN pc[c] ELSE "open"
TimesSent(c) == FoldFunction(+, 0, tries[c])

\* Each call keeps the promise of Upstream, whatever the rounds, the skips, the
\* throttles and the other calls do: it refuses a request no endpoint takes
\* before sending it, sends any other at least once and at most
\* (max_retry_rounds + 1) * endpoints times, and returns what an endpoint
\* answered, after which nothing more is sent for it.
U == INSTANCE Upstream WITH
  Packets  <- Calls,
  Fits     <- {c \in Calls : \E e \in Endpoints : Accepts(c, e)},
  MaxSends <- (MaxRetryRounds + 1) * NumEndpoints,
  Answers  <- Replies,
  status   <- [c \in Calls |-> Status(c)],
  sent     <- [c \in Calls |-> TimesSent(c)],
  answer   <- result
ImplementsUpstream == U!Spec

\* Every call that is not dropped returns: no permit is ever lost and no call
\* waits for a permit for ever.
EveryCallReturns == \A c \in Calls : <>Finished(c)
=============================================================================
