---------------------------- MODULE Configuration ----------------------------
(***************************************************************************)
(* What a program gives the crate to make transports: configurations with  *)
(* their defaults, endpoints, and LoadBalancedTransportBuilder (src/src/   *)
(* lib.rs, throttle.rs, client_pool.rs, batching.rs).  Durations are in    *)
(* milliseconds.                                                           *)
(***************************************************************************)
EXTENDS Integers, Sequences, RateLimitDomain

CONSTANT None   \* an option that is not given

ASSUME NoneAssumption == None \notin Nat

ThrottleConfigs ==
  [max_backoff_level: Nat, recovery_threshold: Nat, decay_interval_ms: Nat,
   backoff_table: Seq(Nat)]
DefaultThrottleConfig ==
  [max_backoff_level |-> 5, recovery_threshold |-> 5, decay_interval_ms |-> 10000,
   backoff_table |-> <<0, 50, 150, 400, 1000, 2000>>]

\* What pre_request_delay makes of the level it has loaded: its entry of
\* backoff_table, or two seconds where the table is too short.
DelayOf(config, level) ==
  LET idx == IF level <= config.max_backoff_level THEN level
             ELSE config.max_backoff_level
  IN IF idx < Len(config.backoff_table) THEN config.backoff_table[idx + 1] ELSE 2000

HttpClientConfigs ==
  [pool_max_idle_per_host: Nat, pool_idle_timeout: Nat, tcp_keepalive: Nat,
   connect_timeout: Nat, request_timeout: Nat, gzip: BOOLEAN]
DefaultHttpClientConfig ==
  [pool_max_idle_per_host |-> 8, pool_idle_timeout |-> 90000, tcp_keepalive |-> 30000,
   connect_timeout |-> 10000, request_timeout |-> 30000, gzip |-> FALSE]

BalancerConfigs ==
  [max_retry_rounds: Nat, initial_backoff: Nat, max_backoff: Nat,
   rate_limit_failover_delay: Nat, heavy_throttle_threshold: Nat]
DefaultBalancerConfig ==
  [max_retry_rounds |-> 3, initial_backoff |-> 100, max_backoff |-> 4000,
   rate_limit_failover_delay |-> 75, heavy_throttle_threshold |-> 500]

\* The rejection callback is left to the modules that call it.
BatchingConfigs ==
  [max_batch_size: Nat, flush_interval: Nat, max_missing_retries: Nat]
DefaultBatchingConfig ==
  [max_batch_size |-> 150, flush_interval |-> 1, max_missing_retries |-> 2]

(* Endpoints *)
EndpointConfigs ==
  [host: Hosts, weight: Nat, max_request_bytes: Nat \cup {None},
   max_in_flight: Nat \cup {None}]
NewEndpoint(host, weight) ==
  [host |-> host, weight |-> weight, max_request_bytes |-> None, max_in_flight |-> None]
WithMaxRequestBytes(endpoint, bytes) == [endpoint EXCEPT !.max_request_bytes = bytes]
WithMaxInFlight(endpoint, limit) == [endpoint EXCEPT !.max_in_flight = limit]
DefaultWeight == 100

(* The builder, and what is wrapped in a BatchingTransport if batching is given *)
Builders ==
  [endpoints: Seq(EndpointConfigs) \cup {None}, config: BalancerConfigs,
   throttle: ThrottleConfigs \cup {None}, client: HttpClientConfigs \cup {None},
   batching: BatchingConfigs \cup {None}]
BuilderWithEndpoints(endpoints) ==
  [endpoints |-> endpoints, config |-> DefaultBalancerConfig,
   throttle |-> None, client |-> None, batching |-> None]
\* A builder of (url, weight) pairs.
EndpointFrom(pair) == NewEndpoint(pair[1], pair[2])
Builder(pairs) == BuilderWithEndpoints([i \in DOMAIN pairs |-> EndpointFrom(pairs[i])])
WithConfig(builder, config)           == [builder EXCEPT !.config = config]
WithThrottleConfig(builder, config)   == [builder EXCEPT !.throttle = config]
WithHttpClientConfig(builder, config) == [builder EXCEPT !.client = config]
Batched(builder, config)              == [builder EXCEPT !.batching = config]
\* A transport of another kind, such as a plain HTTP one, batched.
BatchedPlain(config) == Batched(BuilderWithEndpoints(None), config)
==============================================================================
