------------------------------ MODULE Examples ------------------------------
(***************************************************************************)
(* The transports the programs under src/examples create.                  *)
(***************************************************************************)
EXTENDS Configuration

LlamaRpc == <<"eth", "llamarpc", "com">>
Ankr     == <<"rpc", "ankr", "com">>
Drpc     == <<"lb", "drpc", "org">>
AlchemyEthereum == <<"eth-mainnet", "g", "alchemy", "com">>
AlchemyArbitrum == <<"arb-mainnet", "g", "alchemy", "com">>
AlchemyBase     == <<"base-mainnet", "g", "alchemy", "com">>
HostLabels == UNION {{h[i] : i \in DOMAIN h} :
  h \in {LlamaRpc, Ankr, Drpc, AlchemyEthereum, AlchemyArbitrum, AlchemyBase}}

\* basic.rs
Basic == <<Batched(Builder(<<<<LlamaRpc, DefaultWeight>>, <<Ankr, DefaultWeight>>>>),
                   DefaultBatchingConfig)>>

\* batching_only.rs
BatchingOnly == <<BatchedPlain([DefaultBatchingConfig EXCEPT
                                  !.max_batch_size = 50, !.flush_interval = 5])>>

\* custom_config.rs
CustomConfig ==
  LET endpoints == <<<<LlamaRpc, 150>>, <<Ankr, 100>>>>
      balancer  == [DefaultBalancerConfig EXCEPT
                      !.max_retry_rounds = 5, !.initial_backoff = 50, !.max_backoff = 2000]
      throttle  == [DefaultThrottleConfig EXCEPT !.recovery_threshold = 20]
      client    == [DefaultHttpClientConfig EXCEPT
                      !.connect_timeout = 5000, !.request_timeout = 10000,
                      !.pool_max_idle_per_host = 16, !.gzip = TRUE]
  IN <<WithHttpClientConfig(WithThrottleConfig(WithConfig(
         Builder(endpoints), balancer), throttle), client)>>

\* multi_chain.rs: a transport for each chain.
MultiChain ==
  LET chain(endpoints) == Batched(Builder(endpoints), DefaultBatchingConfig)
  IN <<chain(<<<<AlchemyEthereum, 100>>, <<Drpc, 50>>>>),
       chain(<<<<AlchemyArbitrum, 100>>, <<Drpc, 50>>>>),
       chain(<<<<AlchemyBase, 100>>>>)>>

\* observability.rs
Watched == <<Builder(<<<<AlchemyEthereum, DefaultWeight>>, <<Drpc, DefaultWeight>>>>)>>
\* The domains it asks for by name: those of its endpoints.
WatchedNames == <<<<"alchemy", "com">>, <<"drpc", "org">>>>
=============================================================================
