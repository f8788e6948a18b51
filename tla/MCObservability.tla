--------------------------- MODULE MCObservability ---------------------------
(* Two programs like those of the examples in one process, and an observer.  *)
EXTENDS Observability, Examples, TLC

CONSTANTS chains, custom, o1

TwoThreads  == {chains, custom}
OneObserver == {o1}

\* The first chain of multi_chain.rs, with the throttle and client configurations of
\* custom_config.rs.
Chain == WithHttpClientConfig(WithThrottleConfig(MultiChain[1], CustomConfig[1].throttle),
                              CustomConfig[1].client)
\* A backoff table that is short of an entry.
ShortTable == [DefaultThrottleConfig EXCEPT !.max_backoff_level = 1,
                                            !.backoff_table = <<0>>]
\* The configurations of custom_config.rs for endpoints of the same providers,
\* the last of which fails an assertion of build().
Endpoints == <<NewEndpoint(AlchemyArbitrum, 1), WithMaxInFlight(NewEndpoint(Drpc, 1), 0)>>
Custom == WithThrottleConfig(BuilderWithEndpoints(Endpoints), ShortTable)

\* A program asks for the domain both chains have in common, as observability.rs
\* does.  The main function of multi_chain.rs is not async: the wrapping fails there.
Creates(builder) == [do |-> "create", with |-> builder]
LooksFor(name)   == [do |-> "look_up", with |-> name]
Programs ==
  (chains :> <<LooksFor(WatchedNames[1]), Creates(Chain)>>) @@
  (custom :> <<Creates(BatchingOnly[1]), Creates(Custom)>>)
Async == {custom}
==============================================================================
