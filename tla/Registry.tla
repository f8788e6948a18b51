------------------------------ MODULE Registry ------------------------------
(***************************************************************************)
(* How transports come into being: LoadBalancedTransportBuilder::build and *)
(* BatchingTransport::new (src/src/lib.rs, src/src/batching.rs), and the   *)
(* two process-wide registries they use, of throttle states (src/src/      *)
(* throttle.rs) and of HTTP clients (src/src/client_pool.rs).  A lookup    *)
(* takes the read lock, lets it go, and takes the write lock if the domain *)
(* was missing; what a thread does under a lock is one step.  A program may *)
(* also ask domain_throttle for a domain by its name.                      *)
(***************************************************************************)
EXTENDS Integers, FiniteSets, Sequences, Configuration

CONSTANTS
  Threads,       \* the threads that create transports
  ProgramOf,     \* thread -> what it does, in order: transports and lookups
  InRuntime      \* the threads that run inside a tokio runtime

ASSUME RegistryAssumption ==
  /\ ProgramOf \in [Threads -> Seq([do: {"create"}, with: Builders]
                                   \cup [do: {"look_up"}, with: Hosts])]
  /\ \A t \in Threads : ProgramOf[t] # <<>>
  /\ InRuntime \subseteq Threads

Kinds == {"throttle", "client"}
FirstDefault == [throttle |-> DefaultThrottleConfig, client |-> DefaultHttpClientConfig]
InsertLabel == [throttle |-> "insert_throttle", client |-> "insert_client"]
NoEntry == [config |-> None, number |-> 0]

\* The domains of all endpoints and lookups.
Steps(do) == UNION {{ProgramOf[t][n].with :
  n \in {n \in DOMAIN ProgramOf[t] : ProgramOf[t][n].do = do}} : t \in Threads}
Domains == Steps("look_up") \cup
  UNION {{RateLimitDomainOf(b.endpoints[i].host) : i \in DOMAIN b.endpoints} :
           b \in {b \in Steps("create") : b.endpoints # None}}

VARIABLES
  default,  \* kind -> default_config
  entries,  \* kind -> domain -> its state or client, or NoEntry
  pc,       \* thread -> where it is
  nth,      \* thread -> the step of its program it is at
  making,   \* thread -> the vectors build() fills, one element per endpoint
  built,    \* thread -> step -> the vectors of the transport it finished there
  found,    \* thread -> domain -> the state it has for a domain it looked up
  overtaken \* history: thread -> defaults another thread has set since it set its own

registryVars == <<default, entries, pc, nth, making, built, found, overtaken>>

\* A LoadBalancedTransport in the making: its vectors, one element per endpoint.
Nothing == [cumulative |-> <<>>, client |-> <<>>, throttle |-> <<>>,
            request_caps |-> <<>>, in_flight |-> <<>>]
Given(t) == ProgramOf[t][nth[t]].with

\* The endpoint the loop is at, and its domain.
Index(t)    == Len(making[t].cumulative) + 1
Endpoint(t) == Given(t).endpoints[Index(t)]
LooksUp(t)  == ProgramOf[t][nth[t]].do = "look_up"
Domain(t)   == IF LooksUp(t) THEN Given(t) ELSE RateLimitDomainOf(Endpoint(t).host)
Goto(t, label) == pc' = [pc EXCEPT ![t] = label]

\* Function f with value v at a, where it may not have had any.
With(f, a, v) == [b \in DOMAIN f \cup {a} |-> IF b = a THEN v ELSE f[b]]

\* Where a step starts: a transport with its builder, or with its wrapping.
FirstStep(t, n) ==
  IF n > Len(ProgramOf[t]) THEN "done"
  ELSE IF ProgramOf[t][n].do = "look_up" THEN "look_up"
  ELSE IF ProgramOf[t][n].with.endpoints = None THEN "wrap" ELSE "throttle_config"
StepOver(t) ==
  /\ nth' = [nth EXCEPT ![t] = @ + 1]
  /\ Goto(t, FirstStep(t, nth[t] + 1))

Init ==
  /\ default = FirstDefault
  /\ entries = [k \in Kinds |-> [d \in Domains |-> NoEntry]]
  /\ pc     = [t \in Threads |-> FirstStep(t, 1)]
  /\ nth    = [t \in Threads |-> 1]
  /\ making = [t \in Threads |-> Nothing]
  /\ built  = [t \in Threads |-> <<>>]
  /\ found  = [t \in Threads |-> <<>>]
  /\ overtaken = [t \in Threads |-> {}]

\* Faulty variant: a default is set once only.
SetDefaultOnce(t, k) ==
  /\ default' = IF Given(t)[k] = None \/ default[k] # FirstDefault[k] THEN default
                ELSE [default EXCEPT ![k] = Given(t)[k]]
  /\ UNCHANGED <<entries, nth, making, built, found, overtaken>>

\* A process-wide default is replaced where the builder was given another.
SetDefault(t, k) ==
  /\ default' = IF Given(t)[k] = None THEN default
                ELSE [default EXCEPT ![k] = Given(t)[k]]
  /\ overtaken' = IF Given(t)[k] = None THEN overtaken
                  ELSE [u \in Threads |-> IF u = t THEN overtaken[u] \ {k}
                                          ELSE overtaken[u] \cup {k}]
  /\ UNCHANGED <<entries, nth, making, built, found>>

\* set_default_throttle_config, then set_default_http_client_config.
SetThrottleConfig(t) ==
  pc[t] = "throttle_config" /\ SetDefault(t, "throttle") /\ Goto(t, "client_config")
SetClientConfig(t) ==
  pc[t] = "client_config" /\ SetDefault(t, "client") /\ Goto(t, "endpoint")

\* Faulty variant: in-flight limits are not checked.
ValidIfIdle(e) == e.weight > 0 /\ e.max_request_bytes # 0

\* The assertions of build() on an endpoint.
Valid(e) == e.weight > 0 /\ e.max_request_bytes # 0 /\ e.max_in_flight # 0
MoreEndpoints(t) == Index(t) <= Len(Given(t).endpoints)

\* The next element of cumulative: total is their last so far.
Total(s) == IF s = <<>> THEN 0 ELSE s[Len(s)]

\* domain_throttle returns the state of the domain that was looked up.
Hold(t, entry) ==
  /\ found' = [found EXCEPT ![t] = With(@, Domain(t), entry)]
  /\ StepOver(t)
  /\ UNCHANGED making

\* With its client and throttle the endpoint is complete.
Obtain(t, k, entry) ==
  /\ IF k = "client"
     THEN /\ making' = [making EXCEPT ![t].client = Append(@, entry)]
          /\ Goto(t, "throttle")
     ELSE /\ making' = [making EXCEPT
               ![t].throttle = Append(@, entry),
               ![t].request_caps = Append(@, Endpoint(t).max_request_bytes),
               ![t].in_flight = Append(@, Endpoint(t).max_in_flight),
               ![t].cumulative = Append(@, Total(@) + Endpoint(t).weight)]
          /\ Goto(t, "endpoint")
  /\ UNCHANGED <<nth, found>>

\* What a thread does with the entry it was looking for.
Take(t, k, entry) == IF LooksUp(t) THEN Hold(t, entry) ELSE Obtain(t, k, entry)

\* throttles_by_domain: earlier endpoints of this transport in the domain.
Earlier(t) == {i \in 1 .. Index(t) - 1 :
                 RateLimitDomainOf(Given(t).endpoints[i].host) = Domain(t)}

\* An earlier endpoint has the same domain.
Reuse(t) ==
  /\ pc[t] = "throttle"
  /\ \E i \in Earlier(t) : Obtain(t, "throttle", making[t].throttle[i])
  /\ UNCHANGED <<default, entries, built, overtaken>>

\* The read lock: the domain is found, or is to be inserted.
Lookup(t, k) ==
  /\ IF entries[k][Domain(t)] # NoEntry
     THEN Take(t, k, entries[k][Domain(t)])
     ELSE Goto(t, InsertLabel[k]) /\ UNCHANGED <<making, nth, found>>
  /\ UNCHANGED <<default, entries, built, overtaken>>

LookupClient(t) ==
  /\ pc[t] = "endpoint" /\ MoreEndpoints(t) /\ Valid(Endpoint(t))
  /\ Lookup(t, "client")
LookupThrottle(t) == pc[t] = "throttle" /\ Earlier(t) = {} /\ Lookup(t, "throttle")
\* domain_throttle, called with a name.
LookupNamed(t) == pc[t] = "look_up" /\ Lookup(t, "throttle")

\* A new state or client of domain d, told apart from an earlier one.
New(k, d) == [config |-> default[k], number |-> entries[k][d].number + 1]

\* Faulty variant: whoever comes second replaces the entry of the first.
InsertOver(t, k) ==
  /\ entries' = [entries EXCEPT ![k][Domain(t)] = New(k, Domain(t))]
  /\ Take(t, k, entries'[k][Domain(t)])
  /\ UNCHANGED <<default, built, overtaken>>

\* The write lock: or_insert_with keeps what another thread has inserted since.
Insert(t, k) ==
  /\ entries' = IF entries[k][Domain(t)] # NoEntry THEN entries
                ELSE [entries EXCEPT ![k][Domain(t)] = New(k, Domain(t))]
  /\ Take(t, k, entries'[k][Domain(t)])
  /\ UNCHANGED <<default, built, overtaken>>

InsertClient(t)   == pc[t] = "insert_client" /\ Insert(t, "client")
InsertThrottle(t) == pc[t] = "insert_throttle" /\ Insert(t, "throttle")

\* A panic ends the thread; what was set and registered before stays.
Panic(t) ==
  /\ Goto(t, "panicked")
  /\ UNCHANGED <<default, entries, nth, making, built, found, overtaken>>

AssertionFails(t) ==
  /\ pc[t] = "endpoint"
  /\ Given(t).endpoints = <<>> \/ (MoreEndpoints(t) /\ ~Valid(Endpoint(t)))
  /\ Panic(t)

\* The client cannot be built: the write lock held meanwhile is poisoned, which
\* the threads after this one ignore.
ClientFails(t) ==
  /\ pc[t] = "insert_client" /\ entries["client"][Domain(t)] = NoEntry
  /\ Panic(t)

\* Behind the loop: the transport is made of the vectors.
Finish(t) ==
  /\ pc[t] = "endpoint" /\ ~MoreEndpoints(t) /\ Given(t).endpoints # <<>>
  /\ built'  = [built EXCEPT ![t] = With(@, nth[t], making[t])]
  /\ making' = [making EXCEPT ![t] = Nothing]
  /\ Goto(t, "wrap")
  /\ UNCHANGED <<default, entries, nth, found, overtaken>>

\* BatchingTransport::new asserts its batch size and spawns the flush loop on the
\* current runtime; spawn panics where there is none.
CanWrap(t) == Given(t).batching.max_batch_size # 0 /\ t \in InRuntime
Wrap(t) ==
  /\ pc[t] = "wrap"
  /\ IF Given(t).batching = None \/ CanWrap(t)
     THEN StepOver(t)
     ELSE Goto(t, "panicked") /\ UNCHANGED nth
  /\ UNCHANGED <<default, entries, making, built, found, overtaken>>

AllBuilt == (\A t \in Threads : pc[t] \in {"done", "panicked"}) /\ UNCHANGED registryVars

Create(t) ==
  \/ SetThrottleConfig(t) \/ SetClientConfig(t)
  \/ LookupClient(t) \/ InsertClient(t) \/ ClientFails(t)
  \/ LookupThrottle(t) \/ LookupNamed(t) \/ Reuse(t) \/ InsertThrottle(t)
  \/ AssertionFails(t) \/ Finish(t) \/ Wrap(t)
RegistryNext == (\E t \in Threads : Create(t)) \/ AllBuilt
RegistrySpec == Init /\ [][RegistryNext]_registryVars
-----------------------------------------------------------------------------
(* Properties. *)

\* Type invariant: a state or client is made at most once for each domain.
RegistryTypeOK ==
  /\ default \in [Kinds -> ThrottleConfigs \cup HttpClientConfigs]
  /\ \A k \in Kinds, d \in Domains :
       entries[k][d] # NoEntry => entries[k][d].number = 1
  /\ \A t \in Threads : nth[t] \in 1 .. Len(ProgramOf[t]) + 1

\* The throttle and client of each endpoint are those registered for its domain.
HoldsRegistered(vectors, endpoints) ==
  /\ \A i \in DOMAIN vectors.throttle :
       vectors.throttle[i] = entries["throttle"][RateLimitDomainOf(endpoints[i].host)]
  /\ \A i \in DOMAIN vectors.client :
       vectors.client[i] = entries["client"][RateLimitDomainOf(endpoints[i].host)]

\* "Endpoints on the same domain share throttle state and HTTP clients"
\* (multi_chain.rs:3): in every transport of every thread, finished or in the
\* making, the endpoints of a domain hold the one state and client registered
\* for it, however the lookups and insertions of the threads interleave, and so
\* does a program that looked the domain up by its name.
OnePerDomain ==
  \A t \in Threads :
    /\ \A n \in DOMAIN built[t] :
         HoldsRegistered(built[t][n], ProgramOf[t][n].with.endpoints)
    /\ making[t] # Nothing => HoldsRegistered(making[t], Given(t).endpoints)
    /\ \A d \in DOMAIN found[t] : found[t][d] = entries["throttle"][d]

\* The vectors have an element for each endpoint, weights grow from bucket to
\* bucket, and limits let something through.
Usable(vectors, endpoints) ==
  /\ endpoints # <<>>
  /\ \A f \in DOMAIN vectors : DOMAIN vectors[f] = DOMAIN endpoints
  /\ \A i \in DOMAIN endpoints :
       /\ vectors.cumulative[i] > IF i = 1 THEN 0 ELSE vectors.cumulative[i - 1]
       /\ vectors.request_caps[i] # 0 /\ vectors.in_flight[i] # 0

\* A transport that is finished has all that a call relies on (ConfigAssumption
\* of module Balancer); a builder that panics half way leaves none behind that has
\* not.
FinishedIsUsable ==
  \A t \in Threads : \A n \in DOMAIN built[t] :
    Usable(built[t][n], ProgramOf[t][n].with.endpoints)

\* A builder sets a process-wide default and looks its domains up later
\* (lib.rs:255): the entry its lookup inserts for a domain that has none yet has the
\* configuration it was given, unless another builder has set its own in between.
OwnConfigUnlessOvertaken ==
  [][\A t \in Threads, k \in Kinds :
       /\ pc[t] = InsertLabel[k] /\ entries' # entries /\ pc'[t] # pc[t]
       /\ ~LooksUp(t) /\ Given(t)[k] # None /\ k \notin overtaken[t]
       => entries'[k][Domain(t)].config = Given(t)[k]]_registryVars
=============================================================================
