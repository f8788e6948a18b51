--------------------------- MODULE RegistryProofs ---------------------------
(* Theorems about Registry and Observability, for any number of threads, any *)
(* programs and any number of observers.                                     *)
EXTENDS Observability, SequenceTheorems, TLAPS

Configs == ThrottleConfigs \cup HttpClientConfigs
Entry   == [config: Configs, number: {1}] \cup {NoEntry}
Limit   == Nat \cup {None}
Vectors == [cumulative: Seq(Nat), client: Seq(Entry), throttle: Seq(Entry),
            request_caps: Seq(Limit), in_flight: Seq(Limit)]
Places  == {"look_up", "wrap", "throttle_config", "client_config", "endpoint",
            "insert_client", "throttle", "insert_throttle", "panicked", "done"}

Types ==
  /\ default \in [Kinds -> Configs]
  /\ entries \in [Kinds -> [Domains -> Entry]]
  /\ pc \in [Threads -> Places]
  /\ nth \in [Threads -> Nat \ {0}]
  /\ making \in [Threads -> Vectors]
  /\ DOMAIN built = Threads /\ DOMAIN found = Threads

\* Thread t is at an endpoint that has its client, or not yet.
NeedsThrottle(t) == pc[t] = "throttle" \/ (pc[t] = "insert_throttle" /\ ~LooksUp(t))
AtEndpoint(t)    == pc[t] = "insert_client" \/ NeedsThrottle(t)

\* Where a thread may be in its program.
Control(t) ==
  /\ pc[t] = "done" => nth[t] = Len(ProgramOf[t]) + 1
  /\ pc[t] # "done" => nth[t] \in DOMAIN ProgramOf[t]
  /\ pc[t] = "look_up" => LooksUp(t)
  /\ pc[t] \in {"throttle_config", "client_config", "endpoint"} \/ AtEndpoint(t) =>
       ~LooksUp(t) /\ Given(t).endpoints # None
  /\ AtEndpoint(t) => MoreEndpoints(t) /\ Valid(Endpoint(t))

\* The vectors are filled evenly, and only while endpoints are gone through.
Even(v, more) ==
  /\ Len(v.throttle) = Len(v.cumulative)
  /\ Len(v.request_caps) = Len(v.cumulative)
  /\ Len(v.in_flight) = Len(v.cumulative)
  /\ Len(v.client) = Len(v.cumulative) + more
Filling(t) ==
  /\ Even(making[t], IF NeedsThrottle(t) THEN 1 ELSE 0)
  /\ \/ making[t] = Nothing
     \/ /\ pc[t] \in {"endpoint", "panicked"} \/ AtEndpoint(t)
        /\ ~LooksUp(t) /\ Given(t).endpoints # None
        /\ Len(making[t].cumulative) <= Len(Given(t).endpoints)

\* With registry E, the entry is the one registered for the domain.
Held(E, entry, k, d) == d \in Domains /\ entry = E[k][d] /\ entry # NoEntry
AllHeld(E, v, endpoints) ==
  /\ \A i \in 1 .. Len(v.throttle) :
       Held(E, v.throttle[i], "throttle", RateLimitDomainOf(endpoints[i].host))
  /\ \A i \in 1 .. Len(v.client) :
       Held(E, v.client[i], "client", RateLimitDomainOf(endpoints[i].host))
\* What Usable says of the endpoints there are so far.
UsableSoFar(v) ==
  \A i \in 1 .. Len(v.cumulative) :
    /\ v.cumulative[i] > IF i = 1 THEN 0 ELSE v.cumulative[i - 1]
    /\ v.request_caps[i] # 0 /\ v.in_flight[i] # 0

\* What thread t is making, has finished, and has found.
MakingGood(t) ==
  /\ making[t] # Nothing => AllHeld(entries, making[t], Given(t).endpoints)
  /\ UsableSoFar(making[t])
Finished(v, endpoints) ==
  /\ v \in Vectors /\ Even(v, 0) /\ UsableSoFar(v)
  /\ endpoints # <<>> /\ Len(v.cumulative) = Len(endpoints)
BuiltGood(t) ==
  \A n \in DOMAIN built[t] :
    /\ n \in DOMAIN ProgramOf[t]
    /\ ProgramOf[t][n].do = "create" /\ ProgramOf[t][n].with.endpoints # None
    /\ Finished(built[t][n], ProgramOf[t][n].with.endpoints)
    /\ AllHeld(entries, built[t][n], ProgramOf[t][n].with.endpoints)
FoundGood(t) == \A d \in DOMAIN found[t] : Held(entries, found[t][d], "throttle", d)

ThreadInv(t) ==
  Control(t) /\ Filling(t) /\ MakingGood(t) /\ BuiltGood(t) /\ FoundGood(t)

RegistryInv == Types /\ \A t \in Threads : ThreadInv(t)

-----------------------------------------------------------------------------
(* What programs consist of.                                                 *)

LEMMA StepTypes ==
  ASSUME NEW t \in Threads, NEW n \in DOMAIN ProgramOf[t]
  PROVE  /\ ProgramOf[t][n].do \in {"create", "look_up"}
         /\ ProgramOf[t][n].do = "create" => ProgramOf[t][n].with \in Builders
         /\ ProgramOf[t][n].do = "look_up" => ProgramOf[t][n].with \in Hosts
<1> DEFINE S == [do: {"create"}, with: Builders] \cup [do: {"look_up"}, with: Hosts]
<1>1. ProgramOf[t] \in Seq(S)
  BY RegistryAssumption
<1>2. ProgramOf[t][n] \in S
  <2> HIDE DEF S
  <2> QED
    BY <1>1, ElementOfSeq, LenProperties
<1> QED
  BY <1>2

LEMMA ProgramLength ==
  ASSUME NEW t \in Threads
  PROVE  /\ Len(ProgramOf[t]) \in Nat \ {0}
         /\ DOMAIN ProgramOf[t] = 1 .. Len(ProgramOf[t])
<1> DEFINE S == [do: {"create"}, with: Builders] \cup [do: {"look_up"}, with: Hosts]
<1>1. ProgramOf[t] \in Seq(S) /\ ProgramOf[t] # <<>>
  BY RegistryAssumption
<1> HIDE DEF S
<1> QED
  BY <1>1, LenProperties, EmptySeq

\* An endpoint of a builder.
LEMMA EndpointTypes ==
  ASSUME NEW b \in Builders, b.endpoints # None, NEW i \in 1 .. Len(b.endpoints)
  PROVE  /\ Len(b.endpoints) \in Nat
         /\ DOMAIN b.endpoints = 1 .. Len(b.endpoints)
         /\ b.endpoints[i].host \in Hosts
         /\ b.endpoints[i].weight \in Nat
         /\ b.endpoints[i].max_request_bytes \in Limit
         /\ b.endpoints[i].max_in_flight \in Limit
<1>1. b.endpoints \in Seq(EndpointConfigs)
  BY DEF Builders
<1>2. b.endpoints[i] \in EndpointConfigs
  BY <1>1, ElementOfSeq
<1> QED
  BY <1>1, <1>2, LenProperties DEF EndpointConfigs, Limit

\* The domain a thread looks up is one of Domains.
LEMMA DomainKnown ==
  ASSUME NEW t \in Threads, nth[t] \in DOMAIN ProgramOf[t],
         LooksUp(t) \/ (Given(t).endpoints # None /\ MoreEndpoints(t)
                        /\ Len(making[t].cumulative) \in Nat)
  PROVE  Domain(t) \in Domains
<1> DEFINE n == nth[t]
<1>1. CASE LooksUp(t)
  <2>1. n \in {m \in DOMAIN ProgramOf[t] : ProgramOf[t][m].do = "look_up"}
    BY <1>1 DEF LooksUp
  <2>2. Given(t) \in Steps("look_up")
    BY <2>1 DEF Given, Steps
  <2> QED
    BY <1>1, <2>2 DEF Domain, Domains
<1>2. CASE ~LooksUp(t)
  <2>1. ProgramOf[t][n].do = "create" /\ Given(t) \in Builders
    BY <1>2, StepTypes DEF LooksUp, Given
  <2>2. Given(t) \in {b \in Steps("create") : b.endpoints # None}
    <3>1. n \in {m \in DOMAIN ProgramOf[t] : ProgramOf[t][m].do = "create"}
      BY <2>1
    <3> QED
      BY <1>2, <3>1 DEF Given, Steps
  <2>3. Index(t) \in DOMAIN Given(t).endpoints
    <3>1. Index(t) \in 1 .. Len(Given(t).endpoints)
      BY <1>2, <2>1 DEF Index, MoreEndpoints, Builders
    <3> QED
      BY <1>2, <2>1, <3>1, EndpointTypes
  <2>4. RateLimitDomainOf(Given(t).endpoints[Index(t)].host) \in
          {RateLimitDomainOf(Given(t).endpoints[i].host) : i \in DOMAIN Given(t).endpoints}
    BY <2>3
  <2> QED
    BY <1>2, <2>2, <2>4 DEF Domain, Domains, Endpoint
<1> QED
  BY <1>1, <1>2

\* Types of what a builder is given.
LEMMA DefaultTypes ==
  /\ FirstDefault \in [Kinds -> Configs]
  /\ \A b \in Builders, k \in Kinds : b[k] # None => b[k] \in Configs
<1>1. DefaultThrottleConfig \in Configs
  BY DEF DefaultThrottleConfig, Configs, ThrottleConfigs
<1>2. DefaultHttpClientConfig \in Configs
  BY DEF DefaultHttpClientConfig, Configs, HttpClientConfigs
<1>3. FirstDefault \in [Kinds -> Configs]
  BY <1>1, <1>2 DEF FirstDefault, Kinds
<1>4. ASSUME NEW b \in Builders, NEW k \in Kinds, b[k] # None PROVE b[k] \in Configs
  BY <1>4 DEF Builders, Kinds, Configs
<1> QED
  BY <1>3, <1>4

-----------------------------------------------------------------------------
(* Vectors and the registry.                                                 *)

\* The registry only grows from E to F.
GrowsTo(E, F) ==
  \A k \in Kinds, d \in Domains : E[k][d] # NoEntry => F[k][d] = E[k][d]

LEMMA HeldKept ==
  ASSUME NEW E, NEW F, GrowsTo(E, F), NEW e, NEW k \in Kinds, NEW d, Held(E, e, k, d)
  PROVE  Held(F, e, k, d)
BY DEF GrowsTo, Held

LEMMA AllHeldKept ==
  ASSUME NEW E, NEW F, GrowsTo(E, F), NEW v, NEW endpoints, AllHeld(E, v, endpoints)
  PROVE  AllHeld(F, v, endpoints)
BY HeldKept DEF AllHeld, Kinds

LEMMA NothingIsEven ==
  /\ Nothing \in Vectors /\ Even(Nothing, 0) /\ UsableSoFar(Nothing)
  /\ \A E, endpoints : AllHeld(E, Nothing, endpoints)
<1>1. Nothing \in Vectors
  BY EmptySeq DEF Nothing, Vectors
<1>2. /\ Len(Nothing.cumulative) = 0 /\ Len(Nothing.client) = 0
      /\ Len(Nothing.throttle) = 0 /\ Len(Nothing.request_caps) = 0
      /\ Len(Nothing.in_flight) = 0
  BY EmptySeq DEF Nothing
<1> QED
  BY <1>1, <1>2 DEF Even, UsableSoFar, AllHeld

\* An endpoint obtains its client.
LEMMA AddClient ==
  ASSUME NEW v \in Vectors, Even(v, 0), UsableSoFar(v), NEW E, NEW endpoints,
         AllHeld(E, v, endpoints), NEW e \in Entry,
         Held(E, e, "client", RateLimitDomainOf(endpoints[Len(v.cumulative) + 1].host)),
         NEW w, w = [v EXCEPT !.client = Append(@, e)]
  PROVE  /\ w \in Vectors /\ Even(w, 1) /\ UsableSoFar(w) /\ AllHeld(E, w, endpoints)
         /\ w.cumulative = v.cumulative
<1>1. /\ w.client = Append(v.client, e) /\ w.cumulative = v.cumulative
      /\ w.throttle = v.throttle /\ w.request_caps = v.request_caps
      /\ w.in_flight = v.in_flight
  BY DEF Vectors
<1>2. v.client \in Seq(Entry) /\ v.cumulative \in Seq(Nat)
  BY DEF Vectors
<1>3. /\ w.client \in Seq(Entry) /\ Len(w.client) = Len(v.client) + 1
      /\ \A i \in 1 .. Len(v.client) : w.client[i] = v.client[i]
      /\ w.client[Len(v.client) + 1] = e
      /\ Len(v.client) \in Nat
  BY <1>1, <1>2, AppendProperties, LenProperties
<1>4. w \in Vectors
  BY <1>1, <1>3 DEF Vectors
<1>5. Even(w, 1) /\ UsableSoFar(w)
  BY <1>1, <1>3 DEF Even, UsableSoFar
<1>6. AllHeld(E, w, endpoints)
  BY <1>1, <1>3 DEF AllHeld, Even
<1> QED
  BY <1>1, <1>4, <1>5, <1>6

\* With its throttle the endpoint is complete.
LEMMA AddThrottle ==
  ASSUME NEW v \in Vectors, Even(v, 1), UsableSoFar(v), NEW E, NEW endpoints,
         AllHeld(E, v, endpoints), NEW e \in Entry,
         Held(E, e, "throttle", RateLimitDomainOf(endpoints[Len(v.cumulative) + 1].host)),
         NEW at, at.weight \in Nat, Valid(at),
         at.max_request_bytes \in Limit, at.max_in_flight \in Limit,
         NEW w \in Vectors, w.client = v.client, w.throttle = Append(v.throttle, e),
         w.request_caps = Append(v.request_caps, at.max_request_bytes),
         w.in_flight = Append(v.in_flight, at.max_in_flight),
         w.cumulative = Append(v.cumulative, Total(v.cumulative) + at.weight)
  PROVE  /\ Even(w, 0) /\ UsableSoFar(w) /\ AllHeld(E, w, endpoints)
         /\ Len(w.cumulative) = Len(v.cumulative) + 1
<1> DEFINE n == Len(v.cumulative)
<1>1. /\ v.throttle \in Seq(Entry) /\ v.cumulative \in Seq(Nat)
      /\ v.request_caps \in Seq(Limit) /\ v.in_flight \in Seq(Limit)
  BY DEF Vectors
<1>2. /\ Len(v.throttle) = n /\ Len(v.request_caps) = n /\ Len(v.in_flight) = n
      /\ Len(v.client) = n + 1 /\ n \in Nat
  BY <1>1, LenProperties DEF Even
<1>3. Total(v.cumulative) \in Nat /\ Total(v.cumulative) = IF n = 0 THEN 0 ELSE v.cumulative[n]
  BY <1>1, <1>2, EmptySeq, ElementOfSeq DEF Total
<1>4. /\ Len(w.throttle) = n + 1 /\ w.throttle[n + 1] = e
      /\ \A i \in 1 .. n : w.throttle[i] = v.throttle[i]
  BY <1>1, <1>2, AppendProperties
<1>5. /\ Len(w.request_caps) = n + 1 /\ w.request_caps[n + 1] = at.max_request_bytes
      /\ \A i \in 1 .. n : w.request_caps[i] = v.request_caps[i]
  BY <1>1, <1>2, AppendProperties
<1>6. /\ Len(w.in_flight) = n + 1 /\ w.in_flight[n + 1] = at.max_in_flight
      /\ \A i \in 1 .. n : w.in_flight[i] = v.in_flight[i]
  BY <1>1, <1>2, AppendProperties
<1>7. /\ Len(w.cumulative) = n + 1 /\ w.cumulative[n + 1] = Total(v.cumulative) + at.weight
      /\ \A i \in 1 .. n : w.cumulative[i] = v.cumulative[i]
  <2>1. Total(v.cumulative) + at.weight \in Nat
    BY <1>3
  <2> QED
    BY <1>1, <1>2, <2>1, AppendProperties
<1>8. Even(w, 0)
  BY <1>2, <1>4, <1>5, <1>6, <1>7 DEF Even
<1>9. UsableSoFar(w)
  <2> SUFFICES ASSUME NEW i \in 1 .. n + 1
               PROVE  /\ w.cumulative[i] > IF i = 1 THEN 0 ELSE w.cumulative[i - 1]
                      /\ w.request_caps[i] # 0 /\ w.in_flight[i] # 0
    BY <1>7 DEF UsableSoFar
  <2>1. CASE i \in 1 .. n
    <3>1. /\ v.cumulative[i] > IF i = 1 THEN 0 ELSE v.cumulative[i - 1]
          /\ v.request_caps[i] # 0 /\ v.in_flight[i] # 0
      BY <2>1 DEF UsableSoFar
    <3>2. i # 1 => i - 1 \in 1 .. n
      <4>1. n \in Nat /\ i \in Nat /\ 1 <= i /\ i <= n
        BY <2>1, <1>2
      <4> QED
        BY <4>1
    <3> QED
      BY <2>1, <3>1, <3>2, <1>5, <1>6, <1>7
  <2>2. CASE i = n + 1
    <3>1. w.cumulative[i] > Total(v.cumulative)
      BY <2>2, <1>3, <1>7 DEF Valid
    <3>2. Total(v.cumulative) = IF i = 1 THEN 0 ELSE w.cumulative[i - 1]
      BY <2>2, <1>2, <1>3, <1>7
    <3> QED
      BY <2>2, <3>1, <3>2, <1>5, <1>6 DEF Valid
  <2>3. i \in 1 .. n \/ i = n + 1
    BY <1>2
  <2> QED
    BY <2>1, <2>2, <2>3
<1>10. AllHeld(E, w, endpoints)
  BY <1>2, <1>4 DEF AllHeld
<1> QED
  BY <1>7, <1>8, <1>9, <1>10

-----------------------------------------------------------------------------
(* Steps.                                                                    *)

\* Where a thread goes when it has completed a step of its program.
LEMMA NextStep ==
  ASSUME NEW t \in Threads, NEW n \in Nat, n <= Len(ProgramOf[t])
  PROVE  LET there == FirstStep(t, n + 1)
         IN /\ there \in {"done", "look_up", "wrap", "throttle_config"}
            /\ there = "done" => n = Len(ProgramOf[t])
            /\ there # "done" => n + 1 \in DOMAIN ProgramOf[t]
            /\ there = "look_up" => ProgramOf[t][n + 1].do = "look_up"
            /\ there = "throttle_config" =>
                 /\ ProgramOf[t][n + 1].do # "look_up"
                 /\ ProgramOf[t][n + 1].with.endpoints # None
BY ProgramLength DEF FirstStep

\* A thread that has not yet an endpoint, or none any more.
Idle(t) ==
  /\ pc[t] \in {"done", "look_up", "wrap", "throttle_config", "client_config"}
  /\ making[t] = Nothing

\* What thread t has finished and found stays good when the registry grows.
LEMMA BuiltKept ==
  ASSUME NEW t \in Threads, BuiltGood(t), GrowsTo(entries, entries'), built'[t] = built[t]
  PROVE  BuiltGood(t)'
<1>1. ASSUME NEW n \in DOMAIN built[t]
      PROVE  AllHeld(entries', built[t][n], ProgramOf[t][n].with.endpoints)
  BY AllHeldKept DEF BuiltGood
<1> QED
  BY <1>1 DEF BuiltGood

LEMMA FoundKept ==
  ASSUME NEW t \in Threads, FoundGood(t), GrowsTo(entries, entries'), found'[t] = found[t]
  PROVE  FoundGood(t)'
BY HeldKept DEF FoundGood, Kinds

\* A step of another thread, which may add to the registry.
LEMMA OtherThreads ==
  ASSUME NEW t \in Threads, ThreadInv(t), GrowsTo(entries, entries'),
         pc'[t] = pc[t], nth'[t] = nth[t], making'[t] = making[t],
         built'[t] = built[t], found'[t] = found[t]
  PROVE  ThreadInv(t)'
<1>1. Control(t)' /\ Filling(t)'
  BY DEF ThreadInv, Control, Filling, AtEndpoint, NeedsThrottle, LooksUp, Given,
         MoreEndpoints, Index, Endpoint, Even
<1>2. MakingGood(t)'
  BY AllHeldKept DEF ThreadInv, MakingGood, Given
<1> QED
  BY <1>1, <1>2, BuiltKept, FoundKept DEF ThreadInv

\* A thread that goes to where no endpoint is being worked on.
LEMMA IdleInv ==
  ASSUME NEW t \in Threads, ThreadInv(t), GrowsTo(entries, entries'),
         Control(t)', Idle(t)', built'[t] = built[t], FoundGood(t)'
  PROVE  ThreadInv(t)'
<1>1. Filling(t)'
  BY NothingIsEven DEF Filling, Idle, NeedsThrottle
<1>2. MakingGood(t)'
  BY NothingIsEven DEF MakingGood, Idle
<1> QED
  BY <1>1, <1>2, BuiltKept DEF ThreadInv

\* What a step of thread t may do to the threads' own variables.
Owns(t) ==
  /\ pc' \in [Threads -> Places] /\ nth' \in [Threads -> Nat \ {0}]
  /\ making' \in [Threads -> Vectors]
  /\ DOMAIN built' = Threads /\ DOMAIN found' = Threads
  /\ \A u \in Threads \ {t} :
       /\ pc'[u] = pc[u] /\ nth'[u] = nth[u] /\ making'[u] = making[u]
       /\ built'[u] = built[u] /\ found'[u] = found[u]

\* The thread completes a step of its program, with nothing in the making.
LEMMA StepOverStep ==
  ASSUME Types, NEW t \in Threads, ThreadInv(t), nth[t] \in DOMAIN ProgramOf[t],
         StepOver(t), making' = making, making[t] = Nothing, built' = built,
         DOMAIN found' = Threads, \A u \in Threads \ {t} : found'[u] = found[u],
         FoundGood(t)', GrowsTo(entries, entries')
  PROVE  Owns(t) /\ ThreadInv(t)'
<1> DEFINE there == FirstStep(t, nth[t] + 1)
<1>1. nth[t] \in Nat /\ nth[t] <= Len(ProgramOf[t])
  BY ProgramLength
<1>2. /\ nth'[t] = nth[t] + 1 /\ pc'[t] = there
      /\ nth' \in [Threads -> Nat \ {0}]
      /\ \A u \in Threads \ {t} : pc'[u] = pc[u] /\ nth'[u] = nth[u]
  BY <1>1 DEF Types, StepOver, Goto
<1>3. /\ there \in {"done", "look_up", "wrap", "throttle_config"}
      /\ there = "done" => nth[t] = Len(ProgramOf[t])
      /\ there # "done" => nth[t] + 1 \in DOMAIN ProgramOf[t]
      /\ there = "look_up" => ProgramOf[t][nth[t] + 1].do = "look_up"
      /\ there = "throttle_config" =>
           /\ ProgramOf[t][nth[t] + 1].do # "look_up"
           /\ ProgramOf[t][nth[t] + 1].with.endpoints # None
  BY <1>1, NextStep
<1>4. pc' \in [Threads -> Places]
  BY <1>3 DEF Types, StepOver, Goto, Places
<1> HIDE DEF there
<1>5. Control(t)' /\ Idle(t)'
  BY <1>2, <1>3 DEF Control, Idle, AtEndpoint, NeedsThrottle, LooksUp, Given
<1>6. ThreadInv(t)'
  BY <1>5, IdleInv
<1> QED
  BY <1>2, <1>4, <1>6 DEF Owns, Types

\* A thread takes the entry it was looking for.
LEMMA HoldStep ==
  ASSUME Types, NEW t \in Threads, ThreadInv(t), NEW e,
         pc[t] \in {"look_up", "insert_throttle"}, LooksUp(t), Hold(t, e), built' = built,
         GrowsTo(entries, entries'), Held(entries', e, "throttle", Domain(t))
  PROVE  Owns(t) /\ ThreadInv(t)'
<1>1. nth[t] \in DOMAIN ProgramOf[t] /\ making[t] = Nothing
  BY DEF ThreadInv, Control, Filling, AtEndpoint, NeedsThrottle
<1>2. /\ found'[t] = With(found[t], Domain(t), e) /\ DOMAIN found' = Threads
      /\ \A u \in Threads \ {t} : found'[u] = found[u]
  BY DEF Hold, Types
<1>3. FoundGood(t)'
  <2> SUFFICES ASSUME NEW d \in DOMAIN found'[t]
               PROVE  Held(entries', found'[t][d], "throttle", d)
    BY DEF FoundGood
  <2>1. CASE d = Domain(t)
    BY <1>2, <2>1 DEF With
  <2>2. CASE d # Domain(t)
    <3>1. d \in DOMAIN found[t] /\ found'[t][d] = found[t][d]
      BY <1>2, <2>2 DEF With
    <3> QED
      BY <3>1, HeldKept DEF ThreadInv, FoundGood, Kinds
  <2> QED
    BY <2>1, <2>2
<1> QED
  BY <1>1, <1>2, <1>3, StepOverStep DEF Hold

LEMMA ObtainClientStep ==
  ASSUME Types, NEW t \in Threads, ThreadInv(t), NEW e \in Entry,
         pc[t] \in {"endpoint", "insert_client"}, MoreEndpoints(t), Valid(Endpoint(t)),
         Obtain(t, "client", e), built' = built,
         GrowsTo(entries, entries'), Held(entries', e, "client", Domain(t))
  PROVE  Owns(t) /\ ThreadInv(t)'
<1> DEFINE v == making[t]
           w == making'[t]
           eps == Given(t).endpoints
<1>1. /\ ~LooksUp(t) /\ eps # None /\ nth[t] \in DOMAIN ProgramOf[t]
      /\ Even(v, 0) /\ UsableSoFar(v) /\ v \in Vectors /\ Len(v.cumulative) \in Nat
  BY LenProperties
     DEF ThreadInv, Control, Filling, MakingGood, AtEndpoint, NeedsThrottle, Types, Vectors
<1>2. AllHeld(entries', v, eps)
  <2>1. AllHeld(entries, v, eps)
    BY NothingIsEven DEF ThreadInv, MakingGood
  <2> QED
    BY <2>1, AllHeldKept
<1>3. /\ w = [v EXCEPT !.client = Append(@, e)]
      /\ pc'[t] = "throttle" /\ nth' = nth /\ found' = found
      /\ pc' \in [Threads -> Places]
      /\ \A u \in Threads \ {t} : pc'[u] = pc[u] /\ making'[u] = making[u]
      /\ DOMAIN making' = Threads
      /\ making' = [making EXCEPT ![t] = w]
  BY DEF Obtain, Goto, Types, Places
<1>4. Domain(t) = RateLimitDomainOf(eps[Len(v.cumulative) + 1].host)
  BY <1>1 DEF Domain, Endpoint, Index
<1>5. /\ w \in Vectors /\ Even(w, 1) /\ UsableSoFar(w) /\ AllHeld(entries', w, eps)
      /\ w.cumulative = v.cumulative
  <2> HIDE DEF v, w, eps
  <2> QED
    BY <1>1, <1>2, <1>3, <1>4, AddClient
<1>6. Given(t)' = Given(t) /\ LooksUp(t)' = LooksUp(t) /\ Index(t)' = Index(t)
  BY <1>3, <1>5 DEF Given, LooksUp, Index
<1>7. Control(t)'
  BY <1>1, <1>3, <1>6 DEF Control, AtEndpoint, NeedsThrottle, MoreEndpoints, Endpoint
<1>8. Filling(t)'
  <2>1. Len(w.cumulative) <= Len(eps)
    <3>1. Len(eps) \in Nat
      BY <1>1, StepTypes, LenProperties DEF LooksUp, Given, Builders
    <3> QED
      BY <1>1, <1>5, <3>1 DEF MoreEndpoints, Index
  <2> QED
    BY <1>1, <1>3, <1>5, <1>6, <2>1 DEF Filling, AtEndpoint, NeedsThrottle
<1>9. MakingGood(t)'
  BY <1>5, <1>6 DEF MakingGood
<1>10. ThreadInv(t)'
  BY <1>3, <1>7, <1>8, <1>9, BuiltKept, FoundKept DEF ThreadInv
<1>11. making' \in [Threads -> Vectors]
  BY <1>3, <1>5 DEF Types
<1> QED
  BY <1>3, <1>10, <1>11 DEF Owns, Types

LEMMA ObtainThrottleStep ==
  ASSUME Types, NEW t \in Threads, ThreadInv(t), NEW e \in Entry,
         NeedsThrottle(t), Obtain(t, "throttle", e), built' = built,
         GrowsTo(entries, entries'), Held(entries', e, "throttle", Domain(t))
  PROVE  Owns(t) /\ ThreadInv(t)'
<1> DEFINE v == making[t]
           w == making'[t]
           eps == Given(t).endpoints
           at == Endpoint(t)
<1>1. /\ ~LooksUp(t) /\ eps # None /\ nth[t] \in DOMAIN ProgramOf[t]
      /\ MoreEndpoints(t) /\ Valid(at)
      /\ Even(v, 1) /\ UsableSoFar(v) /\ v \in Vectors /\ Len(v.cumulative) \in Nat
  BY LenProperties
     DEF ThreadInv, Control, Filling, MakingGood, AtEndpoint, NeedsThrottle, Types, Vectors
<1>2. AllHeld(entries', v, eps)
  <2>1. AllHeld(entries, v, eps)
    BY NothingIsEven DEF ThreadInv, MakingGood
  <2> QED
    BY <2>1, AllHeldKept
<1>3. Given(t) \in Builders
  BY <1>1, StepTypes DEF LooksUp, Given
<1>4. Len(v.cumulative) + 1 \in 1 .. Len(eps) /\ Len(eps) \in Nat
  <2>1. Len(eps) \in Nat
    BY <1>1, <1>3, LenProperties DEF Builders
  <2> QED
    BY <1>1, <2>1 DEF MoreEndpoints, Index
<1>5. /\ at.weight \in Nat /\ at.weight > 0
      /\ at.max_request_bytes \in Limit /\ at.max_request_bytes # 0
      /\ at.max_in_flight \in Limit /\ at.max_in_flight # 0
  BY <1>1, <1>3, <1>4, EndpointTypes DEF Endpoint, Index, Valid
<1>6. /\ pc'[t] = "endpoint" /\ nth' = nth /\ found' = found
      /\ pc' \in [Threads -> Places]
      /\ \A u \in Threads \ {t} : pc'[u] = pc[u]
  BY DEF Obtain, Goto, Types, Places
<1>7. /\ \A u \in Threads \ {t} : making'[u] = making[u]
      /\ DOMAIN making' = Threads
      /\ making' = [making EXCEPT ![t] = w]
      /\ DOMAIN w = {"cumulative", "client", "throttle", "request_caps", "in_flight"}
  BY DEF Obtain, Types, Vectors
<1>8. /\ w.throttle = Append(v.throttle, e) /\ w.client = v.client
      /\ w.request_caps = Append(v.request_caps, at.max_request_bytes)
      /\ w.in_flight = Append(v.in_flight, at.max_in_flight)
      /\ w.cumulative = Append(v.cumulative, Total(v.cumulative) + at.weight)
  BY SMTT(30) DEF Obtain, Types, Vectors
<1>9. w = [cumulative |-> w.cumulative, client |-> w.client, throttle |-> w.throttle,
           request_caps |-> w.request_caps, in_flight |-> w.in_flight]
  BY <1>7 DEF Obtain, Types, Vectors
<1>10. w \in Vectors
  <2>1. Total(v.cumulative) \in Nat
    BY <1>1, EmptySeq, ElementOfSeq, LenProperties DEF Total, Vectors
  <2>2. /\ w.cumulative \in Seq(Nat) /\ w.client \in Seq(Entry)
        /\ w.throttle \in Seq(Entry) /\ w.request_caps \in Seq(Limit)
        /\ w.in_flight \in Seq(Limit)
    <3>1. Total(v.cumulative) + at.weight \in Nat
      BY <1>5, <2>1
    <3> HIDE DEF w, v, at
    <3> QED
      BY <1>1, <1>5, <1>8, <3>1, AppendProperties DEF Vectors
  <2> HIDE DEF w
  <2> QED
    BY <1>9, <2>2 DEF Vectors
<1>11. Domain(t) = RateLimitDomainOf(eps[Len(v.cumulative) + 1].host)
  BY <1>1 DEF Domain, Endpoint, Index
<1>12. /\ Even(w, 0) /\ UsableSoFar(w) /\ AllHeld(entries', w, eps)
       /\ Len(w.cumulative) = Len(v.cumulative) + 1
  <2>1. Held(entries', e, "throttle", RateLimitDomainOf(eps[Len(v.cumulative) + 1].host))
    BY <1>11
  <2>2. /\ Valid(at) /\ at.weight \in Nat
        /\ at.max_request_bytes \in Limit /\ at.max_in_flight \in Limit
    BY <1>1, <1>5
  <2>3. v \in Vectors /\ Even(v, 1) /\ UsableSoFar(v)
    BY <1>1
  <2> HIDE DEF v, w, eps, at
  <2> QED
    BY <1>2, <1>8, <1>10, <2>1, <2>2, <2>3, AddThrottle, SMTT(30)
<1>13. Given(t)' = Given(t) /\ LooksUp(t)' = LooksUp(t)
  BY <1>6 DEF Given, LooksUp
<1>14. Control(t)'
  BY <1>1, <1>6, <1>13 DEF Control, AtEndpoint, NeedsThrottle
<1>15. Filling(t)'
  BY <1>1, <1>4, <1>6, <1>12, <1>13 DEF Filling, AtEndpoint, NeedsThrottle
<1>16. MakingGood(t)'
  BY <1>12, <1>13 DEF MakingGood
<1>17. ThreadInv(t)'
  BY <1>6, <1>14, <1>15, <1>16, BuiltKept, FoundKept DEF ThreadInv
<1>18. making' \in [Threads -> Vectors]
  BY <1>7, <1>10 DEF Types
<1> QED
  BY <1>6, <1>7, <1>17, <1>18 DEF Owns, Types

\* A lookup by a builder or by name takes an entry of the registry as it will be.
LEMMA TakeStep ==
  ASSUME Types, NEW t \in Threads, ThreadInv(t), NEW k \in Kinds, built' = built,
         Domain(t) \in Domains, entries' \in [Kinds -> [Domains -> Entry]],
         GrowsTo(entries, entries'), entries'[k][Domain(t)] # NoEntry,
         Take(t, k, entries'[k][Domain(t)]),
         \/ /\ k = "throttle" /\ LooksUp(t) /\ pc[t] \in {"look_up", "insert_throttle"}
         \/ /\ k = "client" /\ ~LooksUp(t) /\ pc[t] \in {"endpoint", "insert_client"}
            /\ MoreEndpoints(t) /\ Valid(Endpoint(t))
         \/ k = "throttle" /\ ~LooksUp(t) /\ NeedsThrottle(t)
  PROVE  Owns(t) /\ ThreadInv(t)'
<1> DEFINE e == entries'[k][Domain(t)]
<1>1. e \in Entry /\ Held(entries', e, k, Domain(t))
  BY DEF Held
<1> HIDE DEF e
<1>2. Take(t, k, e)
  BY DEF e
<1> QED
  BY <1>1, <1>2, HoldStep, ObtainClientStep, ObtainThrottleStep DEF Take

\* A domain that is missing is to be inserted.
LEMMA MissStep ==
  ASSUME Types, NEW t \in Threads, ThreadInv(t), UNCHANGED <<nth, making, built, found, entries>>,
         \/ /\ pc[t] = "look_up" /\ Goto(t, "insert_throttle")
         \/ /\ pc[t] = "throttle" /\ Goto(t, "insert_throttle")
         \/ /\ pc[t] = "endpoint" /\ MoreEndpoints(t) /\ Valid(Endpoint(t))
            /\ Goto(t, "insert_client")
  PROVE  Owns(t) /\ ThreadInv(t)'
<1>1. /\ pc'[t] \in {"insert_throttle", "insert_client"} /\ pc' \in [Threads -> Places]
      /\ \A u \in Threads \ {t} : pc'[u] = pc[u]
      /\ pc'[t] = "insert_client" <=> pc[t] = "endpoint"
  BY DEF Types, Goto, Places
<1>2. /\ Given(t)' = Given(t) /\ LooksUp(t)' = LooksUp(t) /\ MoreEndpoints(t)' = MoreEndpoints(t)
      /\ Endpoint(t)' = Endpoint(t)
  BY DEF Given, LooksUp, MoreEndpoints, Endpoint, Index
<1>3. Control(t)'
  BY <1>1, <1>2 DEF ThreadInv, Control, AtEndpoint, NeedsThrottle
<1>4. Filling(t)'
  BY <1>1, <1>2 DEF ThreadInv, Control, Filling, AtEndpoint, NeedsThrottle
<1>5. MakingGood(t)' /\ BuiltGood(t)' /\ FoundGood(t)'
  BY <1>2 DEF ThreadInv, MakingGood, BuiltGood, FoundGood
<1> QED
  BY <1>1, <1>3, <1>4, <1>5 DEF ThreadInv, Owns, Types

\* What Insert does to the registry.
LEMMA InsertGrows ==
  ASSUME Types, NEW t \in Threads, NEW k \in Kinds, Domain(t) \in Domains, Insert(t, k)
  PROVE  /\ entries' \in [Kinds -> [Domains -> Entry]] /\ GrowsTo(entries, entries')
         /\ entries'[k][Domain(t)] # NoEntry
<1>1. CASE entries[k][Domain(t)] # NoEntry
  BY <1>1 DEF Insert, Types, GrowsTo
<1>2. CASE entries[k][Domain(t)] = NoEntry
  <2> DEFINE new == New(k, Domain(t))
  <2>1. new \in Entry /\ new # NoEntry
    BY <1>2 DEF New, NoEntry, Types, Entry
  <2>2. entries' = [entries EXCEPT ![k][Domain(t)] = new]
    BY <1>2 DEF Insert
  <2> HIDE DEF new
  <2> QED
    BY <1>2, <2>1, <2>2 DEF Types, GrowsTo
<1> QED
  BY <1>1, <1>2

\* A step that leaves the registry alone lets it grow.
LEMMA Unchanged == ASSUME entries' = entries PROVE GrowsTo(entries, entries')
BY DEF GrowsTo

LEMMA LookupStep ==
  ASSUME Types, NEW t \in Threads, ThreadInv(t), NEW k \in Kinds, Lookup(t, k),
         \/ k = "throttle" /\ LookupNamed(t)
         \/ k = "client" /\ LookupClient(t)
         \/ k = "throttle" /\ LookupThrottle(t)
  PROVE  Owns(t) /\ ThreadInv(t)'
<1>1. /\ nth[t] \in DOMAIN ProgramOf[t] /\ Len(making[t].cumulative) \in Nat
      /\ LooksUp(t) \/ (Given(t).endpoints # None /\ MoreEndpoints(t))
  BY LenProperties DEF ThreadInv, Control, AtEndpoint, NeedsThrottle, LookupNamed,
                       LookupClient, LookupThrottle, Types, Vectors
<1>2. Domain(t) \in Domains
  BY <1>1, DomainKnown
<1>3. GrowsTo(entries, entries') /\ built' = built /\ entries' = entries
  BY Unchanged DEF Lookup
<1>4. CASE entries[k][Domain(t)] # NoEntry
  <2>1. Take(t, k, entries'[k][Domain(t)])
    BY <1>3, <1>4 DEF Lookup
  <2>2. entries' \in [Kinds -> [Domains -> Entry]] /\ entries'[k][Domain(t)] # NoEntry
    BY <1>3, <1>4 DEF Types
  <2>3. \/ k = "throttle" /\ LooksUp(t) /\ pc[t] = "look_up"
        \/ /\ k = "client" /\ ~LooksUp(t) /\ pc[t] = "endpoint"
           /\ MoreEndpoints(t) /\ Valid(Endpoint(t))
        \/ k = "throttle" /\ ~LooksUp(t) /\ NeedsThrottle(t)
    BY DEF ThreadInv, Control, AtEndpoint, NeedsThrottle, LookupNamed, LookupClient,
           LookupThrottle
  <2> QED
    BY <1>2, <1>3, <2>1, <2>2, <2>3, TakeStep
<1>5. CASE entries[k][Domain(t)] = NoEntry
  <2>1. UNCHANGED <<nth, making, built, found, entries>> /\ Goto(t, InsertLabel[k])
    BY <1>3, <1>5 DEF Lookup
  <2>2. \/ pc[t] = "look_up" /\ k = "throttle"
        \/ pc[t] = "throttle" /\ k = "throttle"
        \/ pc[t] = "endpoint" /\ MoreEndpoints(t) /\ Valid(Endpoint(t)) /\ k = "client"
    BY DEF LookupNamed, LookupClient, LookupThrottle
  <2> QED
    BY <2>1, <2>2, MissStep DEF InsertLabel
<1> QED
  BY <1>4, <1>5

LEMMA InsertStep ==
  ASSUME Types, NEW t \in Threads, ThreadInv(t), NEW k \in Kinds, Insert(t, k),
         pc[t] = InsertLabel[k]
  PROVE  /\ Owns(t) /\ ThreadInv(t)' /\ GrowsTo(entries, entries')
         /\ entries' \in [Kinds -> [Domains -> Entry]]
<1>1. /\ nth[t] \in DOMAIN ProgramOf[t] /\ Len(making[t].cumulative) \in Nat
      /\ LooksUp(t) \/ (Given(t).endpoints # None /\ MoreEndpoints(t))
  BY LenProperties DEF ThreadInv, Control, AtEndpoint, NeedsThrottle, Types, Vectors,
                       InsertLabel, Kinds
<1>2. Domain(t) \in Domains
  BY <1>1, DomainKnown
<1>3. /\ entries' \in [Kinds -> [Domains -> Entry]] /\ GrowsTo(entries, entries')
      /\ entries'[k][Domain(t)] # NoEntry
  BY <1>2, InsertGrows
<1>4. Take(t, k, entries'[k][Domain(t)]) /\ built' = built
  BY DEF Insert
<1>5. \/ k = "throttle" /\ LooksUp(t) /\ pc[t] = "insert_throttle"
      \/ /\ k = "client" /\ ~LooksUp(t) /\ pc[t] = "insert_client"
         /\ MoreEndpoints(t) /\ Valid(Endpoint(t))
      \/ k = "throttle" /\ ~LooksUp(t) /\ NeedsThrottle(t)
  BY DEF ThreadInv, Control, AtEndpoint, NeedsThrottle, InsertLabel, Kinds
<1> QED
  BY <1>2, <1>3, <1>4, <1>5, TakeStep

LEMMA ReuseStep ==
  ASSUME Types, NEW t \in Threads, ThreadInv(t), Reuse(t)
  PROVE  Owns(t) /\ ThreadInv(t)'
<1>1. NeedsThrottle(t) /\ ~LooksUp(t) /\ GrowsTo(entries, entries') /\ built' = built
  BY Unchanged DEF Reuse, NeedsThrottle, ThreadInv, Control, AtEndpoint
<1>2. PICK i \in Earlier(t) : Obtain(t, "throttle", making[t].throttle[i])
  BY DEF Reuse
<1>3. making[t].throttle \in Seq(Entry) /\ Len(making[t].cumulative) \in Nat
  BY LenProperties DEF Types, Vectors
<1>4. /\ i \in 1 .. Len(making[t].throttle)
      /\ RateLimitDomainOf(Given(t).endpoints[i].host) = Domain(t)
  BY <1>3 DEF Earlier, Index, ThreadInv, Filling, Even
<1>5. making[t].throttle[i] \in Entry
  BY <1>3, <1>4, ElementOfSeq
<1>6. AllHeld(entries, making[t], Given(t).endpoints)
  BY NothingIsEven DEF ThreadInv, MakingGood
<1>7. Held(entries, making[t].throttle[i], "throttle", Domain(t))
  BY <1>4, <1>6 DEF AllHeld
<1>8. Held(entries', making[t].throttle[i], "throttle", Domain(t))
  BY <1>1, <1>7, HeldKept DEF Kinds
<1> QED
  BY <1>1, <1>2, <1>5, <1>8, ObtainThrottleStep

\* Setting a default touches no registered domain.
LEMMA DefaultStep ==
  ASSUME Types, NEW t \in Threads, ThreadInv(t), SetThrottleConfig(t) \/ SetClientConfig(t)
  PROVE  Owns(t) /\ ThreadInv(t)' /\ default' \in [Kinds -> Configs] /\ entries' = entries
<1>1. /\ UNCHANGED <<entries, nth, making, built, found>>
      /\ pc[t] \in {"throttle_config", "client_config"}
      /\ pc'[t] \in {"client_config", "endpoint"} /\ pc' \in [Threads -> Places]
      /\ \A u \in Threads \ {t} : pc'[u] = pc[u]
  BY DEF SetThrottleConfig, SetClientConfig, SetDefault, Goto, Types, Places
<1>2. /\ nth[t] \in DOMAIN ProgramOf[t] /\ ~LooksUp(t) /\ Given(t).endpoints # None
      /\ making[t] = Nothing
  BY <1>1 DEF ThreadInv, Control, Filling, AtEndpoint, NeedsThrottle
<1>3. default' \in [Kinds -> Configs]
  <2>1. Given(t) \in Builders
    BY <1>2, StepTypes DEF LooksUp, Given
  <2>2. ASSUME NEW k \in Kinds, SetDefault(t, k) PROVE default' \in [Kinds -> Configs]
    BY <2>1, <2>2, DefaultTypes DEF SetDefault, Types
  <2> QED
    BY <2>2 DEF SetThrottleConfig, SetClientConfig, Kinds
<1>4. /\ Given(t)' = Given(t) /\ LooksUp(t)' = LooksUp(t)
  BY <1>1 DEF Given, LooksUp
<1>5. Control(t)'
  BY <1>1, <1>2, <1>4 DEF Control, AtEndpoint, NeedsThrottle
<1>6. Filling(t)'
  BY <1>1, <1>2, NothingIsEven DEF Filling, NeedsThrottle
<1>7. MakingGood(t)' /\ BuiltGood(t)' /\ FoundGood(t)'
  BY <1>1, <1>4 DEF ThreadInv, MakingGood, BuiltGood, FoundGood
<1> QED
  BY <1>1, <1>3, <1>5, <1>6, <1>7 DEF ThreadInv, Owns, Types

\* A panic leaves everything as it is but ends the thread.
LEMMA PanicStep ==
  ASSUME Types, NEW t \in Threads, ThreadInv(t), Panic(t),
         pc[t] \in {"endpoint", "insert_client", "wrap"}
  PROVE  Owns(t) /\ ThreadInv(t)'
<1>1. /\ UNCHANGED <<entries, nth, making, built, found>>
      /\ pc'[t] = "panicked" /\ pc' \in [Threads -> Places]
      /\ \A u \in Threads \ {t} : pc'[u] = pc[u]
  BY DEF Panic, Goto, Types, Places
<1>2. /\ Given(t)' = Given(t) /\ LooksUp(t)' = LooksUp(t)
  BY <1>1 DEF Given, LooksUp
<1>3. Control(t)' /\ Filling(t)'
  BY <1>1, <1>2 DEF ThreadInv, Control, Filling, AtEndpoint, NeedsThrottle
<1>4. MakingGood(t)' /\ BuiltGood(t)' /\ FoundGood(t)'
  BY <1>1, <1>2 DEF ThreadInv, MakingGood, BuiltGood, FoundGood
<1> QED
  BY <1>1, <1>3, <1>4 DEF ThreadInv, Owns, Types

\* The transport is finished: its vectors have an element for each endpoint.
LEMMA FinishStep ==
  ASSUME Types, NEW t \in Threads, ThreadInv(t), Finish(t)
  PROVE  Owns(t) /\ ThreadInv(t)'
<1> DEFINE v == making[t]
           n == nth[t]
           eps == ProgramOf[t][n].with.endpoints
<1>1. /\ UNCHANGED <<entries, nth, found>>
      /\ pc[t] = "endpoint" /\ pc'[t] = "wrap" /\ pc' \in [Threads -> Places]
      /\ built'[t] = With(built[t], n, v) /\ DOMAIN built' = Threads
      /\ making'[t] = Nothing /\ making' \in [Threads -> Vectors]
      /\ \A u \in Threads \ {t} :
           pc'[u] = pc[u] /\ making'[u] = making[u] /\ built'[u] = built[u]
  BY NothingIsEven DEF Finish, Goto, Types, Places
<1>2. /\ n \in DOMAIN ProgramOf[t] /\ ProgramOf[t][n].do # "look_up" /\ eps # None
      /\ Even(v, 0) /\ UsableSoFar(v) /\ v \in Vectors
  BY <1>1 DEF ThreadInv, Control, Filling, MakingGood, AtEndpoint, NeedsThrottle, Types,
              LooksUp, Given
<1>3. ProgramOf[t][n].do = "create" /\ Given(t) \in Builders
  BY <1>2, StepTypes DEF Given
<1>4. eps # <<>> /\ Len(v.cumulative) = Len(eps)
  <2>1. eps \in Seq(EndpointConfigs) /\ v.cumulative \in Seq(Nat)
    BY <1>2, <1>3 DEF Builders, Given, Vectors
  <2>2. Len(eps) \in Nat /\ Len(v.cumulative) \in Nat
    BY <2>1, LenProperties
  <2>3. eps # <<>> /\ ~(Len(v.cumulative) + 1 <= Len(eps))
    BY DEF Finish, MoreEndpoints, Index, Given
  <2>4. v = Nothing \/ Len(v.cumulative) <= Len(eps)
    BY DEF ThreadInv, Filling, Given
  <2>5. v = Nothing => Len(v.cumulative) = 0
    BY EmptySeq DEF Nothing
  <2> HIDE DEF v, eps
  <2> QED
    BY <2>2, <2>3, <2>4, <2>5
<1>5. AllHeld(entries, v, eps)
  BY NothingIsEven DEF ThreadInv, MakingGood, Given
<1>6. BuiltGood(t)'
  <2> SUFFICES ASSUME NEW m \in DOMAIN built'[t]
               PROVE  /\ m \in DOMAIN ProgramOf[t]
                      /\ ProgramOf[t][m].do = "create" /\ ProgramOf[t][m].with.endpoints # None
                      /\ Finished(built'[t][m], ProgramOf[t][m].with.endpoints)
                      /\ AllHeld(entries', built'[t][m], ProgramOf[t][m].with.endpoints)
    BY DEF BuiltGood
  <2>1. CASE m = n
    <3>1. built'[t][m] = v
      BY <1>1, <2>1 DEF With
    <3> QED
      BY <1>1, <1>2, <1>3, <1>4, <1>5, <2>1, <3>1 DEF Finished
  <2>2. CASE m # n
    <3>1. m \in DOMAIN built[t] /\ built'[t][m] = built[t][m]
      BY <1>1, <2>2 DEF With
    <3> QED
      BY <1>1, <3>1 DEF ThreadInv, BuiltGood
  <2> QED
    BY <2>1, <2>2
<1>7. Control(t)'
  BY <1>1, <1>2 DEF Control, AtEndpoint, NeedsThrottle
<1>8. Filling(t)' /\ MakingGood(t)'
  BY <1>1, NothingIsEven DEF Filling, NeedsThrottle, MakingGood
<1>9. FoundGood(t)'
  BY <1>1 DEF ThreadInv, FoundGood
<1> QED
  BY <1>1, <1>6, <1>7, <1>8, <1>9 DEF ThreadInv, Owns, Types

LEMMA WrapStep ==
  ASSUME Types, NEW t \in Threads, ThreadInv(t), Wrap(t)
  PROVE  Owns(t) /\ ThreadInv(t)'
<1>1. /\ pc[t] = "wrap" /\ UNCHANGED <<default, entries, making, built, found, overtaken>>
      /\ StepOver(t) \/ (Goto(t, "panicked") /\ UNCHANGED nth)
  BY DEF Wrap
<1>2. /\ nth[t] \in DOMAIN ProgramOf[t] /\ making[t] = Nothing /\ GrowsTo(entries, entries')
      /\ FoundGood(t)'
  BY <1>1, Unchanged DEF ThreadInv, Control, Filling, FoundGood, AtEndpoint, NeedsThrottle
<1>3. CASE StepOver(t)
  BY <1>1, <1>2, <1>3, StepOverStep DEF Types
<1>4. CASE Goto(t, "panicked") /\ UNCHANGED nth
  BY <1>1, <1>4, PanicStep DEF Panic
<1> QED
  BY <1>1, <1>3, <1>4

-----------------------------------------------------------------------------
(* The invariant, and what follows from it.                                  *)

LEMMA RegistryInvInit == Init => RegistryInv
<1> SUFFICES ASSUME Init PROVE RegistryInv
  OBVIOUS
<1>1. ASSUME NEW t \in Threads
      PROVE  /\ pc[t] \in {"done", "look_up", "wrap", "throttle_config"}
             /\ pc[t] = FirstStep(t, 0 + 1) /\ pc[t] # "done" /\ nth[t] = 1
             /\ making[t] = Nothing /\ built[t] = <<>> /\ found[t] = <<>>
  BY NextStep, ProgramLength DEF Init
<1>2. Types
  BY <1>1, DefaultTypes, NothingIsEven DEF Init, Types, Places, Entry
<1>3. ASSUME NEW t \in Threads PROVE ThreadInv(t)
  <2>1. 0 \in Nat /\ 0 <= Len(ProgramOf[t])
    BY ProgramLength
  <2>2. Control(t)
    BY <1>1, <2>1, NextStep DEF Control, AtEndpoint, NeedsThrottle, LooksUp, Given
  <2>3. Filling(t) /\ MakingGood(t)
    BY <1>1, NothingIsEven DEF Filling, MakingGood, NeedsThrottle
  <2>4. DOMAIN built[t] = {} /\ DOMAIN found[t] = {}
    BY <1>1
  <2> QED
    BY <2>2, <2>3, <2>4 DEF ThreadInv, BuiltGood, FoundGood
<1> QED
  BY <1>2, <1>3 DEF RegistryInv

\* The step of one thread, for which it may add to the registry and set a default.
LEMMA CreateStep ==
  ASSUME Types, NEW t \in Threads, ThreadInv(t), Create(t)
  PROVE  /\ Owns(t) /\ ThreadInv(t)' /\ GrowsTo(entries, entries')
         /\ entries' \in [Kinds -> [Domains -> Entry]] /\ default' \in [Kinds -> Configs]
<1>1. CASE SetThrottleConfig(t) \/ SetClientConfig(t)
  BY <1>1, DefaultStep, Unchanged DEF Types
<1>2. CASE LookupNamed(t) \/ LookupClient(t) \/ LookupThrottle(t)
  <2>1. entries' = entries /\ default' = default
    BY <1>2 DEF LookupNamed, LookupClient, LookupThrottle, Lookup
  <2>2. Owns(t) /\ ThreadInv(t)'
    <3>1. CASE LookupNamed(t)
      BY <3>1, LookupStep DEF LookupNamed, Kinds
    <3>2. CASE LookupClient(t)
      BY <3>2, LookupStep DEF LookupClient, Kinds
    <3>3. CASE LookupThrottle(t)
      BY <3>3, LookupStep DEF LookupThrottle, Kinds
    <3> QED
      BY <1>2, <3>1, <3>2, <3>3
  <2> QED
    BY <2>1, <2>2, Unchanged DEF Types
<1>3. CASE InsertClient(t)
  <2>1. Insert(t, "client") /\ pc[t] = InsertLabel["client"] /\ default' = default
    BY <1>3 DEF InsertClient, Insert, InsertLabel
  <2> QED
    BY <2>1, InsertStep DEF Kinds, Types
<1>4. CASE InsertThrottle(t)
  <2>1. Insert(t, "throttle") /\ pc[t] = InsertLabel["throttle"] /\ default' = default
    BY <1>4 DEF InsertThrottle, Insert, InsertLabel
  <2> QED
    BY <2>1, InsertStep DEF Kinds, Types
<1>5. CASE Reuse(t) \/ Finish(t) \/ Wrap(t)
  <2>1. entries' = entries /\ default' = default
    BY <1>5 DEF Reuse, Finish, Wrap
  <2> QED
    BY <1>5, <2>1, ReuseStep, FinishStep, WrapStep, Unchanged DEF Types
<1>6. CASE AssertionFails(t) \/ ClientFails(t)
  <2>1. Panic(t) /\ pc[t] \in {"endpoint", "insert_client"}
    BY <1>6 DEF AssertionFails, ClientFails
  <2>2. entries' = entries /\ default' = default
    BY <2>1 DEF Panic
  <2> QED
    BY <2>1, <2>2, PanicStep, Unchanged DEF Types
<1> QED
  BY <1>1, <1>2, <1>3, <1>4, <1>5, <1>6 DEF Create

LEMMA RegistryInvStep == RegistryInv /\ [RegistryNext]_registryVars => RegistryInv'
<1> SUFFICES ASSUME RegistryInv, [RegistryNext]_registryVars PROVE RegistryInv'
  OBVIOUS
<1>1. ASSUME NEW t \in Threads, Create(t) PROVE RegistryInv'
  <2>1. /\ Owns(t) /\ ThreadInv(t)' /\ GrowsTo(entries, entries')
        /\ entries' \in [Kinds -> [Domains -> Entry]] /\ default' \in [Kinds -> Configs]
    BY <1>1, CreateStep DEF RegistryInv
  <2>2. ASSUME NEW u \in Threads \ {t} PROVE ThreadInv(u)'
    BY <2>1, <2>2, OtherThreads DEF RegistryInv, Owns
  <2>3. Types'
    BY <2>1 DEF Types, Owns
  <2> QED
    BY <2>1, <2>2, <2>3 DEF RegistryInv
<1>2. CASE UNCHANGED registryVars
  <2>1. ASSUME NEW u \in Threads PROVE ThreadInv(u)'
    BY <1>2, <2>1, OtherThreads, Unchanged DEF RegistryInv, registryVars
  <2>2. Types'
    BY <1>2 DEF RegistryInv, Types, registryVars
  <2> QED
    BY <2>1, <2>2 DEF RegistryInv
<1> QED
  BY <1>1, <1>2 DEF RegistryNext, AllBuilt

\* Every step of Observability is one of Registry or leaves its variables alone.
LEMMA ObserversOnlyRead == [Next]_vars => [RegistryNext]_registryVars
BY DEF Next, vars, CreateLocked, RegistryNext, Use, Lower, Change, Observe, Begin, Load, End

\* However many threads create transports and look up domains, each endpoint and
\* each lookup has the one throttle state and client registered for its domain.
THEOREM OneStatePerDomain == Spec => []OnePerDomain
<1>1. ObservabilityInit => RegistryInv
  BY RegistryInvInit DEF ObservabilityInit
<1>2. RegistryInv /\ [Next]_vars => RegistryInv'
  BY RegistryInvStep, ObserversOnlyRead
<1>3. RegistryInv => OnePerDomain
  <2> SUFFICES ASSUME RegistryInv, NEW t \in Threads
               PROVE  /\ \A n \in DOMAIN built[t] :
                           HoldsRegistered(built[t][n], ProgramOf[t][n].with.endpoints)
                      /\ making[t] # Nothing => HoldsRegistered(making[t], Given(t).endpoints)
                      /\ \A d \in DOMAIN found[t] : found[t][d] = entries["throttle"][d]
    BY DEF OnePerDomain
  <2>1. ASSUME NEW v \in Vectors, NEW eps, AllHeld(entries, v, eps)
        PROVE  HoldsRegistered(v, eps)
    <3>1. DOMAIN v.throttle = 1 .. Len(v.throttle) /\ DOMAIN v.client = 1 .. Len(v.client)
      BY LenProperties DEF Vectors
    <3> QED
      BY <2>1, <3>1 DEF AllHeld, Held, HoldsRegistered
  <2>2. ASSUME NEW n \in DOMAIN built[t]
        PROVE  HoldsRegistered(built[t][n], ProgramOf[t][n].with.endpoints)
    BY <2>1 DEF RegistryInv, ThreadInv, BuiltGood, Finished
  <2>3. making[t] # Nothing => HoldsRegistered(making[t], Given(t).endpoints)
    BY <2>1 DEF RegistryInv, Types, ThreadInv, MakingGood
  <2>4. \A d \in DOMAIN found[t] : found[t][d] = entries["throttle"][d]
    BY DEF RegistryInv, ThreadInv, FoundGood, Held
  <2> QED
    BY <2>2, <2>3, <2>4
<1> QED
  BY <1>1, <1>2, <1>3, PTL DEF Spec

\* What build() returns satisfies what call() relies on, whatever was configured
\* and however a thread may have panicked.
THEOREM BuiltTransportsAreUsable == Spec => []FinishedIsUsable
<1>1. ObservabilityInit => RegistryInv
  BY RegistryInvInit DEF ObservabilityInit
<1>2. RegistryInv /\ [Next]_vars => RegistryInv'
  BY RegistryInvStep, ObserversOnlyRead
<1>3. RegistryInv => FinishedIsUsable
  <2> SUFFICES ASSUME RegistryInv, NEW t \in Threads, NEW n \in DOMAIN built[t]
               PROVE  Usable(built[t][n], ProgramOf[t][n].with.endpoints)
    BY DEF FinishedIsUsable
  <2> DEFINE v == built[t][n]
             eps == ProgramOf[t][n].with.endpoints
  <2>1. /\ Finished(v, eps) /\ eps # None /\ n \in DOMAIN ProgramOf[t]
        /\ ProgramOf[t][n].do = "create"
    BY DEF RegistryInv, ThreadInv, BuiltGood
  <2>2. DOMAIN eps = 1 .. Len(eps)
    BY <2>1, StepTypes, LenProperties DEF Builders
  <2>3. /\ DOMAIN v.cumulative = DOMAIN eps /\ DOMAIN v.client = DOMAIN eps
        /\ DOMAIN v.throttle = DOMAIN eps /\ DOMAIN v.request_caps = DOMAIN eps
        /\ DOMAIN v.in_flight = DOMAIN eps
    <3>1. /\ v.cumulative \in Seq(Nat) /\ v.client \in Seq(Entry)
          /\ v.throttle \in Seq(Entry) /\ v.request_caps \in Seq(Limit)
          /\ v.in_flight \in Seq(Limit)
          /\ Len(v.cumulative) \in Nat
      BY <2>1, LenProperties DEF Finished, Vectors
    <3>2. /\ Len(v.cumulative) = Len(eps) /\ Len(v.client) = Len(eps)
          /\ Len(v.throttle) = Len(eps) /\ Len(v.request_caps) = Len(eps)
          /\ Len(v.in_flight) = Len(eps)
      BY <2>1, <3>1 DEF Finished, Even
    <3> HIDE DEF v, eps
    <3> QED
      BY <2>2, <3>1, <3>2, LenProperties
  <2>4. DOMAIN v = {"cumulative", "client", "throttle", "request_caps", "in_flight"}
    BY <2>1 DEF Finished, Vectors
  <2>5. \A i \in DOMAIN eps :
          /\ v.cumulative[i] > IF i = 1 THEN 0 ELSE v.cumulative[i - 1]
          /\ v.request_caps[i] # 0 /\ v.in_flight[i] # 0
    BY <2>1, <2>2 DEF Finished, UsableSoFar
  <2> HIDE DEF v, eps
  <2>6. Usable(v, eps)
    BY <2>1, <2>3, <2>4, <2>5 DEF Usable, Finished
  <2> QED
    BY <2>6 DEF v, eps
<1> QED
  BY <1>1, <1>2, <1>3, PTL DEF Spec

-----------------------------------------------------------------------------
(* The configuration a builder was given.                                    *)

\* Thread t has set the default of kind k for the transport it is building.
HasSet(t, k) ==
  \/ pc[t] = "endpoint" \/ AtEndpoint(t)
  \/ pc[t] = "client_config" /\ k = "throttle"
OwnDefault(t, k) ==
  HasSet(t, k) /\ Given(t)[k] # None /\ k \notin overtaken[t] =>
    default[k] = Given(t)[k]
OwnDefaults == \A t \in Threads, k \in Kinds : OwnDefault(t, k)

\* What setting a default does to the default and to who is overtaken.
LEMMA SetDefaultEffect ==
  ASSUME Types, NEW t \in Threads, NEW k \in Kinds, SetDefault(t, k)
  PROVE  /\ \A j \in Kinds \ {k} : default'[j] = default[j]
         /\ IF Given(t)[k] = None THEN default' = default /\ overtaken' = overtaken
            ELSE /\ default'[k] = Given(t)[k]
                 /\ overtaken'[t] = overtaken[t] \ {k}
                 /\ \A u \in Threads \ {t} : overtaken'[u] = overtaken[u] \cup {k}
BY DEF SetDefault, Types

\* Whoever is about to use a default of its own has set it just before or long ago.
LEMMA HasSetBefore ==
  ASSUME Types, NEW t \in Threads, ThreadInv(t), Create(t),
         ~SetThrottleConfig(t), ~SetClientConfig(t), NEW k \in Kinds, HasSet(t, k)'
  PROVE  /\ HasSet(t, k) /\ nth'[t] = nth[t]
         /\ default' = default /\ overtaken' = overtaken
<1>1. default' = default /\ overtaken' = overtaken
  BY DEF Create, LookupClient, LookupThrottle, LookupNamed, Lookup, Reuse,
     InsertClient, InsertThrottle, Insert, ClientFails, AssertionFails, Panic, Finish, Wrap
<1>2. /\ pc'[t] \in {"endpoint", "insert_client", "throttle", "insert_throttle", "client_config"}
      /\ pc'[t] = "client_config" => k = "throttle"
      /\ pc'[t] = "insert_throttle" => ~LooksUp(t)'
  BY DEF HasSet, AtEndpoint, NeedsThrottle
<1>3. ~StepOver(t)
  <2>1. nth[t] \in DOMAIN ProgramOf[t] \/ nth[t] = Len(ProgramOf[t]) + 1
    BY DEF ThreadInv, Control
  <2>2. ASSUME StepOver(t) PROVE FALSE
    <3>1. pc'[t] = FirstStep(t, nth[t] + 1)
      BY <2>2 DEF StepOver, Goto, Types
    <3>2. FirstStep(t, nth[t] + 1) \in {"done", "look_up", "wrap", "throttle_config"}
      BY DEF FirstStep
    <3> QED
      BY <1>2, <3>1, <3>2
  <2> QED
    BY <2>2
<1>4. ~Finish(t) /\ ~AssertionFails(t) /\ ~ClientFails(t) /\ ~Wrap(t)
  <2>1. ~Finish(t)
    BY <1>2 DEF Finish, Goto, Types
  <2>2. ~AssertionFails(t) /\ ~ClientFails(t)
    BY <1>2 DEF AssertionFails, ClientFails, Panic, Goto, Types
  <2>3. ~Wrap(t)
    BY <1>2, <1>3 DEF Wrap, Goto, Types
  <2> QED
    BY <2>1, <2>2, <2>3
<1>5. nth'[t] = nth[t] /\ (pc[t] = "endpoint" \/ AtEndpoint(t))
  <2>1. CASE LookupClient(t)
    BY <1>3, <2>1 DEF LookupClient, Lookup, Take, Hold, Obtain
  <2>2. CASE LookupThrottle(t)
    BY <1>3, <2>2 DEF LookupThrottle, Lookup, Take, Hold, Obtain, AtEndpoint, NeedsThrottle
  <2>3. CASE LookupNamed(t)
    <3>1. LooksUp(t)
      BY <2>3 DEF LookupNamed, ThreadInv, Control
    <3>2. pc'[t] = "insert_throttle" /\ nth' = nth
      BY <1>3, <2>3, <3>1 DEF LookupNamed, Lookup, Take, Hold, Goto, Types, InsertLabel
    <3> QED
      BY <1>2, <3>1, <3>2 DEF LooksUp
  <2>4. CASE Reuse(t)
    BY <2>4 DEF Reuse, Obtain, AtEndpoint, NeedsThrottle
  <2>5. CASE InsertClient(t)
    BY <1>3, <2>5 DEF InsertClient, Insert, Take, Hold, Obtain, AtEndpoint
  <2>6. CASE InsertThrottle(t)
    BY <1>3, <2>6 DEF InsertThrottle, Insert, Take, Hold, Obtain, AtEndpoint, NeedsThrottle
  <2> QED
    BY <1>4, <2>1, <2>2, <2>3, <2>4, <2>5, <2>6 DEF Create
<1> QED
  BY <1>1, <1>5 DEF HasSet

LEMMA OwnDefaultsStep ==
  RegistryInv /\ OwnDefaults /\ [RegistryNext]_registryVars => OwnDefaults'
<1> SUFFICES ASSUME RegistryInv, OwnDefaults, [RegistryNext]_registryVars
             PROVE  OwnDefaults'
  OBVIOUS
<1>1. Types /\ \A t \in Threads : ThreadInv(t)
  BY DEF RegistryInv
<1>2. ASSUME NEW t \in Threads, Create(t), NEW k \in Kinds PROVE OwnDefault(t, k)'
  <2>1. OwnDefault(t, k)
    BY DEF OwnDefaults
  <2>2. CASE SetThrottleConfig(t)
    <3>1. SetDefault(t, "throttle") /\ pc'[t] = "client_config" /\ nth' = nth
      BY <1>1, <2>2 DEF SetThrottleConfig, SetDefault, Goto, Types
    <3>2. HasSet(t, k)' => k = "throttle"
      BY <3>1 DEF HasSet, AtEndpoint, NeedsThrottle
    <3>3. Given(t)' = Given(t)
      BY <3>1 DEF Given
    <3>4. Given(t)["throttle"] # None => default'["throttle"] = Given(t)["throttle"]
      BY <1>1, <3>1, SetDefaultEffect DEF Kinds
    <3> QED
      BY <3>2, <3>3, <3>4 DEF OwnDefault
  <2>3. CASE SetClientConfig(t)
    <3>1. SetDefault(t, "client") /\ nth' = nth /\ pc[t] = "client_config"
      BY <2>3 DEF SetClientConfig, SetDefault
    <3>2. Given(t)' = Given(t)
      BY <3>1 DEF Given
    <3>3. CASE k = "client"
      <4>1. Given(t)[k] # None => default'[k] = Given(t)[k]
        BY <1>1, <3>1, <3>3, SetDefaultEffect
      <4> QED
        BY <3>2, <4>1 DEF OwnDefault
    <3>4. CASE k = "throttle"
      <4>1. HasSet(t, k)
        BY <3>1, <3>4 DEF HasSet
      <4>2. default'[k] = default[k] /\ (k \notin overtaken'[t] => k \notin overtaken[t])
        BY <1>1, <3>1, <3>4, SetDefaultEffect DEF Kinds
      <4> QED
        BY <2>1, <3>2, <4>1, <4>2 DEF OwnDefault
    <3> QED
      BY <3>3, <3>4 DEF Kinds
  <2>4. CASE ~SetThrottleConfig(t) /\ ~SetClientConfig(t)
    <3>1. HasSet(t, k)' => /\ HasSet(t, k) /\ nth'[t] = nth[t]
                           /\ default' = default /\ overtaken' = overtaken
      BY <1>1, <1>2, <2>4, HasSetBefore
    <3> QED
      BY <2>1, <3>1 DEF OwnDefault, Given
  <2> QED
    BY <2>2, <2>3, <2>4
<1>3. ASSUME NEW t \in Threads, Create(t), NEW u \in Threads \ {t}, NEW k \in Kinds
      PROVE  OwnDefault(u, k)'
  <2>1. OwnDefault(u, k)
    BY DEF OwnDefaults
  <2>2. pc'[u] = pc[u] /\ nth'[u] = nth[u]
    BY <1>1, <1>3, CreateStep DEF Owns
  <2>3. Given(u)' = Given(u) /\ HasSet(u, k)' = HasSet(u, k)
    BY <2>2 DEF Given, HasSet, AtEndpoint, NeedsThrottle, LooksUp
  <2>4. ASSUME NEW j \in Kinds, SetDefault(t, j), k \notin overtaken'[u]
        PROVE  default'[k] = default[k] /\ k \notin overtaken[u]
    BY <1>1, <2>4, SetDefaultEffect
  <2>5. CASE ~SetThrottleConfig(t) /\ ~SetClientConfig(t)
    <3>1. default' = default /\ overtaken' = overtaken
      BY <1>3, <2>5 DEF Create, LookupClient, LookupThrottle, LookupNamed, Lookup, Reuse,
         InsertClient, InsertThrottle, Insert, ClientFails, AssertionFails, Panic, Finish, Wrap
    <3> QED
      BY <2>1, <2>3, <3>1 DEF OwnDefault
  <2>6. CASE SetThrottleConfig(t) \/ SetClientConfig(t)
    <3>1. k \notin overtaken'[u] => default'[k] = default[k] /\ k \notin overtaken[u]
      BY <2>4, <2>6 DEF SetThrottleConfig, SetClientConfig, Kinds
    <3> QED
      BY <2>1, <2>3, <3>1 DEF OwnDefault
  <2> QED
    BY <2>5, <2>6
<1>4. CASE UNCHANGED registryVars
  BY <1>4 DEF registryVars, OwnDefaults, OwnDefault, HasSet, AtEndpoint, NeedsThrottle,
     LooksUp, Given
<1> QED
  BY <1>2, <1>3, <1>4 DEF OwnDefaults, RegistryNext, AllBuilt

\* When a builder's lookup inserts the entry of a domain, its configuration is the one
\* the builder was given, unless another builder has set the default since: for any
\* number of threads, and whatever they do in between.  Domains that were registered
\* before, by a builder or a lookup by name, keep the configuration they have.
THEOREM OwnConfigurationIsUsed == Spec => OwnConfigUnlessOvertaken
<1> DEFINE A == \A t \in Threads, k \in Kinds :
                  /\ pc[t] = InsertLabel[k] /\ entries' # entries /\ pc'[t] # pc[t]
                  /\ ~LooksUp(t) /\ Given(t)[k] # None /\ k \notin overtaken[t]
                  => entries'[k][Domain(t)].config = Given(t)[k]
<1>1. ObservabilityInit => RegistryInv /\ OwnDefaults
  <2> SUFFICES ASSUME ObservabilityInit PROVE OwnDefaults
    BY RegistryInvInit DEF ObservabilityInit
  <2>1. ASSUME NEW t \in Threads
        PROVE  pc[t] \in {"done", "look_up", "wrap", "throttle_config"}
    BY DEF ObservabilityInit, Init, FirstStep
  <2> QED
    BY <2>1 DEF OwnDefaults, OwnDefault, HasSet, AtEndpoint, NeedsThrottle
<1>2. RegistryInv /\ [Next]_vars => RegistryInv'
  BY RegistryInvStep, ObserversOnlyRead
<1>3. RegistryInv /\ OwnDefaults /\ [Next]_vars => OwnDefaults'
  BY OwnDefaultsStep, ObserversOnlyRead
<1>4. RegistryInv /\ OwnDefaults /\ [Next]_vars => [A]_registryVars
  <2> SUFFICES ASSUME RegistryInv, OwnDefaults, [RegistryNext]_registryVars,
                      NEW t \in Threads, NEW k \in Kinds, pc[t] = InsertLabel[k],
                      entries' # entries, pc'[t] # pc[t], ~LooksUp(t),
                      Given(t)[k] # None, k \notin overtaken[t]
               PROVE  entries'[k][Domain(t)].config = Given(t)[k]
    BY ObserversOnlyRead
  <2>1. Types /\ \A u \in Threads : ThreadInv(u)
    BY DEF RegistryInv
  <2>2. Create(t)
    <3>1. PICK u \in Threads : Create(u)
      BY DEF RegistryNext, AllBuilt, registryVars
    <3>2. u # t => pc'[t] = pc[t]
      BY <2>1, <3>1, CreateStep DEF Owns
    <3> QED
      BY <3>1, <3>2
  <2>3. pc[t] = IF k = "throttle" THEN "insert_throttle" ELSE "insert_client"
    BY DEF InsertLabel, Kinds
  <2>4. Insert(t, k)
    BY <2>2, <2>3 DEF Create, SetThrottleConfig, SetClientConfig, LookupClient,
       InsertClient, ClientFails, LookupThrottle, LookupNamed, Reuse, InsertThrottle,
       AssertionFails, Finish, Wrap, Panic, Kinds
  <2>5. default[k] = Given(t)[k]
    BY <2>3 DEF OwnDefaults, OwnDefault, HasSet, AtEndpoint, NeedsThrottle
  <2>6. Domain(t) \in Domains
    <3>1. Control(t) /\ making[t] \in Vectors
      BY <2>1 DEF ThreadInv, Types
    <3>2. AtEndpoint(t)
      BY <2>3 DEF AtEndpoint, NeedsThrottle
    <3>3. nth[t] \in DOMAIN ProgramOf[t] /\ Len(making[t].cumulative) \in Nat
      BY <2>3, <3>1, LenProperties DEF Control, Vectors
    <3> QED
      BY <3>1, <3>2, <3>3, DomainKnown DEF Control
  <2> DEFINE new == New(k, Domain(t))
  <2>7. entries' = [entries EXCEPT ![k][Domain(t)] = new]
    BY <2>4 DEF Insert
  <2>8. new.config = default[k]
    BY DEF New
  <2> HIDE DEF new
  <2>9. entries'[k][Domain(t)] = new
    BY <2>1, <2>6, <2>7 DEF Types
  <2> QED
    BY <2>5, <2>8, <2>9
<1>5. OwnConfigUnlessOvertaken <=> [][A]_registryVars
  BY DEF OwnConfigUnlessOvertaken
<1> HIDE DEF A
<1> QED
  BY <1>1, <1>2, <1>3, <1>4, <1>5, PTL DEF Spec

-----------------------------------------------------------------------------
(* Observers.                                                                *)

ReaderFields == {"call", "left", "at", "todo", "got"}

\* What an observer in a call has read and has left are the registered domains.
ReaderInv(o) ==
  /\ DOMAIN reader[o] = ReaderFields
  /\ reader[o].call = "none" => reader[o] = NotReading
  /\ reader[o].call # "none" => reader[o].left \cup DOMAIN reader[o].got = Registered
  /\ reader[o].todo # <<>> => reader[o].at \in DOMAIN reader[o].got
ReadersInv == DOMAIN reader = Observers /\ \A o \in Observers : ReaderInv(o)

LEMMA NotReadingInv ==
  ASSUME NEW o, reader[o] = NotReading PROVE ReaderInv(o)
BY DEF NotReading, ReaderInv, ReaderFields

\* A step that changes neither the registered domains nor the observers.
LEMMA ReadersUntouched ==
  ASSUME ReadersInv, UNCHANGED <<reader, Registered>> PROVE ReadersInv'
BY DEF ReadersInv, ReaderInv

LEMMA BeginStep ==
  ASSUME ReadersInv, NEW o \in Observers, NEW call \in DOMAIN Loads, Begin(o, call)
  PROVE  ReadersInv'
<1>1. Registered' = Registered
  BY DEF Begin, registryVars, Registered
<1>2. /\ DOMAIN reader' = Observers
      /\ \A p \in Observers \ {o} : reader'[p] = reader[p]
      /\ reader'[o] = [NotReading EXCEPT !.call = call, !.left = Registered]
  BY DEF Begin, ReadersInv
<1>3. /\ DOMAIN reader'[o] = ReaderFields /\ reader'[o].call = call
      /\ reader'[o].left = Registered /\ reader'[o].todo = <<>> /\ reader'[o].got = <<>>
  BY <1>2 DEF NotReading, ReaderFields
<1>4. call # "none" /\ DOMAIN reader'[o].got = {}
  BY <1>3 DEF Loads
<1>5. ReaderInv(o)'
  <2>1. reader'[o].left \cup DOMAIN reader'[o].got = Registered'
    BY <1>1, <1>3, <1>4
  <2> QED
    BY <1>3, <1>4, <2>1 DEF ReaderInv
<1>6. ASSUME NEW p \in Observers \ {o} PROVE ReaderInv(p)'
  BY <1>1, <1>2 DEF ReadersInv, ReaderInv
<1> QED
  BY <1>2, <1>5, <1>6 DEF ReadersInv

LEMMA LoadStep ==
  ASSUME ReadersInv, NEW o \in Observers, NEW d \in Domains, Load(o, d)
  PROVE  ReadersInv'
<1> DEFINE r == reader[o]
           new == r.todo = <<>>
           todo == IF new THEN Loads[r.call] ELSE r.todo
<1>1. Registered' = Registered
  BY DEF Load, registryVars, Registered
<1>2. IF new THEN d \in r.left ELSE d = r.at
  BY DEF Load
<1>3. PICK v : reader' = [reader EXCEPT
        ![o].left = @ \ {d}, ![o].todo = Tail(todo),
        ![o].at = IF Tail(todo) = <<>> THEN None ELSE d, ![o].got = With(@, d, v)]
  BY DEF Load
<1>4. /\ DOMAIN reader' = Observers
      /\ \A p \in Observers \ {o} : reader'[p] = reader[p]
      /\ DOMAIN reader'[o] = ReaderFields /\ reader'[o].call = r.call
      /\ reader'[o].left = r.left \ {d}
      /\ reader'[o].todo = Tail(todo)
      /\ reader'[o].at = IF Tail(todo) = <<>> THEN None ELSE d
      /\ reader'[o].got = With(r.got, d, v)
  <2> HIDE DEF todo
  <2> QED
    BY <1>3 DEF ReadersInv, ReaderInv, ReaderFields
<1>5. r.call # "none"
  <2>1. r.call = "none" => r.todo = <<>> /\ r.left = {}
    BY DEF ReadersInv, ReaderInv, NotReading
  <2> QED
    BY <1>2, <2>1
<1>6. DOMAIN With(r.got, d, v) = DOMAIN r.got \cup {d}
  BY DEF With
<1>7. d \in r.left \cup DOMAIN r.got
  BY <1>2 DEF ReadersInv, ReaderInv
<1>8. ReaderInv(o)'
  <2>1. reader'[o].left \cup DOMAIN reader'[o].got = Registered'
    BY <1>1, <1>4, <1>5, <1>6, <1>7 DEF ReadersInv, ReaderInv
  <2> HIDE DEF todo
  <2>2. reader'[o].todo # <<>> => reader'[o].at \in DOMAIN reader'[o].got
    BY <1>4, <1>6
  <2> QED
    BY <1>4, <1>5, <2>1, <2>2 DEF ReaderInv
<1> QED
  BY <1>1, <1>4, <1>8 DEF ReadersInv, ReaderInv

\* A thread that registers a domain waits for the observers.
LEMMA WriterWaits ==
  ASSUME ReadersInv, Types, NEW t \in Threads, CreateLocked(t)
  PROVE  ReadersInv'
<1>1. CASE InsertThrottle(t)
  <2>1. \A o \in Observers : reader'[o] = NotReading
    BY <1>1 DEF CreateLocked, Writes, InsertThrottle
  <2>2. \A o \in Observers : ReaderInv(o)'
    BY <2>1 DEF NotReading, ReaderInv, ReaderFields
  <2> QED
    BY <2>2 DEF CreateLocked, ReadersInv
<1>2. CASE ~InsertThrottle(t)
  <2>1. entries'["throttle"] = entries["throttle"]
    <3>1. Create(t)
      BY DEF CreateLocked
    <3>2. CASE InsertClient(t)
      BY <3>2 DEF InsertClient, Insert, Types, Kinds
    <3>3. CASE ~InsertClient(t)
      BY <1>2, <3>1, <3>3 DEF Create, SetThrottleConfig, SetClientConfig, SetDefault,
         LookupClient, LookupThrottle, LookupNamed, Lookup, Reuse, ClientFails,
         AssertionFails, Panic, Finish, Wrap
    <3> QED
      BY <3>2, <3>3
  <2> QED
    BY <2>1, ReadersUntouched DEF CreateLocked, Registered
<1> QED
  BY <1>1, <1>2

LEMMA ReadersInvInit == ObservabilityInit => ReadersInv
<1> SUFFICES ASSUME ObservabilityInit PROVE ReadersInv
  OBVIOUS
<1>1. DOMAIN reader = Observers /\ \A o \in Observers : reader[o] = NotReading
  BY DEF ObservabilityInit
<1> QED
  BY <1>1, NotReadingInv DEF ReadersInv

LEMMA ReadersInvStep == RegistryInv /\ ReadersInv /\ [Next]_vars => ReadersInv'
<1> SUFFICES ASSUME RegistryInv, ReadersInv, [Next]_vars PROVE ReadersInv'
  OBVIOUS
<1>1. ASSUME NEW t \in Threads, CreateLocked(t) PROVE ReadersInv'
  BY <1>1, WriterWaits DEF RegistryInv
<1>2. ASSUME NEW o \in Observers, Observe(o) PROVE ReadersInv'
  <2>1. CASE \E call \in DOMAIN Loads : Begin(o, call)
    BY <2>1, BeginStep
  <2>2. CASE \E d \in Domains : Load(o, d)
    BY <2>2, LoadStep
  <2>3. CASE End(o)
    <3>1. Registered' = Registered
      BY <2>3 DEF End, registryVars, Registered
    <3>2. /\ DOMAIN reader' = Observers /\ reader'[o] = NotReading
          /\ \A p \in Observers \ {o} : reader'[p] = reader[p]
      BY <2>3 DEF End, ReadersInv
    <3> QED
      BY <3>1, <3>2 DEF ReadersInv, ReaderInv, NotReading, ReaderFields
  <2> QED
    BY <1>2, <2>1, <2>2, <2>3 DEF Observe
<1>3. CASE \E d \in Domains : Use(d) \/ Lower(d)
  <2>1. UNCHANGED <<registryVars, reader>>
    BY <1>3 DEF Use, Lower, Change
  <2> QED
    BY <2>1, ReadersUntouched DEF registryVars, Registered
<1>4. CASE UNCHANGED <<registryVars, reader>>
  BY <1>4, ReadersUntouched DEF registryVars, Registered
<1> QED
  BY <1>1, <1>2, <1>3, <1>4 DEF Next, vars, AllBuilt

\* A snapshot has exactly the registered domains, for any number of threads that
\* create transports and of observers that hold the read lock together.
THEOREM SnapshotsAreComplete == Spec => []SnapshotComplete
<1>1. ObservabilityInit => RegistryInv /\ ReadersInv
  BY RegistryInvInit, ReadersInvInit DEF ObservabilityInit
<1>2. RegistryInv /\ [Next]_vars => RegistryInv'
  BY RegistryInvStep, ObserversOnlyRead
<1>3. ReadersInv => SnapshotComplete
  BY DEF ReadersInv, ReaderInv, SnapshotComplete
<1> QED
  BY <1>1, <1>2, <1>3, ReadersInvStep, PTL DEF Spec
=============================================================================
