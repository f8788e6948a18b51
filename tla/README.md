# alloy-transport-balancer in TLA+

Models, model-checking runs and proofs for the crate in `src/`: a
load-balancing JSON-RPC transport with failover, a backoff shared by all threads
of a process per rate-limit domain, and a transport that groups concurrent
requests into batches.

- [The system](#the-system): components, state, operations, hard behaviours
- [The modules](#the-modules): what models what
- [The runs](#the-runs): what TLC checks, bounds and fairness
- [The proofs](#the-proofs): what TLAPS proves and how
- [Where documentation and code differ](#where-documentation-and-code-differ)
- [Not modelled](#not-modelled) and [Plan](#plan)

## The system

| Component | State | Operations |
|---|---|---|
| `LoadBalancedTransport` (lib.rs) | round-robin counter, one semaphore per limited endpoint; per call: round, rotation, last error | `build`, `call`, `select_endpoint`, drop of a call's future |
| Domain throttle (throttle.rs) | five atomics per domain: level, time of the last 429, success streak, two totals | `pre_request_delay`, `record_rate_limit`, `record_batch_rejection`, `record_success`, `record_skip` |
| Registries (throttle.rs, client_pool.rs) | domain -> throttle state, domain -> HTTP client, two default configurations, each under an `RwLock` | `domain_throttle`, `shared_client_for_domain`, `set_default_*` |
| Observability (throttle.rs) | none of its own; reads the throttle registry under its read lock | `max_domain_backoff`, `weighted_domain_backoff`, `throttle_snapshot`, `log_throttle_summary` |
| Configuration (all files) | endpoint, balancer, throttle, client and batching configurations | `LoadBalancedTransportBuilder`, `EndpointConfig`, defaults, `extract_rate_limit_domain` |
| `BatchingTransport` (batching.rs) | list of pending requests, a `Notify`, a flush loop, batch tasks, one oneshot channel per request | `new`, `call`, `flush_loop`, `send_batch_with_retry`, drop of futures and clones |

**How they interact.** `call` of the balancer picks an endpoint by weight and
walks round the others. For every endpoint it reads the delay of the endpoint's
domain; a domain whose delay reaches `heavy_throttle_threshold` is skipped while
a less throttled endpoint that accepts the request is left in the rotation. A 429
raises the domain's level for all threads of the process, and answers lower it
again, as does time. The batching transport wraps any service, usually the
balancer; a rejected batch reaches the throttle through `on_batch_rejection`.

**What is hard about it, and what must be right.**

- *Balancer.* Levels change between any two reads of a rotation, but a round must
  not end with nothing sent (`last_err.expect`). A permit has to come back on
  every way out of the loop body, dropped futures included. Rounds, offsets,
  skips and size limits may not make a call try an endpoint too often or give up
  too early.
- *Throttle.* No locks, only Relaxed atomics: a 429 is four separate writes,
  increments race with decay and recovery, the clock is read before it is stored
  and may go back. No 429 may get lost, the level may not wrap, recovery may not
  outrun the successes that earn it, and a domain may not stay throttled for ever.
- *Registries.* Between the read lock and the write lock another thread may
  insert the domain. Two states for one domain would each see half of its 429s.
  A builder sets process-wide defaults that another may replace before they are
  used, and may panic half way, in `build()` or where the flush loop is spawned.
- *Observability.* An observer goes through the domains while they change, and
  loads what it reports of one domain one atomic after the other.
- *Batching.* Requests are pushed while the list is drained and chunked; a batch
  answer may cover some requests, all, none or those of others; ids may clash;
  the flush loop keeps the shared state alive only while it waits. Each request
  needs exactly one answer, and every caller has to get one.
- *Both transports together.* Each attempt of a batch is a call that retries by
  itself, and a batch may be refused for its size though no request of it is.

`PROJECT.json` lists each hazard with its line and the properties that cover it.

## The modules

| Module | Models | Used by |
|---|---|---|
| `Balancer` | `LoadBalancedTransport::call` | `MCBalancer`, `BalancerProofs` |
| `Upstream` | what `call` promises about a packet (abstract) | implemented by `Balancer`, a part of `Transports` |
| `Throttle` | `DomainThrottleState`, atomic by atomic | `MCThrottle`, `ThrottleProofs` |
| `Backoff` | what it promises of the level (abstract) | implemented by `Throttle` |
| `Batching` | `BatchingTransport`, the flush loop and its tasks | `MCBatching`, `BatchingProofs`, `Transports` |
| `Delivery` | what a transport promises about a request (abstract) | implemented by `Batching` |
| `Transports` | `BatchingTransport` over `LoadBalancedTransport` | `MCTransports`, `TransportsProofs` |
| `RateLimitDomain`, `Configuration`, `Examples` | host names and their domains; what a program configures; the programs of `src/examples` | `Registry`, `MCObservability` |
| `Registry` | `build()`, `BatchingTransport::new` and both registries | `Observability` |
| `Observability` | the functions that read the registry, together with `Registry` | `MCObservability`, `RegistryProofs`, `ObservabilityProofs` |
| `SumProofs` | no code: lemmas about sums, least and largest elements | `BalancerProofs`, `TransportsProofs`, `ObservabilityProofs` |

**Balancer.** `counter` is the shared counter, `permits` the semaphores, `level`
the throttle of each domain. A call is its `pc` with `round`, `start`
(`start_idx`), `attempt` and `scan` (the offsets of the loop over attempts and of
the `any` over the remaining endpoints), `own` (the delay it has read) and
`lastErr`. `Begin` is the size check; `Select` the head of a round; `PassOver` the
`continue` for endpoints that are too small; `Consider` the first
`pre_request_delay`; `ScanPast`, `Skip` and `Keep` the search for an alternative,
one read of a throttle a step; `Send` the permit and the request; `Finish` and
`FailOver` its answers; `FailoverDelayOver` the end of the pause after a 429, in
which the permit is still held; `EndRound` the end of the loop. `Cancel` drops the
future at an await. Errors are the classes `is_retryable` and `is_rate_limit` tell
apart. The throttle is seen through its effect: reading a delay may lower the
level by decay, a 429 raises it, a success may lower it by one, and
`OtherTransport` changes it at will for domains that are used elsewhere too.
Sleeps are the time before the next step. What `build()` asserts is
`ConfigAssumption`. The refinement of `Upstream` maps a call to "open" from
`Begin` until it returns or is cancelled, and counts its sends over all endpoints.

**Throttle.** Every atomic operation is a step, and a thread has its own `pc` and
`local` (the timestamp or the number of levels it holds). Relaxed operations on
different atomics may become visible in any order: the writes of
`record_rate_limit` and the reset and recovery of `record_success` are the set
`todo`, taken in any order; loads see the latest value, so what only a stale load
could do is left out. `record_batch_rejection` does what `record_rate_limit` does.
The two totals, which no decision reads, change with a function's first step.
`counted`, `recovered`, `escalated`, `lowered`, `decayed`, `given` and `active` are
history variables of the properties. The refinement of `Backoff` counts as owed
the 429s that a thread has begun to record and that have not reached the level.

**Delivery and Batching.** `Delivery` says of a set of requests: submitted
together, transmitted a bounded number of times, answered once, never transmitted
after that. `Batching` has `pending`, the permit `notified`, the flush loop
(`flusher`, `remaining`), the calls (`pc`, `next`, `result`), the oneshot channels
(`reply`), the batch tasks (`batches`: outstanding requests and attempt) and the
tasks that send one request each (`groups`, with the requests waiting for their
semaphore and those being sent). `Push` and `NotifyOne` are the two halves of
`call`; `Upgrade`, `Wake`, `Drain`, `SpawnChunk` the flush loop, which holds the
shared state in `Wake` and `Drain` only (`Alive`); `StartBatch`, `SendBatch`,
`LastAttempt`, `BatchResponse`, `BatchFails` are `send_batch_with_retry`; `SendOne`
and `OneReply` the spawned single requests. A channel is closed (`Received`) when
its sender was dropped unused: nothing holds the request any more (`Held`) and it has no
reply, or the task that held it panicked. Responses are for any subset of the
ids, others are ignored; none that matches is a rejection. The refinement maps a
request to "answered" once its channel was used or dropped, to "open" while it is
in the list, in a drained chunk or with a task, and to "new" before.

**Transports.** Extends `Batching`; a packet, which is the requests of a batch and
the number of its attempt, or a single request, is a call of an instance of
`Upstream`. `BatchDone` and `SingleDone` are the steps in which a task takes the
result of that call: an "ok" is `BatchResponse`, an error `BatchFails`. The promise of
`Upstream`, which `Balancer` is proved to keep (`CallsKeepTheirPromise`), stands for the
balancer.

**Configuration, RateLimitDomain, Examples.** Configurations and builders are
records, the builder's methods update them. A host is the sequence of its labels;
its domain the last two of them. `Examples` has the transports each program of
`src/examples` creates.

**Registry.** A thread has a program, transports to create and domains to look up
by name. A builder sets the defaults it was given, then fills its vectors
(`making`), endpoint by endpoint: assertions, client, throttle. `Lookup` is done under
the read lock, `Insert` under the write lock, `Reuse` for a domain this builder has
already met. `Panic` is a failed assertion of `build()`, or a client that cannot be
built while the write lock is held (the poisoned lock is taken over). `Finish` makes
the transport (`built`), `Wrap` is `BatchingTransport::new`, which panics where there
is no tokio runtime. `overtaken` is a history variable.

**Observability.** Adds to `Registry` the counters of each domain (`counters`),
changed by traffic (`Use`, `Lower`), and observers. `Begin` takes the read lock, so
that `CreateLocked` lets no thread write until `End`; `Load` reads the next atomic of
a domain, and the next domain is any that is left, as a `HashMap` gives no order.
A delay is read by `pre_request_delay`, which looks at the level twice. `seen` is a
history of what a domain's level was during the call.

**Faulty variants.** Each module defines, next to an action, a variant of it with
a plausible mistake (comment "Faulty variant"). No specification uses them: with
the variant in place of the action a property named in `PROJECT.json` fails, which
shows that the property depends on the code being right.

## The runs

| Run | Checks | Instance |
|---|---|---|
| `balancer_safety` | `TypeOK`, `NeverPanics`, `PermitsConserved`, `VisitsBounded`, `GivesUpAfterFullRotations`, `WeightedShare` | 2 calls, 3 endpoints in 2 domains, one also driven from elsewhere; 2 rounds; 1.4M states |
| `balancer_live` | `EveryCallReturns`, `ImplementsUpstream` | 3 calls (one fits nowhere), 2 endpoints with one permit each, levels 0 to 2; 129k states |
| `balancer_all_fail` | `SeenOnlyIfAllFail` is violated | 2 calls, 2 endpoints |
| `throttle_race` | `TypeOK`, `EscalationsNotLost`, `RecoveryRateBounded`, `ImplementsBackoff` | 2 threads, 3 429s, 4 successes, clock moves both ways; 3.9M states |
| `throttle_live` | `NoPermanentStall` | 2 threads, 2 429s, 2 successes |
| `throttle_racing_successes`, `throttle_stale_decay`, `throttle_compound_decay` | a documented property is violated | 2 threads; 2 threads; 1 thread |
| `batching_retries` | `TypeOK`, `OneOwner`, `NoneStranded`, `GoneOnlyByPanic`, `BatchComesFirst`, `EveryCallReturns`, `ImplementsDelivery` | a Single and a Batch of 3 with a shared id, chunks of up to 3, 2 retries, panics of the inner transport; 329k states |
| `batching_accumulate` | `FlushesWhenFullOrDue` is violated | one Single, one empty Batch |
| `process` | `TypeOK`, `OnePerDomain`, `FinishedIsUsable`, `SnapshotComplete`, `MaxWithinCall`, `WeightedWithinCall`, `SnapshotWithinCall`, `OwnConfigUnlessOvertaken` | 2 programs, 4 endpoints in 2 domains, one lookup by name, one observer, 2 events; 1.3M states |
| `transports` | `WireBounded`, `RefusedUnsent`, `ResponsesAreReal`, `AnsweredLeavesTheWire` | a Single and a Batch of 2; an endpoint takes the requests of either, none those of both; 819k states |

**What they show.** The balancer gives every endpoint its turn in every round and
no more, never ends a round without an error to return, and loses no permit,
whatever happens to levels between its reads; to its caller it is `Upstream`. The
throttle loses no 429 and gives back no more than its successes earn, up to one level
per racing thread; to the balancer it is `Backoff`. Every batched request is owned by
one place at a time, gets one answer, and is on no wire after it;
`backend_gone` reaches a caller only where the inner transport panicked. One domain
has one throttle and one client in the whole process, whoever panics; an observer reports
values the domains had during its call, though perhaps not all at one moment. Of
both transports together: retries multiply, sizes refuse a batch as a whole before
any of it was sent, and a response always comes from an endpoint.

**Why the bounds are enough.** Three endpoints are the least that have a rotation
with one endpoint considered, one passed over and one left as an alternative; two
rounds the least in which a round begins where another left the counter; two calls
the least that compete for a permit. The counter's range is small enough to wrap
in `balancer_live` (3) and larger than the total weight in `balancer_safety`, where
`WeightedShare` is looked at for several values. Two threads and a level of 2 let
every pair of atomic steps interleave at level 0, at the cap and between; the cast
of the decay to `u32` is at 2, so it drops bits. Four requests in chunks of
three split the list, and a shared id makes a chunk with a duplicate; two partial
answers reduce three requests to one for the final attempt: two retries have a first,
a middle and a last one. The inner transport fails by a panic there and by an error in
`transports`: either ends all requests of the attempt, and a call that gets an `Err`
through its channel rather than a closed channel is in the run by way of the shared id. In `process` two programs race for the domain they share
while one of them alone registers another; one panics in `build()` and one in
`BatchingTransport::new`, which also succeeds once; two events make a domain whose
level, weight and delay differ from another's, and one configuration has a backoff
table that is shorter than its `max_backoff_level`. In `transports` a batch of all
three requests is refused, one of either call's
is taken. Bounds are the constants
marked "bound" in `Throttle` and `Observability`, and the sizes of the sets elsewhere: every call is
made once.

**Symmetry** is used in `throttle_race` only: its properties are invariants and a
refinement without fairness, and treat threads alike.

**Deadlock** is checked in every run. `Balancer`, `Batching`, `Transports` and `Registry` have a
stuttering disjunct for the state in which everything has ended; a throttle's
clock, or its readers, always have a step.

**Fairness.** `Balancer`: weak fairness of each call's steps, since the executor
polls woken tasks, sleeps end, and an HTTP request ends by its timeout (30 s by
default, client_pool.rs:46); strong fairness of `Send`, since a tokio semaphore
serves its waiters in order. Cancelling and other transports have none.
`Throttle`: time passes, a function that was begun ends, and requests keep
asking for their delay (the decay runs nowhere else: an idle domain keeps its
level). `Batching`: weak fairness of each call, of the flush loop, whose timer
fires, and of its tasks, whose inner transport answers or fails in the end.
Cancelling and closing have none. `Observability` and `Transports` are checked for
safety only; the liveness of their parts is in the runs above.

## The proofs

TLAPS checks these for every value of the constants that the named assumptions
allow: any number of calls, endpoints, domains and threads, any weights, limits,
levels and thresholds.

**`SumProofs`** (no assumptions) is what the other modules need of the folds they count
with. The prover cannot instantiate the library's induction theorems, so each lemma is
an induction by a least counterexample: of the subsets of a finite set for which it
fails one would be least (`LeastSubset`), and taking an element out of that one leaves a set
for which it holds. In this way the fold satisfies its recursion equation
(`FoldExists`, `SumEquation`), does not depend on the order (`SumWithout`), and sums are
monotonic, bounded and scaled as expected.

**`BalancerProofs`** (from `ConfigAssumption`, which is what `build()` asserts). `TypeCorrect`:
levels and offsets stay in range, in particular `select_endpoint` always names an
endpoint. `SharesAreWeights`: every `total_weight` consecutive ticks select each endpoint as
often as its weight says. The boundaries `build()` computes exist, grow and end with the total
(`CumulativeExists`, `CumulativeGrows`), `partition_point` finds the one bucket in which a
tick falls (`SelectsByBucket`), and of consecutive ticks each remainder has one
(`TicksOfBuckets`). `NoPanic`: `last_err.expect()` never fails. `NeverPanics` is not
inductive; the strengthening is `CallInv`: while a call is at the head of the loop
body, either it has an error, or an endpoint that accepts the request is still to
come in the rotation; while it considers an endpoint, that endpoint accepts the
request and alternatives lie after it. So passing an endpoint over or skipping it
keeps an accepting one to come, and at the end of a rotation, where none can
come, there is an error. `RotationCovers` starts it: a rotation meets every
endpoint. `PermitsKept`: a permit is free or belongs to one of the calls in
`Holders`; it is inductive
once the types are known. A step of one call changes `Holders` by that call at most
(`OneArrives`, `OneLeaves`), by `Send` and by `Release` on each way out of the loop body.
`VisitsAreBounded` and `RotationsAreFull` share one invariant
(`VisitInv`): between rounds a call has visited each endpoint that accepts the request
once a round, within a round once more if the endpoint's offset has had its turn.
`RotationInjective` (different offsets are different endpoints) and `RotationCovers`
(every endpoint has one) carry it from round to round. Levels and permits play no
part in it, so other calls cannot disturb it. `CallsKeepTheirPromise`: `call` implements
`Upstream`. Its number of sends is a sum over the endpoints (`TimesSentIsSum`); before a
send the endpoint's own turn is still to come by `VisitInv`, which leaves room for one more below
`(max_retry_rounds + 1) * endpoints` (`RoomForOneMore`); a call that returns an
answer has sent, since an error it has to show is from an endpoint (`SentInv`).

**`ThrottleProofs`** (from `ThrottleAssumption`). `TypeCorrect`: no interleaving
moves the level below 0 or above `max_backoff_level`; it needs `ThreadInv`, that a timestamp
about to be stored was read from the clock. `NoEscalationLost`: inductive with the
types. `RecoveryBounded`: N threads give back at most N levels for
`threshold - 1 + N` successes. The invariant `StreakInv` splits levels granted
(given back, or with a thread on its way to lower the level) into those of the
current streak and earlier ones. A streak of c successes has sent
`c - (threshold - 1)` threads to reset it, and all of them still are in
`Resetting`, for the first to arrive ends the streak: there are at most N. Earlier
grants are paid for by the successes counted before the streak; `StreakPays` is the
arithmetic that moves the current streak over to them. For one thread the bound is
the documented `threshold` successes per level, and
`throttle_racing_successes` shows that two threads need the weaker one.
`RefinesBackoff`: every step of every thread is a step of `Backoff` or leaves level and
owed 429s alone; what is owed is the number of threads that have begun to record a 429 and
not yet raised the level (`Owing`).

**`RegistryProofs`** (from `RegistryAssumption` and `ObservabilityAssumption`), for any
number of threads, programs and observers. `OneStatePerDomain`: each endpoint and each
lookup has the entry registered for its domain. `BuiltTransportsAreUsable`: what
`build()` returns satisfies what `call` relies on. Both follow from `RegistryInv`: the
registry only grows (`GrowsTo`), so what was registered when a thread took it still is
(`Held`); the vectors are filled evenly, the client of an endpoint one step before
the rest (`Even`, `Filling`); each complete element has passed the assertions
(`UsableSoFar`). A step of one thread concerns the others only through the growth of
the registry (`OtherThreads`). `SnapshotsAreComplete`: `ReadersInv`, that the domains
an observer has read and has left are those registered, holds because a thread that
would register one waits (`WriterWaits`).
`OwnConfigurationIsUsed`, an action property, is about the step in which a builder's lookup inserts a
domain's entry: it gets the configuration the builder was given, unless another builder has set
the default since. Of a domain that was registered before, by whomever, it says nothing: that one
keeps what it has. It follows from `OwnDefaults`, that from where a
builder has set a default until it looks up its domains, the default is the one it was given or
the builder is in `overtaken`.

**`ObservabilityProofs`** (from the same assumptions). `ObservabilityTypes`,
`SnapshotsAreOfTheCall`, `MaximaAreOfTheCall`, `AveragesAreOfTheCall` are
all of `ObservabilityInv`. Of each domain it says that its level is one of those seen for as
long as the observer has still to read it (`SeenInv`), and that what the observer has got of
it is a level, a delay and totals of the call (`GotInv`), even where the
loads of one domain are steps apart; `WriterWaits` keeps the set of domains, and
`ConfigInv` the configurations, as they were when the call began. What is bounded: a level by
`max_backoff_level`, not by the length of the table, which `delay` reads past its end as
2000 ms; the maximum, from below by the least delay each domain had in the call; the
weighted average by the least and the greatest delay any domain had in it. The last
follows from the sums of the readings and of these two delays, weighted alike
(`DivisionBetween`), with and without traffic.

**`BatchingProofs`** (from `BatchingAssumption`: finitely many requests, each
belongs to one call, which names it once). The invariant `BatchingInv` is about each request: it is at
most once in the list and in the drained chunk, or with one task (`OneHolder`), and
where it is says how often it was sent (`BatchInv`, `GroupInv`); it is nowhere before its call
pushes it (`NotYet`) and nowhere once it has an answer. Chunking, duplicate ids, partial
answers, rejection and the fallback to individual requests each move some requests from one place
to another, and what moves is disjoint from what stays. From it follow
`BatchingTypes` (with the bound on sends), `RequestsHaveOneOwner`, `NoCallIsStranded`
(`LoopInv`: the loop exits only when `Weak::upgrade` fails, and a running call keeps
the state alive), `GoneIsAPanic` (an unanswered request of a waiting call is always held, so its
channel closes only by a panic), `BatchesComeFirst`, `BatchesComeFirst`, and that every step is one of `Delivery` or
none: `BatchingImplementsDelivery`.

**`TransportsProofs`** (in addition from `TransportsAssumption`). Every step of the composition is a
step of `Batching` or leaves it alone, so `BatchingInv` holds here too. `TransportsInv` adds the
packets: a packet that was touched belongs to an attempt its requests have made
(`PacketInv`), of one attempt no two packets share a request (`OnePerAttempt`), and what is
left of a batch is a part of every earlier packet it shares a request with (`ShrinkInv`). So a request is in at most
`max_missing_retries + 1` packets, each sent as often as `Upstream` allows:
`WireIsBounded`. A packet that fits makes all that are parts of it fit, and packets
that meet are parts of one another: `RefusalsAreUnsent`. `ResponsesAreOfEndpoints` and
`AnsweredAreNotSent` follow from where answers come from (`ResponseInv`, `ReceivedInv`).

**Only model-checked.** `EveryCallReturns` of `Balancer` and of `Batching` and `NoPermanentStall`
of `Throttle`: liveness under fairness is outside the prover's reach. Every other property of
a passing run is a theorem. The five properties that are found violated are false.

## Where documentation and code differ

Five runs check what a comment or the crate's README says and find it violated.

- `throttle_compound_decay`: the decay counts from the last 429 on every call
  and is taken off the level already decayed, so after one interval each request
  drops another level (throttle.rs:39 to 47, README.md:234).
- `throttle_racing_successes`: successes that pass the threshold before one of
  them resets the streak each drop a level (throttle.rs:11).
- `throttle_stale_decay`: two threads record 429s; the older timestamp is stored
  last, and the decay takes the level away at once (throttle.rs:250). With one
  thread the property holds.
- `balancer_all_fail`: an endpoint that is heavily throttled in every round is
  never tried, and the caller sees the other endpoint's error (README.md:360).
- `batching_accumulate`: each push notifies the flush loop, which flushes as soon
  as it runs; neither the size nor the interval has been reached
  (batching.rs:102 to 104).

Smaller ones, without a run: with `max_missing_retries = 0` no batch is ever sent,
against batching.rs:54; no code makes the "missing response in batch" error
of batching.rs:131 and README.md:375, and a batch refused for its size fails all its
callers; `weighted_domain_backoff` has no fallback to the maximum, though
throttle.rs:372 says so: without successes it is the plain average;
`log_throttle_summary` logs a domain with neither a 429 nor a level at DEBUG, though
throttle.rs:449 says it logs "all domain throttle states at INFO level" (throttle.rs:456
has "INFO/DEBUG"); `BatchingTransport::new` panics outside a tokio runtime, where `tokio::spawn` does,
while "# Panics" (batching.rs:133) names the batch size only: the examples `basic`,
`batching_only` and `multi_chain` call it from a `main` that is not async, and
chart_data.rs:205 takes care of it; two 429s recorded at once can move `last_rate_limit_at`
back, against "monotonic" in throttle.rs:80; a call that waits for a permit sends
with the delay it read before.

## Not modelled

- HTTP, TLS, HTTP/2 and what `reqwest` does with its options: an external library;
  an endpoint is its set of possible answers.
- URLs beyond their host names, and IP addresses as hosts, which
  `extract_rate_limit_domain` cuts as it does names.
- The chart generator and the benchmarks: they time a mock transport and draw SVG
  files. What the examples print.
- Log lines (`log_throttle_summary` logs a snapshot) and `Debug` implementations, which
  only format.
- Time in the balancer and the batching transport: delays only order events.
- Delays in milliseconds in `Balancer`: a level is heavy or not. `Observability` has
  the backoff table.
- Stale Relaxed loads, beyond the order in which writes become visible.
- Liveness of `Transports`: its state space with fairness is too large; each transport
  by itself is live.

## Plan

1. Proofs of the safety half of liveness: that a call which may step is never
   without a step it can take, and the measure each of its steps lowers.
2. Rejection of a batch raising the throttle of the domain it was sent to
   (`on_batch_rejection` of `README.md`), across `Transports` and `Throttle`.
3. Liveness of a smaller composition of both transports.
