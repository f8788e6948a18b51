--------------------------- MODULE Observability ---------------------------
(***************************************************************************)
(* Reading the throttle registry while transports are created and used     *)
(* (src/src/throttle.rs): max_domain_backoff, weighted_domain_backoff and  *)
(* throttle_snapshot, which log_throttle_summary calls, hold its read lock *)
(* while they go through the domains in the order of a HashMap, any order. *)
(* What they read of a domain they load one atomic after the other.  What  *)
(* the transports do to a domain is one step here: module Throttle has it  *)
(* atomic by atomic.  The decay by pre_request_delay, an observer's own    *)
(* included, may come at any time and take any number of levels.           *)
(***************************************************************************)
EXTENDS Registry, FiniteSetsExt, Functions

CONSTANTS
  Observers,  \* the threads that read
  MaxEvents   \* bound: successes, 429s and skips of all domains together

ASSUME ObservabilityAssumption == MaxEvents \in Nat

Fresh == [level |-> 0, rateLimits |-> 0, successes |-> 0, skips |-> 0]
Unread == [level |-> 0, delay |-> 0, rateLimits |-> 0, successes |-> 0, skips |-> 0]

\* What each function loads of a domain, in order; the three totals of a snapshot,
\* which no other load depends on, together.
Loads == [max |-> <<"delay">>, weighted |-> <<"successes", "delay">>,
          snapshot |-> <<"level", "delay", "totals">>]
Totals == {"rateLimits", "successes", "skips"}
NotReading == [call |-> "none", left |-> {}, at |-> None, todo |-> <<>>, got |-> <<>>]

VARIABLES
  counters,  \* domain -> level and totals of its DomainThrottleState
  reader,    \* observer -> the call it is in, domains left, loads left, what it has got
  seen       \* history: observer -> domain -> its totals when the call began, and
             \* the levels it had from then until the call had read it

vars == <<registryVars, counters, reader, seen>>

Registered == {d \in Domains : entries["throttle"][d] # NoEntry}
ConfigOf(d) == entries["throttle"][d].config
\* How many successes, 429s and skips there were.
Events == SumFunctionOnSet([d \in Domains |->
            counters[d].rateLimits + counters[d].successes + counters[d].skips], Domains)

ObservabilityInit ==
  /\ Init
  /\ counters = [d \in Domains |-> Fresh]
  /\ reader = [o \in Observers |-> NotReading]
  /\ seen = [o \in Observers |-> <<>>]

(* What transports do to a registered domain *)

\* A change of a domain's counters, which the calls in progress may notice.
Change(d, new) ==
  /\ counters' = [counters EXCEPT ![d] = new]
  /\ seen' = [o \in Observers |->
       [e \in DOMAIN seen[o] |->
         IF e = d /\ (d \in reader[o].left \/ d = reader[o].at)
         THEN [seen[o][e] EXCEPT !.levels = @ \cup {new.level}]
         ELSE seen[o][e]]]
  /\ UNCHANGED <<registryVars, reader>>

\* Faulty variant: a 429 raises the level beyond max_backoff_level.
UseUncapped(d) ==
  /\ d \in Registered /\ Events < MaxEvents
  /\ LET c == counters[d] IN
       \/ Change(d, [c EXCEPT !.level = @ + 1, !.rateLimits = @ + 1])
       \/ Change(d, [c EXCEPT !.successes = @ + 1])
       \/ Change(d, [c EXCEPT !.skips = @ + 1])

\* A 429 (record_rate_limit, record_batch_rejection), a success, record_skip.
Use(d) ==
  /\ d \in Registered /\ Events < MaxEvents
  /\ LET c == counters[d]
         up == IF c.level < ConfigOf(d).max_backoff_level THEN c.level + 1 ELSE c.level
     IN \/ Change(d, [c EXCEPT !.level = up, !.rateLimits = @ + 1])
        \/ Change(d, [c EXCEPT !.successes = @ + 1])
        \/ Change(d, [c EXCEPT !.skips = @ + 1])

\* The decay of some pre_request_delay, or the level record_success gives back.
Lower(d) == \E n \in 0 .. counters[d].level - 1 :
  Change(d, [counters[d] EXCEPT !.level = n])

(* The observers *)

\* The read lock is taken, shared with other observers and with lookups.
Begin(o, call) ==
  /\ reader[o] = NotReading
  /\ reader' = [reader EXCEPT ![o].call = call, ![o].left = Registered]
  /\ seen' = [seen EXCEPT ![o] =
       [d \in Registered |-> [start |-> [f \in Totals |-> counters[d][f]],
                              levels |-> {counters[d].level}]]]
  /\ UNCHANGED <<registryVars, counters>>

\* Faulty variant: the configuration of today's default instead of the domain's.
DelaysOfDefault(d, level) == {DelayOf(default["throttle"], level)}

\* What pre_request_delay may return in a call that finds the level so: ZERO if
\* its first load finds no level, else the delay of what its second load finds.
Delays(d, level) == {DelayOf(ConfigOf(d), level)} \cup IF level = 0 THEN {0} ELSE {}

\* The next load of the domain it is at, or the first of a domain still left.
Load(o, d) ==
  LET r == reader[o]
      new == r.todo = <<>>
      todo == IF new THEN Loads[r.call] ELSE r.todo
      c == counters[d]
      got == IF new THEN Unread ELSE r.got[d]
      values ==
        CASE Head(todo) = "delay" -> {[got EXCEPT !.delay = v] : v \in Delays(d, c.level)}
          [] Head(todo) = "totals" ->
               {[f \in DOMAIN got |-> IF f \in Totals THEN c[f] ELSE got[f]]}
          [] OTHER -> {[got EXCEPT ![Head(todo)] = c[Head(todo)]]}
  IN /\ IF new THEN d \in r.left ELSE d = r.at
     /\ \E v \in values : reader' = [reader EXCEPT
          ![o].left = @ \ {d}, ![o].todo = Tail(todo),
          ![o].at = IF Tail(todo) = <<>> THEN None ELSE d,
          ![o].got = With(@, d, v)]
     /\ UNCHANGED <<registryVars, counters, seen>>

\* All domains are read: the call has its result, and lets the lock go.
Complete(o) ==
  reader[o].call # "none" /\ reader[o].left = {} /\ reader[o].todo = <<>>
End(o) ==
  /\ Complete(o)
  /\ reader' = [reader EXCEPT ![o] = NotReading]
  /\ seen' = [seen EXCEPT ![o] = <<>>]
  /\ UNCHANGED <<registryVars, counters>>

\* Faulty variant: the delay of whichever domain comes last.
SomeDomainBackoff(got) ==
  IF DOMAIN got = {} THEN 0 ELSE got[CHOOSE d \in DOMAIN got : TRUE].delay

\* max_domain_backoff of what an observer has got; ZERO without domains.
MaxDomainBackoff(got) == Max({got[d].delay : d \in DOMAIN got} \cup {0})

\* Faulty variant: a domain without traffic has no weight.
WeightedBySuccesses(got) ==
  LET total == SumFunctionOnSet([d \in DOMAIN got |-> got[d].successes], DOMAIN got)
      delay == SumFunctionOnSet([d \in DOMAIN got |-> got[d].delay * got[d].successes],
                                DOMAIN got)
  IN IF total = 0 THEN 0 ELSE delay \div total

\* weighted_domain_backoff: a domain without traffic weighs 1.
WeightedDomainBackoff(got) ==
  LET weight == [d \in DOMAIN got |-> IF got[d].successes > 1 THEN got[d].successes ELSE 1]
      delay == [d \in DOMAIN got |-> got[d].delay * weight[d]]
      total == SumFunctionOnSet(weight, DOMAIN got)
  IN IF total = 0 THEN 0 ELSE SumFunctionOnSet(delay, DOMAIN got) \div total

(* Composition with the threads that create transports *)

\* The locks of the throttle registry thread t takes to write.
Writes(t) ==
  \/ pc[t] = "insert_throttle"
  \/ pc[t] = "throttle_config" /\ Given(t).throttle # None

\* Faulty variant: writers do not wait for readers.
CreateUnlocked(t) == Create(t) /\ UNCHANGED <<counters, reader, seen>>

\* A writer waits until no observer holds the read lock.
CreateLocked(t) ==
  /\ Writes(t) => \A o \in Observers : reader[o] = NotReading
  /\ Create(t)
  /\ UNCHANGED <<counters, reader, seen>>

Observe(o) ==
  \/ \E call \in DOMAIN Loads : Begin(o, call)
  \/ \E d \in Domains : Load(o, d)
  \/ End(o)

Next ==
  \/ \E t \in Threads : CreateLocked(t)
  \/ AllBuilt /\ UNCHANGED <<counters, reader, seen>>
  \/ \E d \in Domains : Use(d) \/ Lower(d)
  \/ \E o \in Observers : Observe(o)
Spec == ObservabilityInit /\ [][Next]_vars
-----------------------------------------------------------------------------
(* Properties. *)

Counters == [level: Nat, rateLimits: Nat, successes: Nat, skips: Nat]

\* Type invariant: the level of a domain stays within the max_backoff_level it was
\* registered with, which its backoff table may fall short of; a domain that is not
\* registered has no traffic.
TypeOK ==
  /\ RegistryTypeOK
  /\ counters \in [Domains -> Counters]
  /\ \A d \in Registered : counters[d].level <= ConfigOf(d).max_backoff_level
  /\ \A d \in Domains \ Registered : counters[d] = Fresh
  /\ \A o \in Observers : reader[o].call \in DOMAIN Loads \cup {"none"}

\* A snapshot has exactly the registered domains: none is registered while
\* the iteration goes on under the read lock.
SnapshotComplete ==
  \A o \in Observers : reader[o].call # "none" =>
    reader[o].left \cup DOMAIN reader[o].got = Registered

\* Delays domain d had while observer o was in its call.
DelaysSeen(o, d) ==
  {DelayOf(ConfigOf(d), level) : level \in seen[o][d].levels}
    \cup IF 0 \in seen[o][d].levels THEN {0} ELSE {}

\* max_domain_backoff visits the domains one after the other, so its result need
\* not be the maximum at any one instant.  It is never below the backoff some
\* domain had throughout the call, and some domain had it during the call.
MaxWithinCall ==
  \A o \in Observers : Complete(o) /\ reader[o].call = "max" =>
    LET result == MaxDomainBackoff(reader[o].got)
    IN /\ \A d \in Registered : Min(DelaysSeen(o, d)) <= result
       /\ result = 0 \/ \E d \in Registered : result \in DelaysSeen(o, d)

\* weighted_domain_backoff lies between the least and the largest delay its
\* domains had during the call, also before there was any traffic.
WeightedWithinCall ==
  \A o \in Observers : Complete(o) /\ reader[o].call = "weighted" /\ Registered # {} =>
    LET delays == UNION {DelaysSeen(o, d) : d \in Registered}
        result == WeightedDomainBackoff(reader[o].got)
    IN Min(delays) <= result /\ result <= Max(delays)

\* Level and delay of a snapshot are loaded apart, with a decay between them
\* (throttle.rs:440), so they may disagree; each is one the domain had during the
\* call, and a domain that was left alone is reported as it is.
SnapshotWithinCall ==
  \A o \in Observers : Complete(o) /\ reader[o].call = "snapshot" =>
    \A d \in Registered :
      LET snap == reader[o].got[d]
      IN /\ snap.level \in seen[o][d].levels /\ snap.delay \in DelaysSeen(o, d)
         /\ \A f \in Totals :
              snap[f] \in seen[o][d].start[f] .. counters[d][f]
=============================================================================
