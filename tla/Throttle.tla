------------------------------ MODULE Throttle ------------------------------
(***************************************************************************)
(* DomainThrottleState (src/src/throttle.rs): the backoff of one           *)
(* rate-limit domain, shared without locks by every thread of the process. *)
(* Threads call pre_request_delay, record_rate_limit, record_success and   *)
(* record_batch_rejection on it.                                           *)
(*                                                                         *)
(* Every load, store and read-modify-write of an atomic is a step.  All    *)
(* are Relaxed, so other threads may see the writes a function makes to    *)
(* different atomics in any order: they are a set of writes to do.  One    *)
(* unit of the clock is any number of milliseconds.  total_successes and   *)
(* total_rate_limits, which no function here reads, change with the first  *)
(* step of their function; a level stands for its entry of backoff_table.  *)
(***************************************************************************)
EXTENDS Integers, FiniteSets

CONSTANTS
  Threads,         \* the threads that call into the throttle
  Functions,       \* the functions they call
  MaxLevel,        \* max_backoff_level
  Threshold,       \* recovery_threshold
  Interval,        \* decay_interval_ms, in units of the clock
  DecayMod,        \* 2^32: decayable is cast to u32
  FirstTime,       \* the clock at the start
  MaxClock,        \* bound: the clock stops there
  LastRateLimit,   \* bound: no 429 is received after this time
  MaxRateLimits,   \* bound: 429s recorded
  MaxSuccesses,    \* bound: successes recorded
  ClockMayGoBack   \* SystemTime is not monotonic

ASSUME ThrottleAssumption ==
  /\ IsFiniteSet(Threads)
  /\ MaxLevel \in Nat /\ Threshold \in Nat
  /\ Interval \in Nat \ {0} /\ DecayMod \in Nat \ {0}
  /\ FirstTime \in Nat \ {0} /\ MaxClock \in Nat /\ FirstTime <= MaxClock
  /\ LastRateLimit \in Nat /\ MaxRateLimits \in Nat /\ MaxSuccesses \in Nat
  /\ ClockMayGoBack \in BOOLEAN

Levels == 0 .. MaxLevel
Least(a, b) == IF a <= b THEN a ELSE b
Minus(a, b) == IF a >= b THEN a - b ELSE 0     \* saturating_sub

VARIABLES
  clock,       \* SystemTime::now()
  level,       \* backoff_level
  lastRl,      \* last_rate_limit_at
  consec,      \* consecutive_successes
  rateLimits,  \* total_rate_limits
  successes,   \* total_successes
  pc,          \* thread -> next step of the function it is in
  todo,        \* thread -> atomics its function has still to write
  local,       \* thread -> the timestamp, or number of levels, it holds
  counted,     \* history: increments of consecutive_successes
  recovered,   \* history: levels given back for successes
  escalated,   \* history: 429s that have reached backoff_level
  lowered,     \* history: by how much the level has gone down in all
  decayed,     \* history: decay since last_rate_limit_at was written
  given,       \* history: thread -> level whose delay it was last given
  active       \* history: thread -> time of the 429 it recorded last, or 0

shared  == <<clock, level, lastRl, consec, rateLimits, successes>>
totals  == <<rateLimits, successes>>
counts  == <<counted, recovered, escalated, lowered, decayed>>
history == <<counts, given, active>>
vars    == <<shared, pc, todo, local, history>>

Goto(t, label) == pc' = [pc EXCEPT ![t] = label]
Hold(t, v)     == local' = [local EXCEPT ![t] = v]

\* One of the writes of t's function is done; the last one ends the function.
Written(t, atomic) ==
  /\ atomic \in todo[t]
  /\ todo' = [todo EXCEPT ![t] = @ \ {atomic}]
  /\ IF todo[t] = {atomic} THEN Goto(t, "idle") ELSE UNCHANGED pc

-----------------------------------------------------------------------------
Init ==
  /\ clock = FirstTime
  /\ level = 0 /\ lastRl = 0 /\ consec = 0
  /\ rateLimits = 0 /\ successes = 0
  /\ pc     = [t \in Threads |-> "idle"]
  /\ todo   = [t \in Threads |-> {}]
  /\ local  = [t \in Threads |-> 0]
  /\ given  = [t \in Threads |-> 0]
  /\ active = [t \in Threads |-> 0]
  /\ counted = 0 /\ recovered = 0 /\ escalated = 0 /\ lowered = 0 /\ decayed = 0

(* pre_request_delay *)

\* The first load of the level; at level 0 there is nothing to do.
StartDelay(t) ==
  /\ "delay" \in Functions /\ pc[t] = "idle"
  /\ IF level = 0
     THEN given' = [given EXCEPT ![t] = 0] /\ UNCHANGED pc
     ELSE Goto(t, "loadLast") /\ UNCHANGED given
  /\ UNCHANGED <<shared, todo, local, counts, active>>

LoadLast(t) ==
  /\ pc[t] = "loadLast"
  /\ Hold(t, lastRl)
  /\ Goto(t, IF lastRl > 0 THEN "readClock" ELSE "readLevel")
  /\ UNCHANGED <<shared, todo, history>>

\* Whole intervals since the timestamp, cast to u32.
Decayable(last) == (Minus(clock, last) \div Interval) % DecayMod

ReadClock(t) ==
  /\ pc[t] = "readClock"
  /\ Hold(t, Decayable(local[t]))
  /\ Goto(t, IF Decayable(local[t]) > 0 THEN "decay" ELSE "readLevel")
  /\ UNCHANGED <<shared, todo, history>>

\* Faulty variant: the level is lowered only when it stays positive.
DecayKeepsOne(t) ==
  /\ pc[t] = "decay"
  /\ level' = IF local[t] < level THEN level - local[t] ELSE level
  /\ lowered' = lowered + (level - level')
  /\ decayed' = decayed + (level - level')
  /\ Goto(t, "readLevel")
  /\ UNCHANGED <<clock, lastRl, consec, totals, todo, local, counted, recovered,
                 escalated, given, active>>

\* Faulty variant: an unchecked subtraction (what wraps in u32 is negative here).
DecayWraps(t) ==
  /\ pc[t] = "decay"
  /\ level' = level - local[t]
  /\ Goto(t, "readLevel")
  /\ UNCHANGED <<clock, lastRl, consec, totals, todo, local, history>>

\* fetch_update: decayable.min(cur) levels less.
Decay(t) ==
  /\ pc[t] = "decay"
  /\ level' = Minus(level, local[t])
  /\ lowered' = lowered + (level - level')
  /\ decayed' = decayed + (level - level')
  /\ Goto(t, "readLevel")
  /\ UNCHANGED <<clock, lastRl, consec, totals, todo, local, counted, recovered,
                 escalated, given, active>>

\* The second load, whose delay is returned.
ReadLevel(t) ==
  /\ pc[t] = "readLevel"
  /\ given' = [given EXCEPT ![t] = Least(level, MaxLevel)]
  /\ Goto(t, "idle")
  /\ UNCHANGED <<shared, todo, local, counts, active>>

(* record_rate_limit, and record_batch_rejection, which does the same *)

StartRateLimit(t) ==
  /\ "rate_limit" \in Functions /\ pc[t] = "idle"
  /\ rateLimits < MaxRateLimits /\ clock <= LastRateLimit
  /\ rateLimits' = rateLimits + 1
  /\ Hold(t, clock)
  /\ todo' = [todo EXCEPT ![t] = {"last", "streak", "level"}]
  /\ active' = [active EXCEPT ![t] = clock]
  /\ given'  = [given EXCEPT ![t] = MaxLevel]
  /\ Goto(t, "rate_limit")
  /\ UNCHANGED <<clock, level, lastRl, consec, successes, counts>>

StoreLast(t) ==
  /\ Written(t, "last")
  /\ lastRl' = local[t]
  /\ decayed' = 0
  /\ UNCHANGED <<clock, level, consec, totals, local, given,
                 counted, recovered, escalated, lowered, active>>

\* Faulty variant: the cap is exclusive.
EscalateBelowCap(t) ==
  /\ pc[t] = "rate_limit" /\ Written(t, "level")
  /\ level' = IF level + 1 < MaxLevel THEN level + 1 ELSE level
  /\ escalated' = escalated + 1
  /\ UNCHANGED <<clock, lastRl, consec, totals, local, given,
                 counted, recovered, lowered, decayed, active>>

\* fetch_update: one level up, to max at most.
Escalate(t) ==
  /\ pc[t] = "rate_limit" /\ Written(t, "level")
  /\ level' = Least(level + 1, MaxLevel)
  /\ escalated' = escalated + 1
  /\ UNCHANGED <<clock, lastRl, consec, totals, local, given,
                 counted, recovered, lowered, decayed, active>>

(* record_success *)

\* A success at level 0 counts for nothing but the total.
StartSuccess(t) ==
  /\ "success" \in Functions /\ pc[t] = "idle"
  /\ successes < MaxSuccesses
  /\ successes' = successes + 1
  /\ active' = [u \in Threads |-> 0]
  /\ IF level = 0 THEN UNCHANGED pc ELSE Goto(t, "count")
  /\ UNCHANGED <<clock, level, lastRl, consec, rateLimits, todo, local, counts, given>>

\* fetch_add, and the comparison of prev + 1 with the threshold.
Count(t) ==
  /\ pc[t] = "count"
  /\ consec' = consec + 1
  /\ counted' = counted + 1
  /\ IF consec + 1 >= Threshold
     THEN /\ todo' = [todo EXCEPT ![t] = {"streak", "level"}]
          /\ Goto(t, "recover")
     ELSE Goto(t, "idle") /\ UNCHANGED todo
  /\ UNCHANGED <<clock, level, lastRl, totals, local, given,
                 recovered, escalated, lowered, decayed, active>>

\* Faulty variant: the streak is not reset.
StreakKept(t) ==
  /\ Written(t, "streak")
  /\ UNCHANGED <<shared, local, history>>

\* The streak starts again, after a 429 or after a recovery.
ResetStreak(t) ==
  /\ Written(t, "streak")
  /\ consec' = 0
  /\ UNCHANGED <<clock, level, lastRl, totals, local, history>>

\* fetch_update: one level down.
Recover(t) ==
  /\ pc[t] = "recover" /\ Written(t, "level")
  /\ level' = Minus(level, 1)
  /\ recovered' = recovered + (level - level')
  /\ lowered' = lowered + (level - level')
  /\ UNCHANGED <<clock, lastRl, consec, totals, local, given,
                 counted, escalated, decayed, active>>

(* The system clock *)

Tick ==
  /\ \/ clock < MaxClock /\ clock' = clock + 1
     \/ ClockMayGoBack /\ clock > 1 /\ clock' = clock - 1
  /\ UNCHANGED <<level, lastRl, consec, totals, pc, todo, local, history>>

\* pre_request_delay runs on: begun, it ends.
DelaySteps(t) == LoadLast(t) \/ ReadClock(t) \/ Decay(t) \/ ReadLevel(t)

Step(t) ==
  \/ StartDelay(t) \/ DelaySteps(t)
  \/ StartRateLimit(t) \/ StoreLast(t) \/ Escalate(t)
  \/ StartSuccess(t) \/ Count(t) \/ ResetStreak(t) \/ Recover(t)

Next == Tick \/ \E t \in Threads : Step(t)
Spec == Init /\ [][Next]_vars

\* Time passes, a function that has begun ends, and requests keep asking for
\* their delay: what is needed for the time-based decay to work at all.
Advance(t) ==
  DelaySteps(t) \/ StoreLast(t) \/ Escalate(t) \/ Count(t) \/ ResetStreak(t) \/ Recover(t)
Fairness ==
  /\ WF_vars(Tick)
  /\ \A t \in Threads : WF_vars(StartDelay(t)) /\ WF_vars(Advance(t))
FairSpec == Spec /\ Fairness
-----------------------------------------------------------------------------
(* Properties. *)

Labels == {"idle", "loadLast", "readClock", "decay", "readLevel",
           "rate_limit", "count", "recover"}

\* Type invariant: the level never passes max_backoff_level, in particular it
\* does not wrap when two threads lower it at once.
TypeOK ==
  /\ clock \in 1 .. MaxClock
  /\ level \in Levels
  /\ lastRl \in 0 .. MaxClock
  /\ consec \in Nat
  /\ rateLimits \in Nat /\ successes \in Nat
  /\ pc     \in [Threads -> Labels]
  /\ todo   \in [Threads -> SUBSET {"last", "streak", "level"}]
  /\ local  \in [Threads -> Nat]
  /\ given  \in [Threads -> Levels]
  /\ active \in [Threads -> 0 .. MaxClock]
  /\ counted \in Nat /\ recovered \in Nat /\ escalated \in Nat
  /\ lowered \in Nat /\ decayed \in Nat

\* However many threads record 429s at once, each raises the level until the
\* cap: what is missing from the level was taken off by decay or recovery.
EscalationsNotLost == level + lowered >= Least(MaxLevel, escalated)

\* The level does what Backoff promises and Balancer relies on: each 429 raises
\* it exactly once, to the cap at most, and no interleaving of the atomics of any
\* function raises it otherwise or takes it below zero.
Owing == {t \in Threads : pc[t] = "rate_limit" /\ "level" \in todo[t]}
Abstract == INSTANCE Backoff WITH owed <- Cardinality(Owing)
ImplementsBackoff == Abstract!Spec

\* How far racing successes can undercut the threshold: between two resets of
\* the streak every thread takes at most one level off, so N threads give back
\* at most N levels for each threshold - 1 + N successes.
Streak == IF Threshold = 0 THEN 1 ELSE Threshold
RecoveryRateBounded ==
  recovered * (Streak - 1 + Cardinality(Threads)) <= counted * Cardinality(Threads)

\* "This prevents permanent stalls" (throttle.rs:13): once no more 429s arrive
\* the decay alone brings the domain back to no backoff.
NoPermanentStall == <>[](level = 0)

\* What throttle.rs:11 says: recovery requires recovery_threshold consecutive
\* successes per level.
SuccessesPerLevel == recovered * Threshold <= counted

\* What the comment of record_rate_limit says (throttle.rs:250): having recorded
\* a 429 a thread finds the backoff active, as long as no success is recorded
\* and less than an interval has passed since.
BackoffActiveAfter429 ==
  \A t \in Threads :
    active[t] > 0 /\ clock - active[t] < Interval => given[t] > 0

\* What throttle.rs:39 to 47 says of the decay: one level for each interval
\* without a 429.
OneLevelPerInterval == decayed <= Minus(clock, lastRl) \div Interval
=============================================================================
