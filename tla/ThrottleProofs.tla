---------------------------- MODULE ThrottleProofs ----------------------------
(* Proofs about Throttle, for every number of threads, levels and events.    *)
EXTENDS Throttle, FiniteSetTheorems, TLAPS

\* What is known of a thread inside record_rate_limit or record_success.
ThreadInv(t) ==
  /\ pc[t] = "idle" => todo[t] = {}
  /\ todo[t] # {} => pc[t] \in {"rate_limit", "recover"}
  /\ "last" \in todo[t] => pc[t] = "rate_limit" /\ local[t] \in 1 .. MaxClock

TypeInv == TypeOK /\ \A t \in Threads : ThreadInv(t)

\* A thread that finishes one of its writes stays in its function or is idle.
LEMMA WrittenTypes ==
  ASSUME TypeInv, NEW t \in Threads, NEW atomic, Written(t, atomic)
  PROVE  /\ todo' = [todo EXCEPT ![t] = todo[t] \ {atomic}]
         /\ todo' \in [Threads -> SUBSET {"last", "streak", "level"}]
         /\ pc' \in [Threads -> Labels]
         /\ atomic \in todo[t]
         /\ todo[t] # {}
         /\ pc' = pc \/ (todo[t] = {atomic} /\ pc' = [pc EXCEPT ![t] = "idle"])
<1> USE DEF TypeInv, TypeOK, Written, Goto
<1>1. todo' = [todo EXCEPT ![t] = todo[t] \ {atomic}] /\ atomic \in todo[t]
  OBVIOUS
<1>2. pc' = pc \/ (todo[t] = {atomic} /\ pc' = [pc EXCEPT ![t] = "idle"])
  OBVIOUS
<1>3. todo' \in [Threads -> SUBSET {"last", "streak", "level"}]
  BY <1>1
<1>4. pc' \in [Threads -> Labels]
  BY <1>2 DEF Labels
<1> QED
  BY <1>1, <1>2, <1>3, <1>4

\* A write of one thread's function leaves every thread in order.
LEMMA WrittenThreads ==
  ASSUME TypeInv, NEW t \in Threads, NEW atomic, Written(t, atomic), UNCHANGED local
  PROVE  \A u \in Threads : ThreadInv(u)'
<1> SUFFICES ASSUME NEW u \in Threads PROVE ThreadInv(u)'
  OBVIOUS
<1>1. ThreadInv(u) /\ ThreadInv(t)
  BY DEF TypeInv
<1>2. /\ todo \in [Threads -> SUBSET {"last", "streak", "level"}]
      /\ pc \in [Threads -> Labels]
  BY DEF TypeInv, TypeOK
<1>3. /\ todo' = [todo EXCEPT ![t] = todo[t] \ {atomic}]
      /\ pc' = pc \/ (todo[t] = {atomic} /\ pc' = [pc EXCEPT ![t] = "idle"])
      /\ atomic \in todo[t]
  BY WrittenTypes
<1>4. CASE u # t
  <2>1. todo'[u] = todo[u] /\ pc'[u] = pc[u]
    BY <1>2, <1>3, <1>4
  <2> QED
    BY <1>1, <2>1 DEF ThreadInv
<1>5. CASE u = t
  <2>1. todo'[t] = todo[t] \ {atomic}
    BY <1>2, <1>3
  <2>2. pc'[t] = pc[t] \/ (todo'[t] = {} /\ pc'[t] = "idle")
    BY <1>2, <1>3, <2>1
  <2>3. todo[t] # {} /\ pc[t] # "idle"
    BY <1>1, <1>3 DEF ThreadInv
  <2>4. CASE pc'[t] = pc[t]
    BY <1>1, <1>5, <2>1, <2>3, <2>4 DEF ThreadInv
  <2>5. CASE todo'[t] = {} /\ pc'[t] = "idle"
    BY <1>5, <2>5 DEF ThreadInv
  <2> QED
    BY <2>2, <2>4, <2>5
<1> QED
  BY <1>4, <1>5

\* In the beginning no thread is in any function.
LEMMA TypeInvInit == Init => TypeInv
<1> SUFFICES ASSUME Init PROVE TypeInv
  OBVIOUS
<1>1. TypeOK
  BY ThrottleAssumption DEF Init, TypeOK, Labels, Levels
<1>2. \A t \in Threads : ThreadInv(t)
  BY DEF Init, ThreadInv
<1> QED
  BY <1>1, <1>2 DEF TypeInv

\* Levels that are lowered, raised or capped are levels.
LEMMA LevelTypes ==
  ASSUME NEW l \in Levels, NEW k \in Nat
  PROVE  /\ Minus(l, k) \in Levels /\ l - Minus(l, k) \in Nat
         /\ l - Minus(l, 1) \in 0 .. 1
         /\ Least(l + 1, MaxLevel) \in Levels /\ Least(l, MaxLevel) \in Levels
BY ThrottleAssumption DEF Levels, Minus, Least

\* The number of levels to decay is a natural number, cast or not.
LEMMA DecayableType ==
  ASSUME TypeOK, NEW last \in Nat
  PROVE  Decayable(last) \in Nat
<1>1. clock \in Nat
  BY ThrottleAssumption DEF TypeOK
<1>2. Minus(clock, last) \in Nat
  BY <1>1 DEF Minus
<1>3. Minus(clock, last) \div Interval \in Nat
  BY <1>2, ThrottleAssumption
<1> QED
  BY <1>3, ThrottleAssumption DEF Decayable

\* pre_request_delay keeps the types: its one write lowers the level.
LEMMA DelayTypes ==
  ASSUME TypeInv, NEW t \in Threads, StartDelay(t) \/ DelaySteps(t)
  PROVE  TypeInv'
<1> USE ThrottleAssumption DEF TypeInv, TypeOK, shared, totals, counts, history, Goto, Hold, Labels
<1>1. CASE StartDelay(t)
  BY <1>1 DEF StartDelay, ThreadInv, Levels
<1>2. CASE LoadLast(t)
  BY <1>2 DEF LoadLast, ThreadInv
<1>3. CASE ReadClock(t)
  <2>1. Decayable(local[t]) \in Nat
    BY DecayableType
  <2> QED
    BY <1>3, <2>1 DEF ReadClock, ThreadInv
<1>4. CASE Decay(t)
  <2>1. level' \in Levels /\ level - level' \in Nat
    BY <1>4, LevelTypes DEF Decay
  <2>2. lowered' \in Nat /\ decayed' \in Nat
    BY <1>4, <2>1 DEF Decay
  <2> QED
    BY <1>4, <2>1, <2>2 DEF Decay, ThreadInv
<1>5. CASE ReadLevel(t)
  <2>1. Least(level, MaxLevel) \in Levels
    BY LevelTypes
  <2> QED
    BY <1>5, <2>1 DEF ReadLevel, ThreadInv
<1> QED
  BY <1>1, <1>2, <1>3, <1>4, <1>5 DEF DelaySteps

\* record_rate_limit keeps the types: what it stores was read from the clock.
LEMMA RateLimitTypes ==
  ASSUME TypeInv, NEW t \in Threads, StartRateLimit(t) \/ StoreLast(t) \/ Escalate(t)
  PROVE  TypeInv'
<1> USE ThrottleAssumption DEF TypeInv, TypeOK, totals, Goto, Hold
<1>1. CASE StartRateLimit(t)
  <2>1. TypeOK'
    <3>1. given' \in [Threads -> Levels] /\ active' \in [Threads -> 0 .. MaxClock]
      BY <1>1 DEF StartRateLimit, Levels
    <3>2. /\ todo' \in [Threads -> SUBSET {"last", "streak", "level"}]
          /\ pc' \in [Threads -> Labels]
      BY <1>1 DEF StartRateLimit, Labels
    <3>3. local' \in [Threads -> Nat] /\ rateLimits' \in Nat
      BY <1>1 DEF StartRateLimit
    <3> QED
      BY <1>1, <3>1, <3>2, <3>3 DEF StartRateLimit, counts
  <2>2. \A u \in Threads : ThreadInv(u)'
    BY <1>1 DEF StartRateLimit, ThreadInv
  <2> QED
    BY <2>1, <2>2
<1>2. CASE StoreLast(t)
  <2>1. Written(t, "last") /\ UNCHANGED local
    BY <1>2 DEF StoreLast
  <2>2. lastRl' \in 0 .. MaxClock
    BY <1>2, <2>1, WrittenTypes DEF StoreLast, ThreadInv
  <2> QED
    BY <1>2, <2>1, <2>2, WrittenTypes, WrittenThreads DEF StoreLast
<1>3. CASE Escalate(t)
  <2>1. Written(t, "level") /\ UNCHANGED local
    BY <1>3 DEF Escalate
  <2>2. level' \in Levels
    BY <1>3, LevelTypes DEF Escalate
  <2> QED
    BY <1>3, <2>1, <2>2, WrittenTypes, WrittenThreads DEF Escalate
<1> QED
  BY <1>1, <1>2, <1>3

\* record_success keeps the types.
LEMMA SuccessTypes ==
  ASSUME TypeInv, NEW t \in Threads,
         StartSuccess(t) \/ Count(t) \/ ResetStreak(t) \/ Recover(t)
  PROVE  TypeInv'
<1> USE ThrottleAssumption DEF TypeInv, TypeOK, totals, counts, history, Goto, Hold
<1>1. CASE StartSuccess(t)
  BY <1>1 DEF StartSuccess, ThreadInv, Labels
<1>2. CASE Count(t)
  <2>1. TypeOK'
    BY <1>2 DEF Count, Labels
  <2>2. \A u \in Threads : ThreadInv(u)'
    BY <1>2 DEF Count, ThreadInv
  <2> QED
    BY <2>1, <2>2
<1>3. CASE ResetStreak(t)
  <2>1. Written(t, "streak") /\ UNCHANGED local
    BY <1>3 DEF ResetStreak
  <2> QED
    BY <1>3, <2>1, WrittenTypes, WrittenThreads DEF ResetStreak
<1>4. CASE Recover(t)
  <2>1. Written(t, "level") /\ UNCHANGED local
    BY <1>4 DEF Recover
  <2>2. level' \in Levels /\ level - level' \in Nat
    BY <1>4, LevelTypes DEF Recover
  <2>3. recovered' \in Nat /\ lowered' \in Nat
    BY <1>4, <2>2 DEF Recover
  <2> QED
    BY <1>4, <2>1, <2>2, <2>3, WrittenTypes, WrittenThreads DEF Recover
<1> QED
  BY <1>1, <1>2, <1>3, <1>4

\* The clock moves within its bounds.
LEMMA TypeInvStep == TypeInv /\ [Next]_vars => TypeInv'
<1> SUFFICES ASSUME TypeInv, [Next]_vars PROVE TypeInv'
  OBVIOUS
<1>1. CASE Tick
  BY <1>1, ThrottleAssumption
     DEF Tick, TypeInv, TypeOK, ThreadInv, totals, counts, history
<1>2. CASE UNCHANGED vars
  BY <1>2 DEF vars, shared, counts, history, TypeInv, TypeOK, ThreadInv
<1>3. ASSUME NEW t \in Threads, Step(t) PROVE TypeInv'
  BY <1>3, DelayTypes, RateLimitTypes, SuccessTypes DEF Step
<1> QED
  BY <1>1, <1>2, <1>3 DEF Next

-----------------------------------------------------------------------------
\* The level stays at most max_backoff_level for every number of threads, however
\* they interleave: no subtraction wraps and no increment passes the cap.
THEOREM TypeCorrect == Spec => []TypeOK
<1>1. TypeInv => TypeOK
  BY DEF TypeInv
<1> QED
  BY TypeInvInit, TypeInvStep, <1>1, PTL DEF Spec

\* A 429 raises the level by one or finds it at the cap; whatever else changes
\* the level takes off exactly what it adds to lowered.
LEMMA EscalationsStep ==
  ASSUME TypeInv, EscalationsNotLost, [Next]_vars
  PROVE  EscalationsNotLost'
<1> USE DEF EscalationsNotLost
<1>0. level \in Levels /\ lowered \in Nat /\ escalated \in Nat /\ MaxLevel \in Nat
  BY ThrottleAssumption DEF TypeInv, TypeOK
<1>1. CASE UNCHANGED <<level, lowered, escalated>>
  BY <1>1
<1>2. ASSUME NEW t \in Threads, Escalate(t) PROVE EscalationsNotLost'
  <2>1. /\ level' = Least(level + 1, MaxLevel) /\ escalated' = escalated + 1
        /\ UNCHANGED lowered
    BY <1>2 DEF Escalate
  <2> QED
    BY <1>0, <2>1 DEF Least, Levels
<1>3. ASSUME NEW t \in Threads, Decay(t) \/ Recover(t) PROVE EscalationsNotLost'
  <2>1. local[t] \in Nat
    BY DEF TypeInv, TypeOK
  <2>2. level' \in Levels
    BY <1>0, <1>3, <2>1, LevelTypes DEF Decay, Recover
  <2>3. level' + lowered' = level + lowered /\ UNCHANGED escalated
    BY <1>0, <1>3, <2>2 DEF Decay, Recover, Levels
  <2> QED
    BY <2>3
<1>4. \A t \in Threads :
        StartDelay(t) \/ LoadLast(t) \/ ReadClock(t) \/ ReadLevel(t)
        \/ StartRateLimit(t) \/ StoreLast(t) \/ StartSuccess(t) \/ Count(t) \/ ResetStreak(t)
        => UNCHANGED <<level, lowered, escalated>>
  BY DEF StartDelay, LoadLast, ReadClock, ReadLevel, StartRateLimit, StoreLast,
         StartSuccess, Count, ResetStreak, shared, counts, history
<1>5. Tick \/ UNCHANGED vars => UNCHANGED <<level, lowered, escalated>>
  BY DEF Tick, vars, shared, counts, history
<1> QED
  BY <1>1, <1>2, <1>3, <1>4, <1>5 DEF Next, Step, DelaySteps

\* No 429 is lost on its way to the level, however many threads record theirs
\* at once and whatever decay and recovery do meanwhile.
THEOREM NoEscalationLost == Spec => []EscalationsNotLost
<1>1. Init => EscalationsNotLost
  BY ThrottleAssumption DEF Init, EscalationsNotLost, Least
<1>2. TypeInv /\ EscalationsNotLost /\ [Next]_vars => EscalationsNotLost'
  BY EscalationsStep
<1> QED
  BY TypeInvInit, TypeInvStep, <1>1, <1>2, PTL DEF Spec

-----------------------------------------------------------------------------
(* How many levels racing successes give back.  The streak grows with each   *)
(* success counted; from the Streak-th on each sends its thread to reset the *)
(* streak and to lower the level.                                            *)

Resetting == {t \in Threads : pc[t] = "recover" /\ "streak" \in todo[t]}
Lowering  == {t \in Threads : pc[t] = "recover" /\ "level" \in todo[t]}
N         == Cardinality(Threads)

\* Levels given back, or about to be.
Granted == recovered + Cardinality(Lowering)

\* Those granted since the streak was last reset have their threads still to
\* reset it; those granted before are paid for by the successes before.
StreakInv ==
  /\ consec <= Streak - 1 + Cardinality(Resetting)
  /\ (Granted - Minus(consec, Streak - 1)) * (Streak - 1 + N) <= (counted - consec) * N

\* n threads that all pass the threshold before the streak is reset are covered
\* by the successes of the streak.
LEMMA StreakPays ==
  ASSUME NEW s \in Nat, NEW n \in Nat, NEW c \in Nat, NEW r \in 0 .. n, c <= s + r
  PROVE  Minus(c, s) * (s + n) <= c * n
<1>1. CASE c <= s
  <2>1. Minus(c, s) = 0
    BY <1>1 DEF Minus
  <2>2. c * n \in Nat
    OBVIOUS
  <2> QED
    BY <2>1, <2>2
<1>2. CASE c > s
  <2> DEFINE h == c - s
  <2>1. Minus(c, s) = h /\ h \in 0 .. n /\ c = s + h
    BY <1>2 DEF Minus
  <2> HIDE DEF h
  <2>2. h * (s + n) = h * s + h * n /\ (s + h) * n = s * n + h * n
    BY <2>1
  <2>3. h * s <= n * s
    BY <2>1
  <2>4. n * s = s * n
    OBVIOUS
  <2>5. h * s \in Nat /\ h * n \in Nat /\ s * n \in Nat
    BY <2>1
  <2> QED
    BY <2>1, <2>2, <2>3, <2>4, <2>5
<1> QED
  BY <1>1, <1>2

\* A smaller number times a natural number is no larger.
LEMMA TimesMonotonic ==
  ASSUME NEW x \in Int, NEW y \in Int, NEW k \in Nat, x <= y
  PROVE  x * k <= y * k
<1>1. y - x \in Nat
  OBVIOUS
<1>2. (y - x) * k \in Nat
  BY <1>1
<1>3. (y - x) * k = y * k - x * k
  OBVIOUS
<1>4. x * k \in Int /\ y * k \in Int
  OBVIOUS
<1> QED
  BY <1>2, <1>3, <1>4

\* The same after something is taken off both.
LEMMA DifferencesMonotonic ==
  ASSUME NEW x \in Int, NEW y \in Int, NEW h \in Int, NEW k \in Nat, x <= y
  PROVE  (x - h) * k <= (y - h) * k
<1>1. x - h \in Int /\ y - h \in Int /\ x - h <= y - h
  OBVIOUS
<1> QED
  BY <1>1, TimesMonotonic

\* The sizes in StreakInv are those of subsets of the finite set of threads.
LEMMA Sizes ==
  ASSUME TypeInv
  PROVE  /\ N \in Nat /\ Streak - 1 \in Nat
         /\ IsFiniteSet(Resetting) /\ Cardinality(Resetting) \in 0 .. N
         /\ IsFiniteSet(Lowering) /\ Cardinality(Lowering) \in Nat
<1>1. IsFiniteSet(Threads) /\ N \in Nat
  BY FS_CardinalityType, ThrottleAssumption DEF N
<1>2. Resetting \in SUBSET Threads /\ Lowering \in SUBSET Threads
  BY DEF Resetting, Lowering
<1>3. /\ IsFiniteSet(Resetting) /\ Cardinality(Resetting) <= N
      /\ IsFiniteSet(Lowering) /\ Cardinality(Lowering) <= N
  BY <1>1, <1>2, FS_Subset DEF N
<1>4. Cardinality(Resetting) \in Nat /\ Cardinality(Lowering) \in Nat
  BY <1>3, FS_CardinalityType
<1>5. Streak - 1 \in Nat
  BY ThrottleAssumption DEF Streak
<1> QED
  BY <1>1, <1>3, <1>4, <1>5

\* All that was granted is paid for by the successes counted.
LEMMA GrantedBounded ==
  ASSUME TypeInv, StreakInv
  PROVE  Granted * (Streak - 1 + N) <= counted * N
<1>1. consec \in Nat /\ counted \in Nat /\ recovered \in Nat
  BY DEF TypeInv, TypeOK
<1> DEFINE s == Streak - 1
           h == Minus(consec, Streak - 1)
           k == Streak - 1 + N
<1>2. /\ s \in Nat /\ N \in Nat /\ k \in Nat /\ h \in Nat /\ Granted \in Nat
      /\ Cardinality(Resetting) \in 0 .. N
  BY <1>1, Sizes DEF Minus, Granted
<1>3. h * k <= consec * N
  <2>1. consec <= s + Cardinality(Resetting)
    BY DEF StreakInv
  <2> QED
    BY <1>1, <1>2, <2>1, StreakPays
<1>4. (Granted - h) * k <= (counted - consec) * N
  BY DEF StreakInv
<1> HIDE DEF s, h, k
<1>5. (Granted - h) * k = Granted * k - h * k
  BY <1>2
<1>6. (counted - consec) * N = counted * N - consec * N
  BY <1>1, <1>2
<1>7. /\ Granted * k \in Int /\ h * k \in Int
      /\ counted * N \in Int /\ consec * N \in Int
  BY <1>1, <1>2
<1>8. Granted * k <= counted * N
  BY <1>3, <1>4, <1>5, <1>6, <1>7
<1> QED
  BY <1>8 DEF k

\* A step of a thread that is not recovering leaves both sets as they are.
LEMMA SetsUnchanged ==
  ASSUME NEW t \in Threads, pc[t] # "recover", pc'[t] # "recover",
         \A u \in Threads \ {t} : pc'[u] = pc[u] /\ todo'[u] = todo[u]
  PROVE  Resetting' = Resetting /\ Lowering' = Lowering
<1>1. ASSUME NEW u \in Threads
      PROVE  /\ u \in Resetting' <=> u \in Resetting
             /\ u \in Lowering' <=> u \in Lowering
  BY DEF Resetting, Lowering
<1> QED
  BY <1>1 DEF Resetting, Lowering

\* A step that counts nothing, gives nothing back and leaves the sets alone.
LEMMA StreakKeptStep ==
  ASSUME StreakInv, Resetting' = Resetting, Lowering' = Lowering,
         UNCHANGED <<consec, counted, recovered>>
  PROVE  StreakInv'
BY DEF StreakInv, Granted, Minus

\* A success counted: below the threshold it only adds to the streak, from the
\* threshold on its thread is added to both sets.
LEMMA CountStep ==
  ASSUME TypeInv, StreakInv, NEW t \in Threads, Count(t)
  PROVE  StreakInv'
<1>0. /\ consec \in Nat /\ counted \in Nat /\ recovered \in Nat /\ Threshold \in Nat
      /\ pc[t] = "count" /\ consec' = consec + 1 /\ counted' = counted + 1
      /\ UNCHANGED recovered
  BY ThrottleAssumption DEF TypeInv, TypeOK, Count
<1>sz. /\ N \in Nat /\ Streak - 1 \in Nat
       /\ IsFiniteSet(Resetting) /\ Cardinality(Resetting) \in 0 .. N
       /\ IsFiniteSet(Lowering) /\ Cardinality(Lowering) \in Nat
  BY Sizes
<1>fn. /\ pc \in [Threads -> Labels]
       /\ todo \in [Threads -> SUBSET {"last", "streak", "level"}]
  BY DEF TypeInv, TypeOK
<1>1. CASE consec + 1 >= Threshold
  <2>1. /\ todo' = [todo EXCEPT ![t] = {"streak", "level"}]
        /\ pc' = [pc EXCEPT ![t] = "recover"]
    BY <1>1 DEF Count, Goto
  <2>2. t \notin Resetting /\ t \notin Lowering
    BY <1>0 DEF Resetting, Lowering
  <2>3. Resetting' = Resetting \cup {t} /\ Lowering' = Lowering \cup {t}
    BY <2>1, <1>fn DEF Resetting, Lowering
  <2>4. /\ Cardinality(Resetting') = Cardinality(Resetting) + 1
        /\ Cardinality(Lowering') = Cardinality(Lowering) + 1
    BY <2>2, <2>3, <1>sz, FS_AddElement
  <2>5. Streak - 1 <= consec
    BY <1>0, <1>1 DEF Streak
  <2>6. Granted' = Granted + 1 /\ Granted \in Nat
    BY <1>0, <1>sz, <2>4 DEF Granted
  <2>7. Granted' - Minus(consec', Streak - 1) = Granted - Minus(consec, Streak - 1)
    BY <1>0, <1>sz, <2>5, <2>6 DEF Minus
  <2>8. counted' - consec' = counted - consec
    BY <1>0
  <2>9. consec' <= Streak - 1 + Cardinality(Resetting')
    BY <1>0, <1>sz, <2>4 DEF StreakInv
  <2>10. (Granted' - Minus(consec', Streak - 1)) * (Streak - 1 + N)
           <= (counted' - consec') * N
    BY <2>7, <2>8 DEF StreakInv
  <2> QED
    BY <2>9, <2>10 DEF StreakInv, N, Streak, Minus
<1>2. CASE consec + 1 < Threshold
  <2>1. pc' = [pc EXCEPT ![t] = "idle"] /\ UNCHANGED todo
    BY <1>0, <1>2 DEF Count, Goto
  <2>2. Resetting' = Resetting /\ Lowering' = Lowering
    BY <1>0, <1>fn, <2>1, SetsUnchanged
  <2>3. consec + 1 <= Streak - 1
    BY <1>0, <1>2 DEF Streak
  <2>4. Minus(consec', Streak - 1) = 0 /\ Minus(consec, Streak - 1) = 0
    BY <1>0, <1>sz, <2>3 DEF Minus
  <2>5. counted' - consec' = counted - consec /\ Granted' = Granted
    BY <1>0, <2>2 DEF Granted
  <2>6. consec' <= Streak - 1 + Cardinality(Resetting')
    BY <1>0, <1>sz, <2>2, <2>3
  <2>7. (Granted' - Minus(consec', Streak - 1)) * (Streak - 1 + N)
          <= (counted' - consec') * N
    BY <2>4, <2>5 DEF StreakInv
  <2> QED
    BY <2>6, <2>7 DEF StreakInv, N, Streak, Minus
<1> QED
  BY <1>0, <1>1, <1>2

\* The streak is reset, after a 429 or a recovery: all of it pays for what was
\* granted.
LEMMA ResetStep ==
  ASSUME TypeInv, StreakInv, NEW t \in Threads, ResetStreak(t)
  PROVE  StreakInv'
<1>1. consec' = 0 /\ UNCHANGED <<counted, recovered>> /\ Written(t, "streak")
  BY DEF ResetStreak, history, counts
<1>2. /\ todo' = [todo EXCEPT ![t] = todo[t] \ {"streak"}]
      /\ pc' = pc \/ (todo[t] = {"streak"} /\ pc' = [pc EXCEPT ![t] = "idle"])
  BY <1>1, WrittenTypes
<1>fn. /\ pc \in [Threads -> Labels]
       /\ todo \in [Threads -> SUBSET {"last", "streak", "level"}]
       /\ consec \in Nat /\ counted \in Nat /\ recovered \in Nat
  BY DEF TypeInv, TypeOK
<1>3. Lowering' = Lowering
  <2>1. ASSUME NEW u \in Threads PROVE u \in Lowering' <=> u \in Lowering
    BY <1>2, <1>fn DEF Lowering
  <2> QED
    BY <2>1 DEF Lowering
<1>4. Resetting' \in SUBSET Threads /\ IsFiniteSet(Threads)
  BY ThrottleAssumption DEF Resetting
<1>5. Cardinality(Resetting') \in Nat
  BY <1>4, FS_Subset, FS_CardinalityType
<1>6. N \in Nat /\ Streak - 1 \in Nat /\ Cardinality(Lowering) \in Nat
  BY Sizes
<1>7. Minus(consec', Streak - 1) = 0
  BY <1>1, <1>6 DEF Minus
<1>8. Granted' = Granted /\ Granted \in Nat
  BY <1>1, <1>3, <1>6, <1>fn DEF Granted
<1>9. (Granted' - Minus(consec', Streak - 1)) * (Streak - 1 + N)
        <= (counted' - consec') * N
  <2>1. Granted' - Minus(consec', Streak - 1) = Granted /\ counted' - consec' = counted
    BY <1>1, <1>7, <1>8, <1>fn
  <2> QED
    BY <2>1, GrantedBounded
<1>10. consec' <= Streak - 1 + Cardinality(Resetting')
  BY <1>1, <1>5, <1>6
<1> QED
  BY <1>9, <1>10 DEF StreakInv, N, Streak, Minus

\* A level is given back that had been granted.
LEMMA RecoverStep ==
  ASSUME TypeInv, StreakInv, NEW t \in Threads, Recover(t)
  PROVE  StreakInv'
<1>1. /\ UNCHANGED <<consec, counted>> /\ Written(t, "level") /\ pc[t] = "recover"
      /\ level' = Minus(level, 1) /\ recovered' = recovered + (level - level')
  BY DEF Recover
<1>2. /\ todo' = [todo EXCEPT ![t] = todo[t] \ {"level"}]
      /\ pc' = pc \/ (todo[t] = {"level"} /\ pc' = [pc EXCEPT ![t] = "idle"])
      /\ "level" \in todo[t]
  BY <1>1, WrittenTypes
<1>fn. /\ pc \in [Threads -> Labels]
       /\ todo \in [Threads -> SUBSET {"last", "streak", "level"}]
       /\ consec \in Nat /\ counted \in Nat /\ recovered \in Nat /\ level \in Levels
  BY DEF TypeInv, TypeOK
<1>3. Resetting' = Resetting
  <2>1. ASSUME NEW u \in Threads PROVE u \in Resetting' <=> u \in Resetting
    BY <1>2, <1>fn DEF Resetting
  <2> QED
    BY <2>1 DEF Resetting
<1>4. Lowering' = Lowering \ {t}
  <2>1. ASSUME NEW u \in Threads PROVE u \in Lowering' <=> u \in Lowering \ {t}
    BY <1>2, <1>fn DEF Lowering
  <2> QED
    BY <2>1 DEF Lowering
<1>5. t \in Lowering
  BY <1>1, <1>2 DEF Lowering
<1>6. /\ N \in Nat /\ Streak - 1 \in Nat
      /\ IsFiniteSet(Lowering) /\ Cardinality(Lowering) \in Nat
  BY Sizes
<1>7. Cardinality(Lowering') = Cardinality(Lowering) - 1
  BY <1>4, <1>5, <1>6, FS_RemoveElement
<1>8. level - level' \in 0 .. 1
  BY <1>1, <1>fn, LevelTypes
<1>9. Granted' <= Granted /\ Granted' \in Int /\ Granted \in Int
  BY <1>1, <1>6, <1>7, <1>8, <1>fn DEF Granted
<1> DEFINE h == Minus(consec, Streak - 1)
           k == Streak - 1 + N
<1>10. h \in Nat /\ k \in Nat
  BY <1>6, <1>fn DEF Minus
<1>11. (Granted - h) * k <= (counted - consec) * N
  BY DEF StreakInv
<1> HIDE DEF h, k
<1>12. (Granted' - h) * k <= (Granted - h) * k
  <2>1. h \in Int /\ k \in Nat
    BY <1>10
  <2> QED
    BY <1>9, <2>1, DifferencesMonotonic
<1>13. (counted - consec) * N \in Int /\ (Granted - h) * k \in Int /\ (Granted' - h) * k \in Int
  BY <1>6, <1>9, <1>10, <1>fn
<1>14. (Granted' - h) * k <= (counted - consec) * N
  BY <1>11, <1>12, <1>13
<1> QED
  BY <1>1, <1>3, <1>14 DEF StreakInv, h, k, N, Streak, Minus

\* No other step touches the streak or the levels given back.
LEMMA OtherStep ==
  ASSUME TypeInv, StreakInv, NEW t \in Threads,
         \/ StartDelay(t) \/ DelaySteps(t)
         \/ StartRateLimit(t) \/ StoreLast(t) \/ Escalate(t) \/ StartSuccess(t)
  PROVE  StreakInv'
<1>fn. /\ pc \in [Threads -> Labels]
       /\ todo \in [Threads -> SUBSET {"last", "streak", "level"}]
  BY DEF TypeInv, TypeOK
<1>1. UNCHANGED <<consec, counted, recovered>>
  BY DEF StartDelay, DelaySteps, LoadLast, ReadClock, Decay, ReadLevel, StartRateLimit,
         StoreLast, Escalate, StartSuccess, shared, counts, history
<1>2. CASE StoreLast(t) \/ Escalate(t)
  <2>1. PICK atomic : Written(t, atomic) /\ pc[t] = "rate_limit"
    <3>1. CASE StoreLast(t)
      <4>1. Written(t, "last")
        BY <3>1 DEF StoreLast
      <4>2. pc[t] = "rate_limit"
        BY <4>1, WrittenTypes DEF TypeInv, ThreadInv
      <4> QED
        BY <4>1, <4>2
    <3>2. CASE Escalate(t)
      BY <3>2 DEF Escalate
    <3> QED
      BY <1>2, <3>1, <3>2
  <2>2. /\ todo' = [todo EXCEPT ![t] = todo[t] \ {atomic}]
        /\ pc' = pc \/ pc' = [pc EXCEPT ![t] = "idle"]
    BY <2>1, WrittenTypes
  <2>3. /\ pc'[t] # "recover"
        /\ \A u \in Threads \ {t} : pc'[u] = pc[u] /\ todo'[u] = todo[u]
    BY <1>fn, <2>1, <2>2
  <2> QED
    BY <1>1, <2>1, <2>3, SetsUnchanged, StreakKeptStep
<1>3. CASE ~ (StoreLast(t) \/ Escalate(t))
  <2>1. /\ pc[t] # "recover" /\ pc'[t] # "recover"
        /\ \A u \in Threads \ {t} : pc'[u] = pc[u] /\ todo'[u] = todo[u]
    BY <1>fn, <1>3 DEF StartDelay, DelaySteps, LoadLast, ReadClock, Decay, ReadLevel,
                      StartRateLimit, StartSuccess, Goto
  <2> QED
    BY <1>1, <2>1, SetsUnchanged, StreakKeptStep
<1> QED
  BY <1>2, <1>3

\* Every step keeps StreakInv.
LEMMA StreakInvStep == TypeInv /\ StreakInv /\ [Next]_vars => StreakInv'
<1> SUFFICES ASSUME TypeInv, StreakInv, [Next]_vars PROVE StreakInv'
  OBVIOUS
<1>1. CASE Tick \/ UNCHANGED vars
  <2>1. UNCHANGED <<pc, todo, consec, counted, recovered>>
    BY <1>1 DEF Tick, vars, shared, counts, history
  <2>2. Resetting' = Resetting /\ Lowering' = Lowering
    BY <2>1 DEF Resetting, Lowering
  <2> QED
    BY <2>1, <2>2, StreakKeptStep
<1>2. ASSUME NEW t \in Threads, Step(t) PROVE StreakInv'
  BY <1>2, CountStep, ResetStep, RecoverStep, OtherStep DEF Step
<1> QED
  BY <1>1, <1>2 DEF Next

\* With N threads racing on record_success, recovery takes at least threshold -
\* 1 + N successes for every N levels: with one thread, threshold successes a
\* level; with many, up to one level for little more than one success.
THEOREM RecoveryBounded == Spec => []RecoveryRateBounded
<1>1. Init => StreakInv
  <2> SUFFICES ASSUME Init PROVE StreakInv
    OBVIOUS
  <2>1. TypeInv
    BY TypeInvInit
  <2>2. Resetting = {} /\ Lowering = {}
    BY DEF Init, Resetting, Lowering
  <2>3. /\ Cardinality(Resetting) = 0 /\ Granted = 0 /\ consec = 0 /\ counted = 0
        /\ N \in Nat /\ Streak - 1 \in Nat
    BY <2>1, <2>2, Sizes, FS_EmptySet DEF Init, Granted
  <2> QED
    BY <2>3 DEF StreakInv, Minus
<1>2. TypeInv /\ StreakInv => RecoveryRateBounded
  <2> SUFFICES ASSUME TypeInv, StreakInv PROVE RecoveryRateBounded
    OBVIOUS
  <2>1. /\ recovered \in Int /\ Granted \in Int /\ recovered <= Granted
        /\ Streak - 1 + N \in Nat /\ counted * N \in Int
    BY Sizes DEF TypeInv, TypeOK, Granted
  <2>2. recovered * (Streak - 1 + N) <= Granted * (Streak - 1 + N)
    BY <2>1, TimesMonotonic
  <2>3. Granted * (Streak - 1 + N) <= counted * N
    BY GrantedBounded
  <2>4. /\ recovered * (Streak - 1 + N) \in Int /\ Granted * (Streak - 1 + N) \in Int
    BY <2>1
  <2> QED
    BY <2>1, <2>2, <2>3, <2>4 DEF RecoveryRateBounded, N
<1> QED
  BY TypeInvInit, TypeInvStep, StreakInvStep, <1>1, <1>2, PTL DEF Spec

-----------------------------------------------------------------------------
(* The level as module Backoff has it.                                       *)

\* A step that leaves the 429s on their way alone.
LEMMA OwingUnchanged ==
  ASSUME NEW t \in Threads, t \in Owing' <=> t \in Owing,
         \A u \in Threads \ {t} : pc'[u] = pc[u] /\ todo'[u] = todo[u]
  PROVE  Owing' = Owing
<1>1. ASSUME NEW u \in Threads PROVE u \in Owing' <=> u \in Owing
  BY DEF Owing
<1> QED
  BY <1>1 DEF Owing

\* A 429 is recorded: its thread will raise the level.
LEMMA RateLimitedStep ==
  ASSUME TypeInv, NEW t \in Threads, StartRateLimit(t)
  PROVE  Abstract!RateLimited
<1>fn. /\ pc \in [Threads -> Labels]
       /\ todo \in [Threads -> SUBSET {"last", "streak", "level"}]
  BY DEF TypeInv, TypeOK
<1>1. /\ pc[t] = "idle" /\ pc' = [pc EXCEPT ![t] = "rate_limit"]
      /\ todo' = [todo EXCEPT ![t] = {"last", "streak", "level"}]
      /\ UNCHANGED level
  BY DEF StartRateLimit, Goto
<1>2. t \notin Owing /\ Owing' = Owing \cup {t}
  BY <1>1, <1>fn DEF Owing
<1>3. IsFiniteSet(Owing)
  BY ThrottleAssumption, FS_Subset DEF Owing
<1>4. Cardinality(Owing') = Cardinality(Owing) + 1
  BY <1>2, <1>3, FS_AddElement
<1> QED
  BY <1>1, <1>4 DEF Abstract!RateLimited

\* The level is raised for one of them.
LEMMA EscalateStep ==
  ASSUME TypeInv, NEW t \in Threads, Escalate(t)
  PROVE  Abstract!Escalate
<1>fn. /\ pc \in [Threads -> Labels]
       /\ todo \in [Threads -> SUBSET {"last", "streak", "level"}]
       /\ level \in Levels /\ MaxLevel \in Nat
  BY ThrottleAssumption DEF TypeInv, TypeOK
<1>1. pc[t] = "rate_limit" /\ Written(t, "level") /\ level' = Least(level + 1, MaxLevel)
  BY DEF Escalate
<1>2. /\ todo' = [todo EXCEPT ![t] = todo[t] \ {"level"}] /\ "level" \in todo[t]
      /\ pc' = pc \/ pc' = [pc EXCEPT ![t] = "idle"]
  BY <1>1, WrittenTypes
<1>3. t \in Owing /\ Owing' = Owing \ {t}
  <2>1. ASSUME NEW u \in Threads PROVE u \in Owing' <=> u \in Owing \ {t}
    <3>1. CASE u = t
      BY <1>2, <1>fn, <3>1 DEF Owing
    <3>2. CASE u # t
      BY <1>2, <1>fn, <3>2 DEF Owing
    <3> QED
      BY <3>1, <3>2
  <2>2. t \in Owing
    BY <1>1, <1>2 DEF Owing
  <2> QED
    BY <2>1, <2>2 DEF Owing
<1>4. IsFiniteSet(Owing)
  BY ThrottleAssumption, FS_Subset DEF Owing
<1>5. Cardinality(Owing') = Cardinality(Owing) - 1 /\ IsFiniteSet(Owing')
  BY <1>3, <1>4, FS_RemoveElement
<1>6. Cardinality(Owing) \in Nat /\ Cardinality(Owing') \in Nat
  BY <1>4, <1>5, FS_CardinalityType
<1>7. level' = IF level < MaxLevel THEN level + 1 ELSE MaxLevel
  BY <1>1, <1>fn DEF Least, Levels
<1> QED
  BY <1>5, <1>6, <1>7 DEF Abstract!Escalate

\* Decay and recovery lower the level, or change nothing.
LEMMA LowerStep ==
  ASSUME TypeInv, NEW t \in Threads, Decay(t) \/ Recover(t)
  PROVE  Abstract!Lower \/ UNCHANGED Abstract!vars
<1>fn. /\ pc \in [Threads -> Labels]
       /\ todo \in [Threads -> SUBSET {"last", "streak", "level"}]
       /\ level \in Levels /\ MaxLevel \in Nat /\ local[t] \in Nat
  BY ThrottleAssumption DEF TypeInv, TypeOK
<1>1. Owing' = Owing
  <2>1. CASE Decay(t)
    <3>1. pc[t] = "decay" /\ pc' = [pc EXCEPT ![t] = "readLevel"] /\ UNCHANGED todo
      BY <2>1 DEF Decay, Goto
    <3>2. /\ t \in Owing' <=> t \in Owing
          /\ \A u \in Threads \ {t} : pc'[u] = pc[u] /\ todo'[u] = todo[u]
      BY <3>1, <1>fn DEF Owing
    <3> QED
      BY <3>2, OwingUnchanged
  <2>2. CASE Recover(t)
    <3>1. pc[t] = "recover" /\ Written(t, "level")
      BY <2>2 DEF Recover
    <3>2. /\ todo' = [todo EXCEPT ![t] = todo[t] \ {"level"}]
          /\ pc' = pc \/ pc' = [pc EXCEPT ![t] = "idle"]
      BY <3>1, WrittenTypes
    <3>3. /\ t \in Owing' <=> t \in Owing
          /\ \A u \in Threads \ {t} : pc'[u] = pc[u] /\ todo'[u] = todo[u]
      BY <3>1, <3>2, <1>fn DEF Owing
    <3> QED
      BY <3>3, OwingUnchanged
  <2> QED
    BY <2>1, <2>2
<1>2. level' = Minus(level, local[t]) \/ level' = Minus(level, 1)
  BY DEF Decay, Recover
<1>3. level' \in 0 .. level
  BY <1>2, <1>fn DEF Minus, Levels
<1> QED
  BY <1>1, <1>3, <1>fn DEF Abstract!Lower, Abstract!vars, Levels

\* No other step touches the level or the 429s on their way to it.
LEMMA StutterStep ==
  ASSUME TypeInv, NEW t \in Threads,
         \/ StartDelay(t) \/ LoadLast(t) \/ ReadClock(t) \/ ReadLevel(t)
         \/ StoreLast(t) \/ StartSuccess(t) \/ Count(t) \/ ResetStreak(t)
  PROVE  UNCHANGED Abstract!vars
<1>fn. /\ pc \in [Threads -> Labels]
       /\ todo \in [Threads -> SUBSET {"last", "streak", "level"}]
  BY DEF TypeInv, TypeOK
<1>1. UNCHANGED level
  BY DEF StartDelay, LoadLast, ReadClock, ReadLevel, StoreLast, StartSuccess, Count,
         ResetStreak, shared
<1>2. CASE StoreLast(t) \/ ResetStreak(t)
  <2>1. PICK atomic \in {"last", "streak"} : Written(t, atomic)
    BY <1>2 DEF StoreLast, ResetStreak
  <2>2. /\ todo' = [todo EXCEPT ![t] = todo[t] \ {atomic}]
        /\ \/ pc' = pc
           \/ todo[t] = {atomic} /\ pc' = [pc EXCEPT ![t] = "idle"]
    BY <2>1, WrittenTypes
  <2>3. "level" \in todo'[t] <=> "level" \in todo[t]
    BY <2>1, <2>2, <1>fn
  <2>4. "level" \in todo[t] => pc'[t] = pc[t]
    BY <2>1, <2>2, <1>fn
  <2>5. t \in Owing' <=> t \in Owing
    BY <2>3, <2>4 DEF Owing
  <2>6. \A u \in Threads \ {t} : pc'[u] = pc[u] /\ todo'[u] = todo[u]
    BY <2>2, <1>fn
  <2> QED
    BY <1>1, <2>5, <2>6, OwingUnchanged DEF Abstract!vars
<1>3. CASE ~ (StoreLast(t) \/ ResetStreak(t))
  <2>1. /\ pc[t] # "rate_limit" /\ pc'[t] # "rate_limit"
        /\ \A u \in Threads \ {t} : pc'[u] = pc[u] /\ todo'[u] = todo[u]
    BY <1>fn, <1>3 DEF StartDelay, LoadLast, ReadClock, ReadLevel, StartSuccess, Count, Goto
  <2>2. t \in Owing' <=> t \in Owing
    BY <2>1 DEF Owing
  <2> QED
    BY <1>1, <2>1, <2>2, OwingUnchanged DEF Abstract!vars
<1> QED
  BY <1>2, <1>3

\* For every number of threads and every interleaving of their atomics the level
\* behaves as Balancer assumes it to: each 429 raises it exactly once, capped,
\* and nothing else does.
THEOREM RefinesBackoff == Spec => ImplementsBackoff
<1>1. Init => Abstract!Init
  <2> SUFFICES ASSUME Init PROVE Abstract!Init
    OBVIOUS
  <2>1. Owing = {}
    BY DEF Init, Owing
  <2> QED
    BY <2>1, FS_EmptySet DEF Init, Abstract!Init
<1>2. TypeInv /\ [Next]_vars => [Abstract!Next]_(Abstract!vars)
  <2> SUFFICES ASSUME TypeInv, [Next]_vars
               PROVE  Abstract!Next \/ UNCHANGED Abstract!vars
    OBVIOUS
  <2>1. CASE Tick \/ UNCHANGED vars
    <3>1. UNCHANGED <<level, pc, todo>>
      BY <2>1 DEF Tick, vars, shared
    <3> QED
      BY <3>1 DEF Abstract!vars, Owing
  <2>2. ASSUME NEW t \in Threads, Step(t) PROVE Abstract!Next \/ UNCHANGED Abstract!vars
    BY <2>2, RateLimitedStep, EscalateStep, LowerStep, StutterStep
       DEF Step, DelaySteps, Abstract!Next
  <2> QED
    BY <2>1, <2>2 DEF Next
<1> QED
  BY TypeInvInit, TypeInvStep, <1>1, <1>2, PTL DEF Spec, ImplementsBackoff, Abstract!Spec
=============================================================================
