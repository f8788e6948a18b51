--------------------------- MODULE BalancerProofs ---------------------------
(* Theorems about Balancer, for every number of calls and endpoints, every  *)
(* configuration and every behaviour of the throttles.                      *)
EXTENDS Balancer, SumProofs, FiniteSetTheorems, TLAPS

-----------------------------------------------------------------------------
(* The weighted selection.                                                   *)

LEMMA EndpointsExist == NumEndpoints \in Nat \ {0} /\ \A e \in Endpoints : e \in Nat
BY ConfigAssumption DEF Endpoints

\* A set of naturals has a least element.
LEMMA LeastNat ==
  ASSUME NEW S \in SUBSET Nat, S # {}
  PROVE  \E m \in S : \A x \in S : m <= x
BY MinIsLeast

\* build() can compute the boundaries: the recursion on the endpoints ends.
IsCumulative(f, n) ==
  f = [i \in 0 .. n |-> IF i = 0 THEN Weights[0] ELSE f[i - 1] + Weights[i]]

LEMMA CumulativeExists ==
  ASSUME NEW n \in Nat
  PROVE  \E f : IsCumulative(f, n)
<1> DEFINE Bad == {m \in Nat : ~ \E f : IsCumulative(f, m)}
<1> SUFFICES ASSUME Bad # {} PROVE FALSE
  OBVIOUS
<1>1. PICK m \in Bad : \A x \in Bad : m <= x
  <2>1. Bad \in SUBSET Nat
    OBVIOUS
  <2> HIDE DEF Bad
  <2> QED
    BY <2>1, LeastNat
<1>2. m \in Nat /\ ~ \E f : IsCumulative(f, m)
  OBVIOUS
<1>3. CASE m = 0
  <2> DEFINE f == [i \in 0 .. 0 |-> Weights[0]]
  <2>1. f = [i \in 0 .. 0 |-> IF i = 0 THEN Weights[0] ELSE f[i - 1] + Weights[i]]
    <3>1. \A i \in 0 .. 0 : i = 0
      OBVIOUS
    <3> QED
      BY <3>1
  <2> QED
    BY <1>2, <1>3, <2>1 DEF IsCumulative
<1>4. CASE m > 0
  <2>1. m - 1 \in Nat /\ m - 1 \notin Bad
    BY <1>1, <1>2, <1>4
  <2>2. PICK f : IsCumulative(f, m - 1)
    BY <2>1
  <2> DEFINE g == [i \in 0 .. m |-> IF i < m THEN f[i] ELSE f[m - 1] + Weights[m]]
             h == [i \in 0 .. m |-> IF i = 0 THEN Weights[0] ELSE g[i - 1] + Weights[i]]
  <2>3. ASSUME NEW i \in 0 .. m PROVE g[i] = h[i]
    <3>1. CASE i = m
      BY <1>2, <1>4, <3>1
    <3>2. CASE i < m
      <4>1. i \in 0 .. m - 1
        BY <1>2, <3>2
      <4>2. f[i] = IF i = 0 THEN Weights[0] ELSE f[i - 1] + Weights[i]
        BY <2>2, <4>1 DEF IsCumulative
      <4>3. i # 0 => g[i - 1] = f[i - 1]
        BY <1>2, <3>2
      <4> QED
        BY <3>2, <4>2, <4>3
    <3> QED
      BY <1>2, <3>1, <3>2
  <2>4. g = h
    BY <2>3
  <2>5. IsCumulative(g, m)
    <3> HIDE DEF g
    <3> QED
      BY <2>4 DEF IsCumulative
  <2> QED
    BY <1>2, <2>5
<1> QED
  BY <1>2, <1>3, <1>4

LEMMA CumulativeEquation ==
  \A i \in Endpoints :
    CumulativeWeights[i] = IF i = 0 THEN Weights[0] ELSE CumulativeWeights[i - 1] + Weights[i]
<1> DEFINE Is(f) ==
             f = [i \in Endpoints |-> IF i = 0 THEN Weights[0] ELSE f[i - 1] + Weights[i]]
<1>1. CumulativeWeights = CHOOSE f : Is(f)
  BY DEF CumulativeWeights
<1>2. \E f : Is(f)
  <2>1. NumEndpoints - 1 \in Nat
    BY ConfigAssumption
  <2> QED
    BY <2>1, CumulativeExists DEF IsCumulative, Endpoints
<1>3. Is(CumulativeWeights)
  <2> HIDE DEF Is
  <2> QED
    BY <1>1, <1>2
<1> QED
  BY <1>3

\* The boundaries grow: no endpoint has an empty bucket.
LEMMA CumulativeGrows ==
  /\ \A i \in Endpoints : CumulativeWeights[i] \in Nat \ {0}
  /\ \A i, j \in Endpoints : i < j => CumulativeWeights[i] < CumulativeWeights[j]
<1> DEFINE Grows(j) == /\ CumulativeWeights[j] \in Nat \ {0}
                       /\ \A i \in Endpoints : i < j => CumulativeWeights[i] < CumulativeWeights[j]
           Bad == {j \in Endpoints : ~Grows(j)}
<1> SUFFICES ASSUME Bad # {} PROVE FALSE
  OBVIOUS
<1>1. PICK j \in Bad : \A x \in Bad : j <= x
  <2>1. Bad \in SUBSET Nat
    BY DEF Endpoints
  <2> HIDE DEF Bad
  <2> QED
    BY <2>1, LeastNat
<1>2. j \in Endpoints /\ j \in Nat /\ ~Grows(j)
  BY DEF Endpoints
<1>3. Weights[j] \in Nat \ {0} /\ Weights[0] \in Nat \ {0}
  BY <1>2, ConfigAssumption DEF Endpoints
<1>4. CASE j = 0
  <2>1. CumulativeWeights[j] = Weights[0]
    BY <1>2, <1>4, CumulativeEquation
  <2>2. \A i \in Endpoints : ~ (i < j)
    BY <1>4 DEF Endpoints
  <2> QED
    BY <1>2, <1>3, <2>1, <2>2
<1>5. CASE j # 0
  <2>1. /\ j - 1 \in Endpoints /\ j - 1 \notin Bad
        /\ CumulativeWeights[j] = CumulativeWeights[j - 1] + Weights[j]
    BY <1>1, <1>2, <1>5, CumulativeEquation, ConfigAssumption DEF Endpoints
  <2>2. Grows(j - 1)
    BY <2>1
  <2>3. CumulativeWeights[j] \in Nat \ {0} /\ CumulativeWeights[j - 1] < CumulativeWeights[j]
    BY <1>3, <2>1, <2>2
  <2>4. ASSUME NEW i \in Endpoints, i < j
        PROVE  CumulativeWeights[i] < CumulativeWeights[j]
    <3>1. CASE i = j - 1
      BY <2>3, <3>1
    <3>2. CASE i < j - 1
      <4>1. CumulativeWeights[i] < CumulativeWeights[j - 1]
        BY <2>2, <3>2
      <4>2. CumulativeWeights[i] \in Nat
        <5>1. i \notin Bad
          BY <1>1, <1>2, <2>4 DEF Endpoints
        <5> QED
          BY <5>1
      <4> QED
        BY <2>2, <2>3, <4>1, <4>2
    <3> QED
      BY <1>2, <2>4, <3>1, <3>2 DEF Endpoints
  <2> QED
    BY <1>2, <2>3, <2>4
<1> QED
  BY <1>4, <1>5

LEMMA TotalIsPositive == TotalWeight \in Nat \ {0}
BY CumulativeGrows, ConfigAssumption DEF TotalWeight, Endpoints

\* The bucket of an endpoint starts where that of the one before it ends.
Lower(e) == IF e = 0 THEN 0 ELSE CumulativeWeights[e - 1]

\* partition_point finds the endpoint in whose bucket the tick falls.
LEMMA SelectsByBucket ==
  ASSUME NEW tick \in Nat
  PROVE  /\ SelectEndpoint(tick) \in Endpoints
         /\ \A e \in Endpoints :
              SelectEndpoint(tick) = e <=>
                Lower(e) <= tick % TotalWeight /\ tick % TotalWeight < CumulativeWeights[e]
<1> DEFINE b == tick % TotalWeight
           Above == {i \in Endpoints : b < CumulativeWeights[i]}
<1>0. b \in Nat /\ b < TotalWeight
  BY TotalIsPositive
<1> HIDE DEF b
<1>1. NumEndpoints - 1 \in Above
  BY <1>0, ConfigAssumption DEF Endpoints, TotalWeight
<1>2. PICK m \in Above : \A x \in Above : m <= x
  <2>1. Above \in SUBSET Nat
    BY DEF Endpoints
  <2> HIDE DEF Above
  <2> QED
    BY <1>1, <2>1, LeastNat
<1>3. m \in Endpoints /\ m \in Nat /\ b < CumulativeWeights[m]
  BY DEF Endpoints
<1>4. ASSUME NEW i \in Endpoints PROVE CumulativeWeights[i] <= b <=> i < m
  <2>1. CumulativeWeights[i] \in Nat /\ CumulativeWeights[m] \in Nat /\ i \in Nat
    BY <1>3, CumulativeGrows DEF Endpoints
  <2>2. CASE i < m
    BY <1>0, <1>2, <1>3, <2>1, <2>2
  <2>3. CASE i = m
    BY <1>0, <1>3, <2>1, <2>3
  <2>4. CASE m < i
    BY <1>0, <1>3, <2>1, <2>4, CumulativeGrows
  <2> QED
    BY <1>3, <2>1, <2>2, <2>3, <2>4
<1>5. {i \in Endpoints : CumulativeWeights[i] <= b} = 0 .. m - 1
  <2>1. \A i \in 0 .. m - 1 : i \in Endpoints /\ i < m
    BY <1>3, EndpointsExist DEF Endpoints
  <2>2. \A i \in Endpoints : i < m => i \in 0 .. m - 1
    BY <1>3, EndpointsExist DEF Endpoints
  <2> QED
    BY <1>4, <2>1, <2>2
<1>6. SelectEndpoint(tick) = m
  <2>1. Cardinality(0 .. m - 1) = m
    BY <1>3, FS_Interval
  <2> QED
    BY <1>5, <2>1 DEF SelectEndpoint, b
<1>7. ASSUME NEW e \in Endpoints
      PROVE  m = e <=> Lower(e) <= b /\ b < CumulativeWeights[e]
  <2>1. e \in Nat /\ CumulativeWeights[e] \in Nat
    BY CumulativeGrows DEF Endpoints
  <2>2. b < CumulativeWeights[e] <=> ~ (e < m)
    BY <1>0, <1>4, <2>1
  <2>3. Lower(e) <= b <=> e = 0 \/ e - 1 < m
    <3>1. CASE e = 0
      BY <1>0, <3>1 DEF Lower
    <3>2. CASE e # 0
      <4>1. e - 1 \in Endpoints
        BY <3>2, EndpointsExist DEF Endpoints
      <4> QED
        BY <1>4, <3>2, <4>1 DEF Lower
    <3> QED
      BY <3>1, <3>2
  <2> QED
    BY <1>3, <2>1, <2>2, <2>3
<1> QED
  BY <1>3, <1>6, <1>7 DEF b

\* Quotient and remainder are unique.
LEMMA RemainderUnique ==
  ASSUME NEW N \in Nat \ {0}, NEW q \in Int, NEW r \in Nat, r < N, NEW a \in Nat, a = N * q + r
  PROVE  a % N = r
<1> DEFINE p == a \div N
           s == a % N
<1>1. /\ p \in Int /\ s \in Nat /\ s < N
      /\ a = N * p + s
  OBVIOUS
<1> HIDE DEF p, s
<1>2. N * q + r = N * p + s
  BY <1>1
<1>3. CASE q = p
  BY <1>1, <1>2, <1>3 DEF s
<1>4. CASE q < p
  <2>1. N * (q + 1) <= N * p
    BY <1>1, <1>4
  <2>2. N * (q + 1) = N * q + N
    BY <1>1
  <2> QED
    BY <1>1, <1>2, <2>1, <2>2
<1>5. CASE p < q
  <2>1. N * (p + 1) <= N * q
    BY <1>1, <1>5
  <2>2. N * (p + 1) = N * p + N
    BY <1>1
  <2> QED
    BY <1>1, <1>2, <2>1, <2>2
<1> QED
  BY <1>1, <1>3, <1>4, <1>5

\* The buckets of consecutive ticks are consecutive, but for one wrap.
LEMMA ConsecutiveTicks ==
  ASSUME NEW N \in Nat \ {0}, NEW a \in Nat, NEW k \in 0 .. N - 1
  PROVE  (a + k) % N = IF (a % N) + k < N THEN (a % N) + k ELSE (a % N) + k - N
<1> DEFINE p == a \div N
           s == a % N
<1>1. p \in Int /\ s \in Nat /\ s < N /\ a = N * p + s
  OBVIOUS
<1> HIDE DEF p, s
<1>2. CASE s + k < N
  <2>1. a + k = N * p + (s + k) /\ s + k \in Nat /\ a + k \in Nat
    BY <1>1
  <2>2. (a + k) % N = s + k
    BY <1>1, <1>2, <2>1, RemainderUnique
  <2> QED
    BY <1>2, <2>2 DEF s
<1>3. CASE ~ (s + k < N)
  <2>1. N * (p + 1) = N * p + N
    BY <1>1
  <2>2. a + k = N * (p + 1) + (s + k - N) /\ s + k - N \in Nat /\ s + k - N < N /\ a + k \in Nat
    BY <1>1, <1>3, <2>1
  <2>3. p + 1 \in Int
    BY <1>1
  <2> DEFINE q == p + 1
             t == s + k - N
  <2>4. q \in Int /\ t \in Nat /\ t < N /\ a + k \in Nat /\ a + k = N * q + t
    BY <2>2, <2>3
  <2> HIDE DEF q, t
  <2>5. (a + k) % N = t
    BY <2>4, RemainderUnique
  <2> QED
    BY <1>3, <2>5 DEF s, t
<1> QED
  BY <1>2, <1>3 DEF s

\* Of N consecutive ticks each bucket gets one.
LEMMA TicksOfBuckets ==
  ASSUME NEW N \in Nat \ {0}, NEW a \in Nat, NEW lo \in Nat, NEW hi \in Nat, lo <= hi, hi <= N
  PROVE  Cardinality({k \in 0 .. N - 1 : lo <= (a + k) % N /\ (a + k) % N < hi}) = hi - lo
<1> DEFINE r == a % N
           T == {k \in 0 .. N - 1 : lo <= (a + k) % N /\ (a + k) % N < hi}
           Tick(b) == IF r <= b THEN b - r ELSE b - r + N
           f == [b \in lo .. hi - 1 |-> Tick(b)]
<1>1. r \in Nat /\ r < N
  OBVIOUS
<1>2. \A k \in 0 .. N - 1 : (a + k) % N = IF r + k < N THEN r + k ELSE r + k - N
  BY ConsecutiveTicks
<1> HIDE DEF r
<1>3. ASSUME NEW b \in lo .. hi - 1
      PROVE  Tick(b) \in T
  <2>1. Tick(b) \in 0 .. N - 1
    BY <1>1
  <2>2. (a + Tick(b)) % N = b
    <3>1. (a + Tick(b)) % N = IF r + Tick(b) < N THEN r + Tick(b) ELSE r + Tick(b) - N
      BY <1>2, <2>1
    <3> QED
      BY <1>1, <3>1
  <2> HIDE DEF Tick
  <2> QED
    BY <2>1, <2>2
<1>4. ASSUME NEW x \in lo .. hi - 1, NEW y \in lo .. hi - 1, Tick(x) = Tick(y)
      PROVE  x = y
  BY <1>1, <1>4
<1>5. ASSUME NEW k \in T PROVE \E b \in lo .. hi - 1 : Tick(b) = k
  <2> DEFINE b == (a + k) % N
  <2>1. k \in 0 .. N - 1 /\ b = IF r + k < N THEN r + k ELSE r + k - N
    BY <1>2
  <2>2. lo <= b /\ b < hi
    OBVIOUS
  <2> HIDE DEF b
  <2>3. b \in lo .. hi - 1 /\ Tick(b) = k
    BY <1>1, <2>1, <2>2
  <2> QED
    BY <2>3
<1>6. f \in Bijection(lo .. hi - 1, T)
  <2>1. f \in [lo .. hi - 1 -> T]
    BY <1>3
  <2>2. \A x, y \in lo .. hi - 1 : f[x] = f[y] => x = y
    BY <1>4
  <2>3. \A k \in T : \E b \in lo .. hi - 1 : f[b] = k
    BY <1>5
  <2> HIDE DEF f, T
  <2> QED
    BY <2>1, <2>2, <2>3 DEF Bijection, Injection, Surjection, IsInjective
<1>7. IsFiniteSet(lo .. hi - 1) /\ Cardinality(lo .. hi - 1) = hi - lo
  <2>1. lo \in Int /\ hi - 1 \in Int
    OBVIOUS
  <2>2. /\ IsFiniteSet(lo .. hi - 1)
        /\ Cardinality(lo .. hi - 1) = IF lo > hi - 1 THEN 0 ELSE hi - 1 - lo + 1
    BY <2>1, FS_Interval
  <2> QED
    BY <2>2
<1>8. Cardinality(T) = Cardinality(lo .. hi - 1)
  <2> HIDE DEF f, T
  <2> QED
    BY <1>6, <1>7, FS_Bijection DEF ExistsBijection
<1> QED
  BY <1>7, <1>8

-----------------------------------------------------------------------------
(* The calls.                                                                *)

\* An offset of the rotation is an endpoint.
LEMMA RotationType ==
  ASSUME NEW s \in Endpoints, NEW k \in Nat
  PROVE  Rotation(s, k) \in Endpoints
BY ConfigAssumption DEF Rotation, Endpoints

LEMMA RotationWraps ==
  ASSUME NEW s \in Endpoints, NEW k \in Endpoints
  PROVE  Rotation(s, k) = IF s + k < NumEndpoints THEN s + k ELSE s + k - NumEndpoints
<1>1. /\ NumEndpoints \in Nat \ {0} /\ k \in 0 .. NumEndpoints - 1
      /\ s \in Nat /\ s < NumEndpoints
  BY EndpointsExist DEF Endpoints
<1>2. s % NumEndpoints = s
  <2>1. s = NumEndpoints * 0 + s
    BY <1>1
  <2> QED
    BY <1>1, <2>1, RemainderUnique
<1>3. (s + k) % NumEndpoints = IF (s % NumEndpoints) + k < NumEndpoints
                               THEN (s % NumEndpoints) + k
                               ELSE (s % NumEndpoints) + k - NumEndpoints
  BY <1>1, ConsecutiveTicks
<1> QED
  BY <1>2, <1>3 DEF Rotation

\* The rotation of a round reaches every endpoint.
LEMMA RotationCovers ==
  ASSUME NEW s \in Endpoints, NEW e \in Endpoints
  PROVE  \E k \in Endpoints : Rotation(s, k) = e
<1> DEFINE k == IF s <= e THEN e - s ELSE e - s + NumEndpoints
<1>1. k \in Endpoints
  BY EndpointsExist DEF Endpoints
<1>2. s + k = IF s <= e THEN e ELSE e + NumEndpoints
  BY EndpointsExist
<1>3. e < NumEndpoints /\ ~ (e + NumEndpoints < NumEndpoints) /\ e + NumEndpoints - NumEndpoints = e
  BY EndpointsExist DEF Endpoints
<1> HIDE DEF k
<1>4. Rotation(s, k) = IF s + k < NumEndpoints THEN s + k ELSE s + k - NumEndpoints
  BY <1>1, RotationWraps
<1>5. Rotation(s, k) = e
  <2>1. CASE s <= e
    BY <1>2, <1>3, <1>4, <2>1
  <2>2. CASE ~ (s <= e)
    <3>1. s + k = e + NumEndpoints
      BY <1>2, <2>2
    <3>2. ~ (s + k < NumEndpoints) /\ s + k - NumEndpoints = e
      <4>1. s \in Nat /\ k \in Nat /\ e \in Nat /\ NumEndpoints \in Nat
        BY <1>1, EndpointsExist
      <4> QED
        BY <3>1, <4>1
    <3> QED
      BY <1>4, <3>2
  <2> QED
    BY <2>1, <2>2
<1> QED
  BY <1>1, <1>5

-----------------------------------------------------------------------------
\* What holds of every call.  While an endpoint is considered it is one of the
\* rotation and accepts the request, and an alternative comes after it; a round
\* that has sent nothing yet has an accepting endpoint still to come.
Considering == {"scan", "acquire", "inflight", "failover"}
ToCome(c) == \E k \in Endpoints : k >= attempt[c] /\ Accepts(c, Rotation(start[c], k))
CallInv(c) ==
  /\ pc[c] \in Considering => attempt[c] < NumEndpoints /\ Accepts(c, Current(c))
  /\ pc[c] = "scan" => attempt[c] < scan[c]
  /\ pc[c] \notin {"new", "returned", "cancelled"} => \E e \in Endpoints : Accepts(c, e)
  /\ pc[c] = "failover" => lastErr[c] # NoError
  /\ pc[c] = "attempt" => lastErr[c] # NoError \/ ToCome(c)
  /\ result[c] # "panic"
AllCallsInv == \A c \in Calls : CallInv(c)

TypeInv == TypeOK /\ AllCallsInv

\* A call that has not begun is in range and has nothing left to show.
LEMMA TypeInvInit == Init => TypeInv
<1> USE ConfigAssumption DEF TypeOK
<1> SUFFICES ASSUME Init PROVE TypeInv
  OBVIOUS
<1>1. permits \in [Endpoints -> Nat]
  BY DEF Init
<1>2. /\ start \in [Calls -> Endpoints]
      /\ scan \in [Calls -> 0 .. NumEndpoints]
      /\ attempt \in [Calls -> 0 .. NumEndpoints]
  BY DEF Init, Endpoints
<1>3. level \in [Domains -> Levels] /\ own \in [Calls -> Levels]
  BY DEF Init, Levels
<1>4. tries \in [Calls -> [Endpoints -> Nat]] /\ skips \in [Calls -> [Endpoints -> Nat]]
  BY DEF Init
<1>5. AllCallsInv
  BY DEF Init, AllCallsInv, CallInv, Considering
<1> QED
  BY <1>1, <1>2, <1>3, <1>4, <1>5 DEF Init, Labels, TypeInv

\* What the helper actions do to the typed variables.
LEMMA HelperTypes ==
  ASSUME TypeOK
  PROVE  /\ \A c \in Calls : Current(c) \in Endpoints /\ Candidate(c) \in Endpoints
         /\ \A d \in Domains, l \in Levels :
              ReadDelay(d, l) => level' \in [Domains -> Levels]
         /\ \A d \in Domains :
              Escalate(d) \/ Recover(d) => level' \in [Domains -> Levels]
         /\ \A e \in Endpoints : Release(e) => permits' \in [Endpoints -> Nat]
         /\ \A c \in Calls : NextAttempt(c) /\ attempt[c] < NumEndpoints
              => attempt' \in [Calls -> 0 .. NumEndpoints]
         /\ \A c \in Calls : DomainOf[Current(c)] \in Domains
                             /\ DomainOf[Candidate(c)] \in Domains
<1> USE ConfigAssumption DEF TypeOK
<1>1. \A c \in Calls : Current(c) \in Endpoints /\ Candidate(c) \in Endpoints
  BY RotationType DEF Current, Candidate
<1>2. ASSUME NEW d \in Domains, NEW l \in Levels, ReadDelay(d, l)
      PROVE  level' \in [Domains -> Levels]
  BY <1>2 DEF ReadDelay
<1>3. ASSUME NEW d \in Domains, Escalate(d) \/ Recover(d)
      PROVE  level' \in [Domains -> Levels]
  <2>1. CASE Escalate(d)
    <3>1. level[d] \in Levels
      OBVIOUS
    <3>2. (IF level[d] < MaxLevel THEN level[d] + 1 ELSE MaxLevel) \in Levels
      BY <3>1 DEF Levels
    <3> QED
      BY <2>1, <3>2 DEF Escalate
  <2>2. CASE Recover(d)
    <3>1. level[d] > 0 => level[d] - 1 \in Levels
      BY DEF Levels
    <3> QED
      BY <2>2, <3>1 DEF Recover
  <2> QED
    BY <1>3, <2>1, <2>2
<1>4. ASSUME NEW e \in Endpoints, Release(e) PROVE permits' \in [Endpoints -> Nat]
  BY <1>4 DEF Release
<1>5. ASSUME NEW c \in Calls, NextAttempt(c), attempt[c] < NumEndpoints
      PROVE  attempt' \in [Calls -> 0 .. NumEndpoints]
  BY <1>5 DEF NextAttempt
<1> QED
  BY <1>1, <1>2, <1>3, <1>4, <1>5

\* A round is closed with the next one or with the call's return.
LEMMA EndRoundTypes ==
  ASSUME TypeOK, NEW c \in Calls, EndRound(c)
  PROVE  TypeOK'
<1>1. UNCHANGED <<counter, level, permits, start, attempt, scan, own, lastErr, tries, skips>>
  BY DEF EndRound, history
<1>2. CASE round[c] = MaxRetryRounds
  <2>1. UNCHANGED round /\ pc' = [pc EXCEPT ![c] = "returned"]
    BY <1>2 DEF EndRound, Return, Goto
  <2>2. \E r \in Replies \cup {"panic"} : result' = [result EXCEPT ![c] = r]
    BY <1>2 DEF EndRound, Return, TypeOK
  <2> QED
    BY <1>1, <2>1, <2>2 DEF TypeOK, Labels
<1>3. CASE round[c] # MaxRetryRounds
  <2>1. /\ round' = [round EXCEPT ![c] = round[c] + 1]
        /\ pc' = [pc EXCEPT ![c] = "select"]
        /\ UNCHANGED result
    BY <1>3 DEF EndRound, Goto
  <2>2. round[c] \in 0 .. MaxRetryRounds
    BY DEF TypeOK
  <2>3. round[c] + 1 \in 0 .. MaxRetryRounds
    BY <1>3, <2>2, ConfigAssumption
  <2> QED
    BY <1>1, <2>1, <2>3 DEF TypeOK, Labels
<1> QED
  BY <1>2, <1>3

\* No step of a call, of another transport or of a dropped future leaves the
\* types: levels are capped, offsets stop at the end of the rotation.
LEMMA TypeInvStep == TypeInv /\ [Next]_vars => TypeOK'
<1> SUFFICES ASSUME TypeInv, [Next]_vars PROVE TypeOK'
  OBVIOUS
<1> USE ConfigAssumption DEF TypeInv, TypeOK, progress, history, Labels, Goto, Return
<1>0. /\ \A c \in Calls : Current(c) \in Endpoints /\ Candidate(c) \in Endpoints
      /\ \A d \in Domains, l \in Levels :
           ReadDelay(d, l) => level' \in [Domains -> Levels]
      /\ \A d \in Domains :
           Escalate(d) \/ Recover(d) => level' \in [Domains -> Levels]
      /\ \A e \in Endpoints : Release(e) => permits' \in [Endpoints -> Nat]
      /\ \A c \in Calls : NextAttempt(c) /\ attempt[c] < NumEndpoints
           => attempt' \in [Calls -> 0 .. NumEndpoints]
      /\ \A c \in Calls : DomainOf[Current(c)] \in Domains
                          /\ DomainOf[Candidate(c)] \in Domains
  BY HelperTypes
<1>at. \A c \in Calls : pc[c] \in Considering => attempt[c] < NumEndpoints
  BY DEF AllCallsInv, CallInv
<1>1. ASSUME NEW c \in Calls, Begin(c) PROVE TypeOK'
  BY <1>1 DEF Begin
<1>2. ASSUME NEW c \in Calls, Select(c) PROVE TypeOK'
  <2>1. SelectEndpoint(counter) \in Endpoints
    BY SelectsByBucket
  <2>2. (counter + 1) % CounterMod \in 0 .. CounterMod - 1
    OBVIOUS
  <2> QED
    BY <1>2, <2>1, <2>2 DEF Select
<1>3. ASSUME NEW c \in Calls, PassOver(c) PROVE TypeOK'
  BY <1>3, <1>0 DEF PassOver, NextAttempt
<1>4. ASSUME NEW c \in Calls, Consider(c) PROVE TypeOK'
  BY <1>4, <1>0 DEF Consider
<1>5. ASSUME NEW c \in Calls, ScanPast(c) PROVE TypeOK'
  <2>1. level' \in [Domains -> Levels]
    BY <1>5, <1>0 DEF ScanPast
  <2> QED
    BY <1>5, <2>1 DEF ScanPast
<1>6. ASSUME NEW c \in Calls, Skip(c) PROVE TypeOK'
  <2>1. level' \in [Domains -> Levels]
    BY <1>6, <1>0 DEF Skip, FindsAlternative
  <2>2. attempt' \in [Calls -> 0 .. NumEndpoints]
    BY <1>6, <1>0, <1>at DEF Skip, FindsAlternative, Considering
  <2>3. skips' \in [Calls -> [Endpoints -> Nat]]
    BY <1>6, <1>0 DEF Skip
  <2> QED
    BY <1>6, <2>1, <2>2, <2>3 DEF Skip, NextAttempt
<1>7. ASSUME NEW c \in Calls, Keep(c) PROVE TypeOK'
  BY <1>7, <1>0 DEF Keep, FindsAlternative
<1>8. ASSUME NEW c \in Calls, Send(c) PROVE TypeOK'
  <2>1. permits' \in [Endpoints -> Nat]
    <3> DEFINE e == Current(c)
    <3>1. e \in Endpoints
      BY <1>0
    <3>2. permits[e] > 0 => permits[e] - 1 \in Nat
      BY <3>1
    <3> HIDE DEF e
    <3>3. CASE UNCHANGED permits
      BY <3>3
    <3>4. CASE permits[e] > 0 /\ permits' = [permits EXCEPT ![e] = permits[e] - 1]
      BY <3>1, <3>2, <3>4
    <3> QED
      BY <1>8, <3>3, <3>4 DEF Send, e
  <2>2. tries' \in [Calls -> [Endpoints -> Nat]]
    BY <1>8, <1>0 DEF Send
  <2> QED
    BY <1>8, <2>1, <2>2 DEF Send
<1>9. ASSUME NEW c \in Calls, Finish(c) PROVE TypeOK'
  BY <1>9, <1>0 DEF Finish
<1>10. ASSUME NEW c \in Calls, FailOver(c) PROVE TypeOK'
  <2>1. level' \in [Domains -> Levels]
    BY <1>10, <1>0 DEF FailOver
  <2>2. CASE UNCHANGED <<permits, round, start, attempt, scan, own>> /\ Goto(c, "failover")
    BY <1>10, <2>1, <2>2 DEF FailOver
  <2>3. CASE Release(Current(c)) /\ NextAttempt(c)
    BY <1>10, <1>0, <1>at, <2>1, <2>3 DEF FailOver, NextAttempt, Considering
  <2> QED
    BY <1>10, <2>2, <2>3 DEF FailOver
<1>11. ASSUME NEW c \in Calls, FailoverDelayOver(c) PROVE TypeOK'
  BY <1>11, <1>0, <1>at DEF FailoverDelayOver, NextAttempt, Considering
<1>12. ASSUME NEW c \in Calls, EndRound(c) PROVE TypeOK'
  BY <1>12, EndRoundTypes
<1>13. ASSUME NEW c \in Calls, Cancel(c) PROVE TypeOK'
  BY <1>13, <1>0 DEF Cancel
<1>14. ASSUME NEW d \in Domains, OtherTransport(d) PROVE TypeOK'
  BY <1>14 DEF OtherTransport
<1>15. CASE UNCHANGED vars
  BY <1>15 DEF vars
<1> QED
  BY <1>1, <1>2, <1>3, <1>4, <1>5, <1>6, <1>7, <1>8, <1>9, <1>10, <1>11, <1>12,
     <1>13, <1>14, <1>15 DEF Next, Step, AllFinished

\* A step of one call leaves the state of every other call alone.
LEMMA OthersUntouched ==
  ASSUME TypeOK, NEW c \in Calls, Step(c) \/ Cancel(c), NEW d \in Calls, d # c, CallInv(d)
  PROVE  CallInv(d)'
<1>1. /\ pc'[d] = pc[d] /\ result'[d] = result[d] /\ lastErr'[d] = lastErr[d]
      /\ start'[d] = start[d] /\ attempt'[d] = attempt[d] /\ scan'[d] = scan[d]
  BY DEF TypeOK, Step, Begin, Select, PassOver, Consider, ScanPast, Skip, Keep, Send,
         Finish, FailOver, FailoverDelayOver, EndRound, Cancel, Goto, Return,
         NextAttempt, progress, history
<1> QED
  BY <1>1 DEF CallInv, Current, ToCome

\* A step of a call keeps what holds of that call: an endpoint is passed over
\* only when it does not accept the request, and skipped only when a later one
\* of the rotation does.
LEMMA CallInvStep ==
  ASSUME TypeOK, NEW c \in Calls, CallInv(c), Step(c) \/ Cancel(c)
  PROVE  CallInv(c)'
<1> USE ConfigAssumption DEF CallInv, Considering, NoError
<1>0. /\ start[c] \in Endpoints /\ attempt[c] \in 0 .. NumEndpoints
      /\ scan[c] \in 0 .. NumEndpoints
      /\ lastErr[c] \in Replies \cup {NoError} /\ result[c] # "panic"
      /\ pc \in [Calls -> Labels] /\ attempt \in [Calls -> 0 .. NumEndpoints]
      /\ start \in [Calls -> Endpoints] /\ scan \in [Calls -> 0 .. NumEndpoints]
      /\ DOMAIN lastErr = Calls /\ DOMAIN result = Calls
  BY DEF TypeOK
<1>f. "panic" \notin Replies /\ "none" \notin Replies
  OBVIOUS
<1>1. CASE Begin(c)
  BY <1>0, <1>1 DEF Begin, Goto, Return, progress
<1>2. CASE Select(c)
  <2>1. start'[c] \in Endpoints /\ attempt'[c] = 0 /\ pc'[c] = "attempt" /\ UNCHANGED result
    <3>1. SelectEndpoint(counter) \in Endpoints
      BY SelectsByBucket DEF TypeOK
    <3> QED
      BY <1>0, <1>2, <3>1 DEF Select, Goto
  <2>2. PICK e \in Endpoints : Accepts(c, e)
    BY <1>2 DEF Select
  <2>3. PICK k \in Endpoints : Rotation(start'[c], k) = e
    BY <2>1, RotationCovers
  <2>4. ToCome(c)'
    <3>1. k >= attempt'[c]
      BY <2>1, EndpointsExist
    <3>2. Accepts(c, Rotation(start[c], k))'
      BY <2>2, <2>3 DEF Accepts, AcceptsRequest, Rotation
    <3> QED
      BY <3>1, <3>2 DEF ToCome
  <2> QED
    BY <1>0, <2>1, <2>2, <2>4
<1>3. CASE PassOver(c)
  <2>1. /\ attempt'[c] = attempt[c] + 1 /\ pc'[c] = "attempt"
        /\ UNCHANGED <<start, lastErr, result>>
    BY <1>0, <1>3 DEF PassOver, NextAttempt, Goto
  <2>2. ToCome(c) => ToCome(c)'
    BY <1>0, <1>3, <2>1 DEF ToCome, PassOver, Current, Endpoints
  <2> QED
    BY <1>0, <1>3, <2>1, <2>2 DEF PassOver
<1>4. CASE Consider(c)
  <2>1. /\ scan'[c] = attempt[c] + 1 /\ pc'[c] = "scan"
        /\ UNCHANGED <<start, attempt, lastErr, result>>
    BY <1>0, <1>4 DEF Consider, Goto
  <2> QED
    BY <1>0, <1>4, <2>1 DEF Consider, Current
<1>5. CASE ScanPast(c)
  <2>1. /\ scan'[c] = scan[c] + 1 /\ pc[c] = "scan"
        /\ UNCHANGED <<pc, start, attempt, lastErr, result>>
    BY <1>0, <1>5 DEF ScanPast
  <2> QED
    BY <1>0, <2>1 DEF Current, Endpoints
<1>6. CASE Skip(c)
  <2>1. /\ attempt'[c] = attempt[c] + 1 /\ pc'[c] = "attempt" /\ pc[c] = "scan"
        /\ UNCHANGED <<start, lastErr, result>>
    BY <1>0, <1>6 DEF Skip, FindsAlternative, NextAttempt, Goto
  <2>2. scan[c] \in Endpoints /\ Accepts(c, Rotation(start[c], scan[c]))
    BY <1>0, <1>6 DEF Skip, FindsAlternative, Candidate, Endpoints
  <2>3. ToCome(c)'
    BY <1>0, <2>1, <2>2 DEF ToCome, Endpoints
  <2> QED
    BY <1>0, <2>1, <2>3
<1>7. CASE Keep(c)
  <2>1. pc[c] = "scan" /\ pc'[c] = "acquire" /\ UNCHANGED <<start, attempt, lastErr, result>>
    BY <1>0, <1>7 DEF Keep, FindsAlternative, Goto, progress
  <2> QED
    BY <1>0, <2>1 DEF Current
<1>8. CASE Send(c)
  <2>1. pc[c] = "acquire" /\ pc'[c] = "inflight" /\ UNCHANGED <<start, attempt, lastErr, result>>
    BY <1>0, <1>8 DEF Send, Goto, progress
  <2> QED
    BY <1>0, <2>1 DEF Current
<1>9. CASE Finish(c)
  <2>1. pc'[c] = "returned" /\ \E r \in Replies : result'[c] = r
    BY <1>0, <1>9 DEF Finish, Return, Goto
  <2> QED
    BY <1>f, <2>1
<1>10. CASE FailOver(c)
  <2>1. /\ pc[c] = "inflight" /\ UNCHANGED <<start, result>> /\ lastErr'[c] # NoError
        /\ \/ pc'[c] = "failover" /\ UNCHANGED attempt
           \/ pc'[c] = "attempt"
    BY <1>0, <1>f, <1>10 DEF FailOver, Goto, NextAttempt
  <2> QED
    BY <1>0, <2>1 DEF Current
<1>11. CASE FailoverDelayOver(c)
  <2>1. pc[c] = "failover" /\ pc'[c] = "attempt" /\ UNCHANGED <<start, lastErr, result>>
    BY <1>0, <1>11 DEF FailoverDelayOver, NextAttempt, Goto
  <2> QED
    BY <1>0, <2>1
<1>12. CASE EndRound(c)
  <2>1. pc[c] = "attempt" /\ attempt[c] >= NumEndpoints /\ UNCHANGED <<start, attempt, lastErr>>
    BY <1>12 DEF EndRound
  <2>2. lastErr[c] # NoError
    BY <1>0, <2>1 DEF ToCome, Endpoints
  <2>3. CASE round[c] = MaxRetryRounds
    <3>1. pc'[c] = "returned" /\ result'[c] = lastErr[c]
      BY <1>0, <1>12, <2>2, <2>3 DEF EndRound, Return, Goto
    <3> QED
      BY <1>0, <1>f, <3>1
  <2>4. CASE round[c] # MaxRetryRounds
    <3>1. pc'[c] = "select" /\ UNCHANGED result
      BY <1>0, <1>12, <2>4 DEF EndRound, Goto
    <3> QED
      BY <1>0, <2>1, <3>1
  <2> QED
    BY <2>3, <2>4
<1>13. CASE Cancel(c)
  <2>1. pc'[c] = "cancelled" /\ UNCHANGED result
    BY <1>0, <1>13 DEF Cancel, Goto
  <2> QED
    BY <1>0, <2>1
<1> QED
  BY <1>1, <1>2, <1>3, <1>4, <1>5, <1>6, <1>7, <1>8, <1>9, <1>10, <1>11, <1>12, <1>13
     DEF Step

\* So every step of the system keeps what holds of every call.
LEMMA AllCallsInvStep == TypeInv /\ [Next]_vars => AllCallsInv'
<1> SUFFICES ASSUME TypeInv, [Next]_vars PROVE AllCallsInv'
  OBVIOUS
<1> USE DEF TypeInv
<1>1. ASSUME NEW c \in Calls, Step(c) \/ Cancel(c) PROVE AllCallsInv'
  <2>1. ASSUME NEW d \in Calls PROVE CallInv(d)'
    BY <1>1, OthersUntouched, CallInvStep DEF AllCallsInv
  <2> QED
    BY <2>1 DEF AllCallsInv
<1>2. CASE UNCHANGED <<pc, progress, result>>
  BY <1>2 DEF AllCallsInv, CallInv, ToCome, Current, progress
<1> QED
  BY <1>1, <1>2 DEF Next, OtherTransport, AllFinished, vars, progress

-----------------------------------------------------------------------------
\* TypeOK holds for every configuration build() accepts: a backoff level stays
\* at most max_backoff_level and every index into the endpoints is in range.
THEOREM TypeCorrect == Spec => []TypeOK
<1>1. TypeInv /\ [Next]_vars => TypeInv'
  BY TypeInvStep, AllCallsInvStep DEF TypeInv
<1> QED
  BY TypeInvInit, <1>1, PTL DEF Spec, TypeInv

\* last_err.expect() never fails: a round of a call that some endpoint accepts
\* always ends with an error of an endpoint it was sent to.
THEOREM NoPanic == Spec => []NeverPanics
<1>1. TypeInv /\ [Next]_vars => TypeInv'
  BY TypeInvStep, AllCallsInvStep DEF TypeInv
<1>2. TypeInv => NeverPanics
  BY DEF TypeInv, AllCallsInv, CallInv, NeverPanics
<1> QED
  BY TypeInvInit, <1>1, <1>2, PTL DEF Spec

-----------------------------------------------------------------------------
(* Permits.                                                                  *)

\* The permits taken are still those of the calls at an endpoint when the call
\* that moves neither comes to nor leaves one.
LEMMA NobodyMoves ==
  ASSUME PermitsConserved, UNCHANGED permits,
         \A c \in Calls : /\ Holding(c)' <=> Holding(c)
                          /\ Holding(c) => Current(c)' = Current(c)
  PROVE  PermitsConserved'
<1>1. ASSUME NEW e \in Endpoints PROVE Holders(e)' = Holders(e)
  BY DEF Holders
<1> QED
  BY <1>1 DEF PermitsConserved

\* A call that comes to an endpoint with a limit takes one permit.
LEMMA OneArrives ==
  ASSUME TypeOK, PermitsConserved, NEW c \in Calls, ~Holding(c), Holding(c)',
         Current(c)' = Current(c),
         \A d \in Calls \ {c} : /\ Holding(d)' <=> Holding(d)
                                /\ Holding(d) => Current(d)' = Current(d),
         \/ InFlightLimits[Current(c)] = Unlimited /\ UNCHANGED permits
         \/ /\ InFlightLimits[Current(c)] # Unlimited
            /\ permits' = [permits EXCEPT ![Current(c)] = @ - 1]
  PROVE  PermitsConserved'
<1> SUFFICES ASSUME NEW e \in Endpoints, InFlightLimits[e] # Unlimited
             PROVE  permits'[e] + Cardinality(Holders(e)') = InFlightLimits[e]
  BY DEF PermitsConserved
<1>1. permits[e] + Cardinality(Holders(e)) = InFlightLimits[e]
  BY DEF PermitsConserved
<1>2. permits \in [Endpoints -> Nat]
  BY DEF TypeOK
<1>3. IsFiniteSet(Holders(e)) /\ Cardinality(Holders(e)) \in Nat
  BY CallsFinite, FS_Subset, FS_CardinalityType DEF Holders
<1>4. CASE e = Current(c)
  <2>1. c \notin Holders(e) /\ Holders(e)' = Holders(e) \cup {c}
    BY <1>4 DEF Holders
  <2>2. Cardinality(Holders(e)') = Cardinality(Holders(e)) + 1
    BY <1>3, <2>1, FS_AddElement
  <2>3. permits'[e] = permits[e] - 1
    BY <1>2, <1>4
  <2> QED
    BY <1>1, <1>2, <1>3, <2>2, <2>3
<1>5. CASE e # Current(c)
  <2>1. Holders(e)' = Holders(e)
    BY <1>5 DEF Holders
  <2>2. permits'[e] = permits[e]
    BY <1>2, <1>5
  <2> QED
    BY <1>1, <2>1, <2>2
<1> QED
  BY <1>4, <1>5

\* A call that leaves it gives its permit back, whatever the way out.
LEMMA OneLeaves ==
  ASSUME TypeOK, PermitsConserved, NEW c \in Calls, Holding(c), ~Holding(c)',
         Release(Current(c)),
         \A d \in Calls \ {c} : /\ Holding(d)' <=> Holding(d)
                                /\ Holding(d) => Current(d)' = Current(d)
  PROVE  PermitsConserved'
<1> SUFFICES ASSUME NEW e \in Endpoints, InFlightLimits[e] # Unlimited
             PROVE  permits'[e] + Cardinality(Holders(e)') = InFlightLimits[e]
  BY DEF PermitsConserved
<1>1. permits[e] + Cardinality(Holders(e)) = InFlightLimits[e]
  BY DEF PermitsConserved
<1>2. permits \in [Endpoints -> Nat]
  BY DEF TypeOK
<1>3. IsFiniteSet(Holders(e)) /\ Cardinality(Holders(e)) \in Nat
  BY CallsFinite, FS_Subset, FS_CardinalityType DEF Holders
<1>4. CASE e = Current(c)
  <2>1. c \in Holders(e) /\ Holders(e)' = Holders(e) \ {c}
    BY <1>4 DEF Holders
  <2>2. Cardinality(Holders(e)') = Cardinality(Holders(e)) - 1
    BY <1>3, <2>1, FS_RemoveElement
  <2>3. permits'[e] = permits[e] + 1
    BY <1>2, <1>4 DEF Release
  <2> QED
    BY <1>1, <1>2, <1>3, <2>2, <2>3
<1>5. CASE e # Current(c)
  <2>1. Holders(e)' = Holders(e)
    BY <1>5 DEF Holders
  <2>2. permits'[e] = permits[e]
    BY <1>2, <1>5 DEF Release
  <2> QED
    BY <1>1, <2>1, <2>2
<1> QED
  BY <1>4, <1>5

\* A step of one call does not move another.
LEMMA OthersStay ==
  ASSUME TypeOK, NEW c \in Calls, Step(c) \/ Cancel(c), NEW d \in Calls \ {c}
  PROVE  /\ Holding(d)' <=> Holding(d)
         /\ Current(d)' = Current(d)
<1>1. pc'[d] = pc[d] /\ start'[d] = start[d] /\ attempt'[d] = attempt[d]
  BY DEF TypeOK, Step, Begin, Select, PassOver, Consider, ScanPast, Skip, Keep, Send,
         Finish, FailOver, FailoverDelayOver, EndRound, Cancel, Goto, Return,
         NextAttempt, progress, history
<1> QED
  BY <1>1 DEF Holding, Current

\* Every step keeps the permits in balance.
LEMMA PermitsStep ==
  ASSUME TypeOK, PermitsConserved, [Next]_vars
  PROVE  PermitsConserved'
<1>1. ASSUME NEW c \in Calls, Step(c) \/ Cancel(c) PROVE PermitsConserved'
  <2>0. pc \in [Calls -> Labels] /\ start \in [Calls -> Endpoints]
        /\ attempt \in [Calls -> 0 .. NumEndpoints]
    BY DEF TypeOK
  <2>o. \A d \in Calls \ {c} : /\ Holding(d)' <=> Holding(d)
                               /\ Holding(d) => Current(d)' = Current(d)
    BY <1>1, OthersStay
  <2>1. CASE Send(c)
    <3>1. pc[c] = "acquire" /\ pc'[c] = "inflight" /\ UNCHANGED <<start, attempt>>
      BY <2>0, <2>1 DEF Send, Goto, progress
    <3>2. ~Holding(c) /\ Holding(c)' /\ Current(c)' = Current(c)
      BY <3>1 DEF Holding, Current
    <3> QED
      BY <2>o, <2>1, <3>2, OneArrives DEF Send
  <2>2. CASE Finish(c) \/ FailoverDelayOver(c)
    <3>1. /\ pc[c] \in {"inflight", "failover"} /\ pc'[c] \in {"returned", "attempt"}
          /\ Release(Current(c))
      BY <2>0, <2>2 DEF Finish, FailoverDelayOver, Return, NextAttempt, Goto
    <3> QED
      BY <2>o, <3>1, OneLeaves DEF Holding
  <2>3. CASE FailOver(c)
    <3>1. CASE UNCHANGED <<permits, round, start, attempt, scan, own>> /\ Goto(c, "failover")
      <4>1. pc[c] = "inflight" /\ pc'[c] = "failover"
        BY <2>0, <2>3, <3>1 DEF FailOver, Goto
      <4>2. Holding(c) /\ Holding(c)' /\ Current(c)' = Current(c)
        BY <3>1, <4>1 DEF Holding, Current
      <4> QED
        BY <2>o, <3>1, <4>2, NobodyMoves
    <3>2. CASE Release(Current(c)) /\ NextAttempt(c)
      <4>1. pc[c] = "inflight" /\ pc'[c] = "attempt"
        BY <2>0, <2>3, <3>2 DEF FailOver, NextAttempt, Goto
      <4> QED
        BY <2>o, <3>2, <4>1, OneLeaves DEF Holding
    <3> QED
      BY <2>3, <3>1, <3>2 DEF FailOver
  <2>4. CASE Cancel(c)
    <3>1. pc'[c] = "cancelled"
      BY <2>0, <2>4 DEF Cancel, Goto
    <3>2. CASE Holding(c)
      BY <2>o, <2>4, <3>1, <3>2, OneLeaves DEF Cancel, Holding
    <3>3. CASE ~Holding(c)
      <4>1. UNCHANGED permits /\ ~Holding(c)'
        BY <2>4, <3>1, <3>3 DEF Cancel, Holding
      <4> QED
        BY <2>o, <3>3, <4>1, NobodyMoves
    <3> QED
      BY <3>2, <3>3
  <2>5. CASE \/ Begin(c) \/ Select(c) \/ PassOver(c) \/ Consider(c) \/ ScanPast(c)
             \/ Skip(c) \/ Keep(c) \/ EndRound(c)
    <3>1. UNCHANGED permits
      BY <2>5 DEF Begin, Select, PassOver, Consider, ScanPast, Skip, Keep, EndRound
    <3>2. /\ pc[c] \in {"new", "select", "attempt", "scan"}
          /\ pc'[c] \in {"select", "returned", "attempt", "scan", "acquire"}
      BY <2>0, <2>5 DEF Begin, Select, PassOver, Consider, ScanPast, Skip, Keep, EndRound,
                        FindsAlternative, NextAttempt, Goto, Return
    <3>3. ~Holding(c) /\ ~Holding(c)'
      BY <3>2 DEF Holding
    <3> QED
      BY <2>o, <3>1, <3>3, NobodyMoves
  <2> QED
    BY <1>1, <2>1, <2>2, <2>3, <2>4, <2>5 DEF Step
<1>2. CASE UNCHANGED <<permits, pc, progress>>
  <2>1. \A c \in Calls : /\ Holding(c)' <=> Holding(c)
                         /\ Holding(c) => Current(c)' = Current(c)
    BY <1>2 DEF Holding, Current, progress
  <2> QED
    BY <1>2, <2>1, NobodyMoves
<1> QED
  BY <1>1, <1>2 DEF Next, OtherTransport, AllFinished, vars

\* On every path out of the loop body the permit goes back: the permits out are
\* those of the calls at the endpoint, for any number of calls and any limits.
THEOREM PermitsKept == Spec => []PermitsConserved
<1>1. Init => PermitsConserved
  <2> SUFFICES ASSUME Init, NEW e \in Endpoints, InFlightLimits[e] # Unlimited
               PROVE  permits[e] + Cardinality(Holders(e)) = InFlightLimits[e]
    BY DEF PermitsConserved
  <2>1. Holders(e) = {}
    BY DEF Init, Holders, Holding
  <2>2. permits[e] = InFlightLimits[e] /\ InFlightLimits[e] \in Nat
    BY ConfigAssumption DEF Init
  <2> QED
    BY <2>1, <2>2, FS_EmptySet
<1>2. TypeInv /\ [Next]_vars => TypeInv'
  BY TypeInvStep, AllCallsInvStep DEF TypeInv
<1>3. TypeInv /\ PermitsConserved /\ [Next]_vars => PermitsConserved'
  BY PermitsStep DEF TypeInv
<1> QED
  BY TypeInvInit, <1>1, <1>2, <1>3, PTL DEF Spec

-----------------------------------------------------------------------------
(* Visits: how often a call has sent to, or skipped, an endpoint.            *)

Visits(c, e) == tries[c][e] + skips[c][e]

\* n visits are as many as there were occasions to visit e; an endpoint too
\* small for the request is left out.
AreVisits(c, e, n) == Visits(c, e) <= n /\ (Accepts(c, e) => Visits(c, e) = n)

\* Offset k of the rotation has had its turn in this round.
HadTurn(c, k) ==
  \/ k < attempt[c]
  \/ k = attempt[c] /\ pc[c] \in {"inflight", "failover"}

\* Between rounds every endpoint was visited once a round; within a round once
\* more if it has had its turn; a call that gave up has done all its rounds.
VisitInv(c) ==
  /\ pc[c] \in {"new", "select"} =>
       \A e \in Endpoints : AreVisits(c, e, round[c])
  /\ pc[c] \in {"attempt"} \cup Considering =>
       \A k \in Endpoints :
         AreVisits(c, Rotation(start[c], k), IF HadTurn(c, k) THEN round[c] + 1 ELSE round[c])
  /\ pc[c] \in {"returned", "cancelled"} =>
       \A e \in Endpoints : Visits(c, e) <= round[c] + 1
  /\ IsRetryable(result[c]) =>
       /\ pc[c] = "returned"
       /\ \A e \in Endpoints : AreVisits(c, e, MaxRetryRounds + 1)

\* Different offsets of a rotation are different endpoints.
LEMMA RotationInjective ==
  ASSUME NEW s \in Endpoints, NEW j \in Endpoints, NEW k \in Endpoints,
         Rotation(s, j) = Rotation(s, k)
  PROVE  j = k
<1>1. /\ NumEndpoints \in Nat /\ s \in 0 .. NumEndpoints - 1
      /\ j \in 0 .. NumEndpoints - 1 /\ k \in 0 .. NumEndpoints - 1
  BY EndpointsExist DEF Endpoints
<1>2. /\ Rotation(s, j) = IF s + j < NumEndpoints THEN s + j ELSE s + j - NumEndpoints
      /\ Rotation(s, k) = IF s + k < NumEndpoints THEN s + k ELSE s + k - NumEndpoints
  BY RotationWraps
<1>3. \A N, x, y, z \in Nat :
        /\ x < N /\ y < N /\ z < N
        /\ (IF x + y < N THEN x + y ELSE x + y - N) = (IF x + z < N THEN x + z ELSE x + z - N)
        => y = z
  OBVIOUS
<1>4. /\ s \in Nat /\ j \in Nat /\ k \in Nat
      /\ s < NumEndpoints /\ j < NumEndpoints /\ k < NumEndpoints
  BY <1>1
<1> QED
  BY <1>1, <1>2, <1>3, <1>4

\* Within a round every endpoint has been visited once more at most.
LEMMA VisitsOfRound ==
  ASSUME TypeOK, NEW c \in Calls, VisitInv(c), NEW e \in Endpoints
  PROVE  Visits(c, e) <= round[c] + 1
<1>1. start[c] \in Endpoints /\ round[c] \in Nat /\ pc[c] \in Labels /\ Visits(c, e) \in Nat
  BY ConfigAssumption DEF TypeOK, Visits
<1>2. PICK k \in Endpoints : Rotation(start[c], k) = e
  BY <1>1, RotationCovers
<1>3. CASE pc[c] \in {"attempt"} \cup Considering
  BY <1>1, <1>2, <1>3 DEF VisitInv, AreVisits
<1>4. CASE pc[c] \in {"new", "select"}
  BY <1>1, <1>4 DEF VisitInv, AreVisits
<1>5. CASE pc[c] \in {"returned", "cancelled"}
  BY <1>5 DEF VisitInv
<1> QED
  BY <1>1, <1>3, <1>4, <1>5 DEF Labels, Considering

\* One more visit of the current endpoint, whose turn it now has had.
LEMMA VisitStep ==
  ASSUME TypeOK, NEW c \in Calls, VisitInv(c),
         pc[c] \in {"scan", "acquire"}, attempt[c] \in Endpoints,
         UNCHANGED <<start, round, result>>,
         \/ attempt'[c] = attempt[c] + 1 /\ pc'[c] = "attempt"
         \/ attempt'[c] = attempt[c] /\ pc'[c] = "inflight",
         \A e \in Endpoints :
           Visits(c, e)' = IF e = Current(c) THEN Visits(c, e) + 1 ELSE Visits(c, e)
  PROVE  VisitInv(c)'
<1>0. /\ start[c] \in Endpoints /\ round[c] \in Nat
      /\ \A e \in Endpoints : Visits(c, e) \in Nat
  BY ConfigAssumption DEF TypeOK, Visits
<1>1. ASSUME NEW k \in Endpoints
      PROVE  AreVisits(c, Rotation(start[c], k), IF HadTurn(c, k) THEN round[c] + 1 ELSE round[c])'
  <2> DEFINE e == Rotation(start[c], k)
  <2>1. e \in Endpoints
    <3>1. k \in Nat
      BY ConfigAssumption DEF Endpoints
    <3> QED
      BY <1>0, <3>1, RotationType
  <2>2. AreVisits(c, e, IF HadTurn(c, k) THEN round[c] + 1 ELSE round[c])
    BY DEF VisitInv, Considering
  <2>3. Accepts(c, e)' <=> Accepts(c, e)
    BY DEF Accepts, AcceptsRequest
  <2>4. e' = e
    BY DEF Rotation
  <2>5. CASE k = attempt[c]
    <3>1. ~HadTurn(c, k) /\ HadTurn(c, k)'
      BY <2>5 DEF HadTurn, Endpoints
    <3>2. e = Current(c)
      BY <2>5 DEF Current
    <3>3. Visits(c, e)' = Visits(c, e) + 1
      BY <2>1, <3>2
    <3>4. Visits(c, e) <= round[c] /\ (Accepts(c, e) => Visits(c, e) = round[c])
      BY <2>2, <3>1 DEF AreVisits
    <3>5. /\ Visits(c, e)' <= round[c] + 1
          /\ Accepts(c, e) => Visits(c, e)' = round[c] + 1
      BY <1>0, <2>1, <3>3, <3>4
    <3> QED
      BY <2>3, <2>4, <3>1, <3>5 DEF AreVisits, Visits
  <2>6. CASE k # attempt[c]
    <3>1. HadTurn(c, k)' <=> HadTurn(c, k)
      BY <2>6 DEF HadTurn, Endpoints
    <3>2. e # Current(c)
      BY <1>0, <2>6, RotationInjective DEF Current
    <3>3. Visits(c, e)' = Visits(c, e)
      BY <2>1, <3>2
    <3> QED
      BY <2>2, <2>3, <2>4, <3>1, <3>3 DEF AreVisits, Visits
  <2> QED
    BY <2>5, <2>6
<1>2. ~IsRetryable(result[c])
  BY DEF VisitInv
<1> QED
  BY <1>1, <1>2 DEF VisitInv

\* A step that visits no endpoint and changes the turn of none that accepts.
LEMMA NoVisitStep ==
  ASSUME TypeOK, NEW c \in Calls, VisitInv(c),
         pc[c] \in {"attempt"} \cup Considering, pc'[c] \in {"attempt"} \cup Considering,
         UNCHANGED <<start, round, result, tries, skips>>,
         \A k \in Endpoints :
           \/ HadTurn(c, k)' <=> HadTurn(c, k)
           \/ HadTurn(c, k)' /\ ~Accepts(c, Rotation(start[c], k))
  PROVE  VisitInv(c)'
<1>0. round[c] \in Nat /\ start[c] \in Endpoints /\ \A e \in Endpoints : Visits(c, e) \in Nat
  BY ConfigAssumption DEF TypeOK, Visits
<1>1. ASSUME NEW k \in Endpoints
      PROVE  AreVisits(c, Rotation(start[c], k), IF HadTurn(c, k) THEN round[c] + 1 ELSE round[c])'
  <2> DEFINE e == Rotation(start[c], k)
  <2>1. e \in Endpoints
    <3>1. k \in Nat
      BY ConfigAssumption DEF Endpoints
    <3> QED
      BY <1>0, <3>1, RotationType
  <2>2. AreVisits(c, e, IF HadTurn(c, k) THEN round[c] + 1 ELSE round[c])
    BY DEF VisitInv
  <2>3. Accepts(c, e)' <=> Accepts(c, e)
    BY DEF Accepts, AcceptsRequest
  <2>4. e' = e /\ Visits(c, e)' = Visits(c, e)
    BY DEF Rotation, Visits
  <2>5. CASE HadTurn(c, k)' <=> HadTurn(c, k)
    BY <2>2, <2>3, <2>4, <2>5 DEF AreVisits
  <2>6. CASE HadTurn(c, k)' /\ ~Accepts(c, e)
    <3>1. Visits(c, e) <= round[c] + 1
      BY <2>1, VisitsOfRound
    <3> QED
      BY <2>3, <2>4, <2>6, <3>1 DEF AreVisits
  <2> QED
    BY <2>5, <2>6
<1>2. ~IsRetryable(result[c])
  BY DEF VisitInv, Considering
<1> QED
  BY <1>1, <1>2 DEF VisitInv, Considering

\* A call that ends, one way or the other, without a retryable error.
LEMMA EndStep ==
  ASSUME TypeOK, NEW c \in Calls, VisitInv(c),
         pc'[c] \in {"returned", "cancelled"}, UNCHANGED <<round, tries, skips>>,
         ~IsRetryable(result'[c])
  PROVE  VisitInv(c)'
<1>1. \A e \in Endpoints : Visits(c, e) <= round[c] + 1
  BY VisitsOfRound
<1>2. \A e \in Endpoints : Visits(c, e)' = Visits(c, e)
  BY DEF Visits
<1> QED
  BY <1>1, <1>2 DEF VisitInv, Considering

\* The end of a round, in which every endpoint has had its turn.
LEMMA EndRoundStep ==
  ASSUME TypeOK, NEW c \in Calls, VisitInv(c), EndRound(c)
  PROVE  VisitInv(c)'
<1>0. /\ start[c] \in Endpoints /\ round[c] \in Nat /\ attempt[c] \in Nat
      /\ pc \in [Calls -> Labels] /\ DOMAIN result = Calls
      /\ round \in [Calls -> 0 .. MaxRetryRounds]
  BY ConfigAssumption DEF TypeOK
<1>1. /\ pc[c] = "attempt" /\ attempt[c] >= NumEndpoints
      /\ UNCHANGED <<tries, skips>>
  BY DEF EndRound, history
<1>2. ASSUME NEW e \in Endpoints PROVE AreVisits(c, e, round[c] + 1)
  <2>1. PICK k \in Endpoints : Rotation(start[c], k) = e
    BY <1>0, RotationCovers
  <2>2. HadTurn(c, k)
    BY <1>0, <1>1, ConfigAssumption DEF HadTurn, Endpoints
  <2> QED
    BY <1>1, <2>1, <2>2 DEF VisitInv
<1>3. ASSUME NEW e \in Endpoints, NEW n PROVE AreVisits(c, e, n) => AreVisits(c, e, n)'
  BY <1>1 DEF AreVisits, Visits, Accepts, AcceptsRequest
<1>4. CASE round[c] = MaxRetryRounds
  <2>1. pc'[c] = "returned" /\ UNCHANGED round
    BY <1>0, <1>4 DEF EndRound, Return, Goto
  <2>2. \A e \in Endpoints : Visits(c, e)' <= round'[c] + 1
    BY <1>1, <1>2, <2>1 DEF AreVisits, Visits
  <2>3. \A e \in Endpoints : AreVisits(c, e, MaxRetryRounds + 1)'
    BY <1>2, <1>3, <1>4
  <2> QED
    BY <2>1, <2>2, <2>3 DEF VisitInv, Considering
<1>5. CASE round[c] # MaxRetryRounds
  <2>1. pc'[c] = "select" /\ UNCHANGED result /\ round'[c] = round[c] + 1
    BY <1>0, <1>5 DEF EndRound, Goto
  <2>2. \A e \in Endpoints : AreVisits(c, e, round[c])'
    <3> SUFFICES ASSUME NEW e \in Endpoints
                 PROVE  /\ Visits(c, e)' <= round'[c]
                        /\ Accepts(c, e)' => Visits(c, e)' = round'[c]
      BY DEF AreVisits
    <3>1. Visits(c, e)' = Visits(c, e) /\ (Accepts(c, e)' <=> Accepts(c, e))
      BY <1>1 DEF Visits, Accepts, AcceptsRequest
    <3> QED
      BY <1>2, <2>1, <3>1 DEF AreVisits
  <2>3. ~IsRetryable(result[c])
    BY <1>1 DEF VisitInv
  <2> QED
    BY <2>1, <2>2, <2>3 DEF VisitInv, Considering
<1> QED
  BY <1>4, <1>5

\* What a call's step does to its own visits.
LEMMA VisitInvStep ==
  ASSUME TypeOK, NEW c \in Calls, CallInv(c), VisitInv(c), Step(c) \/ Cancel(c)
  PROVE  VisitInv(c)'
<1>0. /\ start[c] \in Endpoints /\ round[c] \in Nat /\ attempt[c] \in 0 .. NumEndpoints
      /\ pc \in [Calls -> Labels] /\ DOMAIN result = Calls /\ start \in [Calls -> Endpoints]
      /\ attempt \in [Calls -> 0 .. NumEndpoints] /\ NumEndpoints \in Nat
      /\ tries \in [Calls -> [Endpoints -> Nat]] /\ skips \in [Calls -> [Endpoints -> Nat]]
  BY ConfigAssumption DEF TypeOK
<1>1. CASE Begin(c)
  <2>1. /\ pc[c] = "new" /\ pc'[c] \in {"select", "returned"}
        /\ UNCHANGED <<round, tries, skips>>
        /\ pc'[c] = "select" => UNCHANGED result
        /\ pc'[c] = "returned" => result'[c] = "exceeds_every_limit"
    BY <1>0, <1>1 DEF Begin, Goto, Return, progress, history
  <2>2. CASE pc'[c] = "returned"
    BY <2>1, <2>2, EndStep DEF IsRetryable
  <2>3. CASE pc'[c] = "select"
    BY <2>1, <2>3 DEF VisitInv, AreVisits, Visits, Accepts, AcceptsRequest, Considering
  <2> QED
    BY <2>1, <2>2, <2>3
<1>2. CASE Select(c)
  <2>1. /\ pc[c] = "select" /\ pc'[c] = "attempt" /\ attempt'[c] = 0
        /\ start'[c] \in Endpoints /\ UNCHANGED <<round, result, tries, skips>>
    <3>1. SelectEndpoint(counter) \in Endpoints
      BY SelectsByBucket DEF TypeOK
    <3> QED
      BY <1>0, <1>2, <3>1 DEF Select, Goto, history
  <2>2. ASSUME NEW k \in Endpoints
        PROVE  AreVisits(c, Rotation(start[c], k), IF HadTurn(c, k) THEN round[c] + 1 ELSE round[c])'
    <3>1. ~HadTurn(c, k)'
      BY <2>1 DEF HadTurn, Endpoints
    <3>2. Rotation(start'[c], k) \in Endpoints
      <4>1. k \in Nat
        BY <1>0 DEF Endpoints
      <4> QED
        BY <2>1, <4>1, RotationType
    <3>3. AreVisits(c, Rotation(start'[c], k), round[c])
      BY <2>1, <3>2 DEF VisitInv
    <3> QED
      BY <2>1, <3>1, <3>3 DEF AreVisits, Visits, Accepts, AcceptsRequest, Rotation
  <2>3. ~IsRetryable(result[c])
    BY <2>1 DEF VisitInv
  <2> QED
    BY <2>1, <2>2, <2>3 DEF VisitInv
<1>3. CASE PassOver(c)
  <2>1. /\ pc[c] = "attempt" /\ pc'[c] = "attempt" /\ attempt'[c] = attempt[c] + 1
        /\ UNCHANGED <<start, round, result, tries, skips>>
        /\ ~Accepts(c, Current(c))
    BY <1>0, <1>3 DEF PassOver, NextAttempt, Goto, history
  <2>2. \A k \in Endpoints :
          \/ HadTurn(c, k)' <=> HadTurn(c, k)
          \/ HadTurn(c, k)' /\ ~Accepts(c, Rotation(start[c], k))
    BY <1>0, <2>1 DEF HadTurn, Current, Endpoints
  <2> QED
    BY <2>1, <2>2, NoVisitStep
<1>4. CASE Consider(c) \/ ScanPast(c) \/ Keep(c)
  <2>1. /\ pc[c] \in {"attempt", "scan"} /\ pc'[c] \in {"scan", "acquire"}
        /\ UNCHANGED <<start, round, result, attempt, tries, skips>>
    BY <1>0, <1>4 DEF Consider, ScanPast, Keep, FindsAlternative, Goto, progress, history
  <2>2. \A k \in Endpoints : HadTurn(c, k)' <=> HadTurn(c, k)
    BY <2>1 DEF HadTurn
  <2> QED
    BY <2>1, <2>2, NoVisitStep DEF Considering
<1>5. CASE Skip(c)
  <2>1. /\ pc[c] = "scan" /\ pc'[c] = "attempt" /\ attempt'[c] = attempt[c] + 1
        /\ UNCHANGED <<start, round, result, tries>>
        /\ skips' = [skips EXCEPT ![c][Current(c)] = @ + 1]
    BY <1>0, <1>5 DEF Skip, FindsAlternative, NextAttempt, Goto
  <2>2. \A e \in Endpoints :
          Visits(c, e)' = IF e = Current(c) THEN Visits(c, e) + 1 ELSE Visits(c, e)
    BY <1>0, <2>1 DEF Visits
  <2>3. attempt[c] \in Endpoints
    BY <1>0, <2>1 DEF CallInv, Considering, Endpoints
  <2> QED
    BY <2>1, <2>2, <2>3, VisitStep
<1>6. CASE Send(c)
  <2>1. /\ pc[c] = "acquire" /\ pc'[c] = "inflight" /\ attempt'[c] = attempt[c]
        /\ UNCHANGED <<start, round, result, skips>>
        /\ tries' = [tries EXCEPT ![c][Current(c)] = @ + 1]
    BY <1>0, <1>6 DEF Send, Goto, progress
  <2>2. \A e \in Endpoints :
          Visits(c, e)' = IF e = Current(c) THEN Visits(c, e) + 1 ELSE Visits(c, e)
    BY <1>0, <2>1 DEF Visits
  <2>3. attempt[c] \in Endpoints
    BY <1>0, <2>1 DEF CallInv, Considering, Endpoints
  <2> QED
    BY <2>1, <2>2, <2>3, VisitStep
<1>7. CASE Finish(c)
  <2>1. /\ pc'[c] = "returned" /\ UNCHANGED <<round, tries, skips>>
        /\ ~IsRetryable(result'[c])
    BY <1>0, <1>7 DEF Finish, Return, Goto, progress, history
  <2> QED
    BY <2>1, EndStep
<1>8. CASE FailOver(c) \/ FailoverDelayOver(c)
  <2>1. /\ pc[c] \in {"inflight", "failover"}
        /\ UNCHANGED <<start, round, result, tries, skips>>
        /\ \/ pc'[c] = "failover" /\ UNCHANGED attempt
           \/ pc'[c] = "attempt" /\ attempt'[c] = attempt[c] + 1
    BY <1>0, <1>8 DEF FailOver, FailoverDelayOver, NextAttempt, Goto, history
  <2>2. \A k \in Endpoints : HadTurn(c, k)' <=> HadTurn(c, k)
    BY <1>0, <2>1 DEF HadTurn, Endpoints
  <2> QED
    BY <2>1, <2>2, NoVisitStep DEF Considering
<1>9. CASE EndRound(c)
  BY <1>9, EndRoundStep
<1>10. CASE Cancel(c)
  <2>1. /\ pc[c] \in {"new", "select", "acquire", "inflight", "failover"}
        /\ pc'[c] = "cancelled" /\ UNCHANGED <<round, tries, skips, result>>
    BY <1>0, <1>10 DEF Cancel, Goto, progress, history
  <2>2. ~IsRetryable(result'[c])
    BY <2>1 DEF VisitInv
  <2> QED
    BY <2>1, <2>2, EndStep
<1> QED
  BY <1>1, <1>2, <1>3, <1>4, <1>5, <1>6, <1>7, <1>8, <1>9, <1>10 DEF Step

\* Every step of the system keeps what holds of every call's visits.
LEMMA AllVisitsStep ==
  ASSUME TypeInv, \A c \in Calls : VisitInv(c), [Next]_vars
  PROVE  \A c \in Calls : VisitInv(c)'
<1> SUFFICES ASSUME NEW d \in Calls PROVE VisitInv(d)'
  OBVIOUS
<1>1. ASSUME NEW c \in Calls, Step(c) \/ Cancel(c) PROVE VisitInv(d)'
  <2>1. CASE d = c
    BY <1>1, <2>1, VisitInvStep DEF TypeInv, AllCallsInv
  <2>2. CASE d # c
    <3>1. /\ pc'[d] = pc[d] /\ start'[d] = start[d] /\ attempt'[d] = attempt[d]
          /\ round'[d] = round[d] /\ result'[d] = result[d]
          /\ tries'[d] = tries[d] /\ skips'[d] = skips[d]
      BY <1>1, <2>2 DEF TypeInv, TypeOK, Step, Begin, Select, PassOver, Consider, ScanPast,
         Skip, Keep, Send, Finish, FailOver, FailoverDelayOver, EndRound, Cancel, Goto,
         Return, NextAttempt, progress, history
    <3> QED
      BY <3>1 DEF VisitInv, AreVisits, Visits, HadTurn, Accepts, AcceptsRequest, Rotation
  <2> QED
    BY <2>1, <2>2
<1>2. CASE UNCHANGED <<pc, progress, result, history>>
  BY <1>2 DEF VisitInv, AreVisits, Visits, HadTurn, Accepts, AcceptsRequest, Rotation,
              progress, history
<1> QED
  BY <1>1, <1>2 DEF Next, OtherTransport, AllFinished, vars

\* Before its first round a call has visited nothing.
LEMMA VisitInvInit == Init => \A c \in Calls : VisitInv(c)
<1> SUFFICES ASSUME Init, NEW c \in Calls PROVE VisitInv(c)
  OBVIOUS
<1>1. pc[c] = "new" /\ round[c] = 0 /\ result[c] = "pending"
  BY DEF Init
<1>2. \A e \in Endpoints : Visits(c, e) = 0
  BY DEF Init, Visits
<1> QED
  BY <1>1, <1>2 DEF VisitInv, AreVisits, IsRetryable, Considering

\* A call visits no endpoint twice in a rotation and so sends a bounded number of
\* times, for any endpoints, weights and rounds and any other calls.
THEOREM VisitsAreBounded == Spec => []VisitsBounded
<1>1. TypeInv /\ [Next]_vars => TypeInv'
  BY TypeInvStep, AllCallsInvStep DEF TypeInv
<1> DEFINE AllVisits == \A c \in Calls : VisitInv(c)
<1>2. TypeInv /\ AllVisits /\ [Next]_vars => AllVisits'
  BY AllVisitsStep
<1>3. TypeInv /\ AllVisits => VisitsBounded
  BY VisitsOfRound DEF TypeInv, VisitsBounded, Visits
<1>4. Init => AllVisits
  BY VisitInvInit
<1> QED
  BY TypeInvInit, <1>1, <1>2, <1>3, <1>4, PTL DEF Spec

\* A retryable error reaches the caller only after all rotations, in each of
\* which every endpoint that takes the request was sent to or skipped.
THEOREM RotationsAreFull == Spec => []GivesUpAfterFullRotations
<1>1. TypeInv /\ [Next]_vars => TypeInv'
  BY TypeInvStep, AllCallsInvStep DEF TypeInv
<1> DEFINE AllVisits == \A c \in Calls : VisitInv(c)
<1>2. TypeInv /\ AllVisits /\ [Next]_vars => AllVisits'
  BY AllVisitsStep
<1>3. AllVisits => GivesUpAfterFullRotations
  BY DEF VisitInv, AreVisits, Visits, GivesUpAfterFullRotations
<1>4. Init => AllVisits
  BY VisitInvInit
<1> QED
  BY TypeInvInit, <1>1, <1>2, <1>3, <1>4, PTL DEF Spec

-----------------------------------------------------------------------------
(* The promise of Upstream.                                                  *)

\* A call that has an error to show, or waits for an answer, has sent.
SentInv(c) ==
  pc[c] \in {"inflight", "failover"} \/ lastErr[c] # NoError =>
    \E e \in Endpoints : tries[c][e] > 0

\* What each call has done so far.
PromiseInv ==
  /\ TypeInv
  /\ \A c \in Calls : VisitInv(c)
  /\ \A c \in Calls : SentInv(c)

\* Nothing is taken back of what was sent, and an error comes from an answer.
LEMMA SentStep ==
  ASSUME TypeOK, NEW c \in Calls, SentInv(c), Step(c) \/ Cancel(c), NEW d \in Calls, SentInv(d)
  PROVE  SentInv(d)'
<1> USE ConfigAssumption
<1>0. /\ \A b \in Calls : Current(b) \in Endpoints
      /\ pc \in [Calls -> Labels] /\ DOMAIN lastErr = Calls
      /\ tries \in [Calls -> [Endpoints -> Nat]]
  BY HelperTypes DEF TypeOK
<1>1. CASE Send(c)
  <2>1. /\ pc' = [pc EXCEPT ![c] = "inflight"] /\ UNCHANGED lastErr
        /\ tries' = [tries EXCEPT ![c][Current(c)] = @ + 1]
    BY <1>1 DEF Send, Goto, progress
  <2>2. CASE d = c
    <3>1. tries'[c][Current(c)] = tries[c][Current(c)] + 1
      BY <1>0, <2>1
    <3>2. tries[c][Current(c)] \in Nat
      BY <1>0
    <3>3. tries'[c][Current(c)] > 0
      BY <3>1, <3>2
    <3> QED
      BY <1>0, <2>2, <3>3 DEF SentInv
  <2>3. CASE d # c
    BY <1>0, <2>1, <2>3 DEF SentInv
  <2> QED
    BY <2>2, <2>3
<1>2. CASE FailOver(c)
  <2>1. /\ pc[c] = "inflight" /\ UNCHANGED tries
        /\ d # c => pc'[d] = pc[d] /\ lastErr'[d] = lastErr[d]
    BY <1>0, <1>2 DEF FailOver, NextAttempt, Goto, history
  <2> QED
    BY <2>1 DEF SentInv
<1>3. CASE Select(c)
  <2>1. /\ pc' = [pc EXCEPT ![c] = "attempt"] /\ UNCHANGED tries
        /\ lastErr' = [lastErr EXCEPT ![c] = NoError]
    BY <1>3 DEF Select, Goto, history
  <2> QED
    BY <1>0, <2>1 DEF SentInv
<1>4. CASE \/ Begin(c) \/ PassOver(c) \/ Consider(c) \/ ScanPast(c) \/ Skip(c) \/ Keep(c)
           \/ Finish(c) \/ FailoverDelayOver(c) \/ EndRound(c) \/ Cancel(c)
  <2>1. UNCHANGED <<tries, lastErr>>
    BY <1>4 DEF Begin, PassOver, Consider, ScanPast, Skip, Keep, Finish, FailoverDelayOver,
                EndRound, Cancel, progress, history
  <2>2. /\ d # c => pc'[d] = pc[d]
        /\ pc'[c] \notin {"inflight", "failover"}
    BY <1>0, <1>4 DEF Begin, PassOver, Consider, ScanPast, Skip, Keep, Finish,
       FailoverDelayOver, EndRound, Cancel, FindsAlternative, NextAttempt, Goto, Return
  <2> QED
    BY <2>1, <2>2 DEF SentInv
<1> QED
  BY <1>1, <1>2, <1>3, <1>4 DEF Step

LEMMA PromiseInvInit == Init => PromiseInv
<1> SUFFICES ASSUME Init PROVE \A c \in Calls : SentInv(c)
  BY TypeInvInit, VisitInvInit DEF PromiseInv
<1> QED
  BY DEF Init, SentInv

LEMMA PromiseInvStep == PromiseInv /\ [Next]_vars => PromiseInv'
<1> SUFFICES ASSUME PromiseInv, [Next]_vars PROVE PromiseInv'
  OBVIOUS
<1>1. TypeInv' /\ \A c \in Calls : VisitInv(c)'
  BY TypeInvStep, AllCallsInvStep, AllVisitsStep DEF PromiseInv, TypeInv
<1>2. ASSUME NEW c \in Calls, Step(c) \/ Cancel(c) PROVE \A d \in Calls : SentInv(d)'
  BY <1>2, SentStep DEF PromiseInv, TypeInv
<1>3. ASSUME UNCHANGED <<pc, progress, history>> PROVE \A d \in Calls : SentInv(d)'
  BY <1>3 DEF PromiseInv, SentInv, progress, history
<1>4. \A d \in Calls : SentInv(d)'
  BY <1>2, <1>3 DEF Next, OtherTransport, AllFinished, vars
<1> QED
  BY <1>1, <1>4 DEF PromiseInv

\* The endpoints are finitely many, and what a call has sent is a sum over them.
LEMMA EndpointsFinite == IsFiniteSet(Endpoints) /\ Cardinality(Endpoints) = NumEndpoints
BY ConfigAssumption, FS_Interval DEF Endpoints

LEMMA TimesSentIsSum ==
  TypeOK => \A c \in Calls :
    TimesSent(c) = SumOver(tries[c], Endpoints) /\ NatOn(tries[c], Endpoints)
<1> SUFFICES ASSUME TypeOK, NEW c \in Calls
             PROVE  TimesSent(c) = SumOver(tries[c], Endpoints) /\ NatOn(tries[c], Endpoints)
  OBVIOUS
<1>1. DOMAIN tries[c] = Endpoints /\ NatOn(tries[c], Endpoints)
  BY DEF TypeOK, NatOn
<1>2. TimesSent(c) = SumFunctionOnSet(tries[c], Endpoints)
  BY <1>1 DEF TimesSent, FoldFunction, SumFunctionOnSet
<1> QED
  BY <1>1, <1>2, SumOnSet

LEMMA TimesSentIsSumNext ==
  (TypeOK => \A c \in Calls :
    TimesSent(c) = SumOver(tries[c], Endpoints) /\ NatOn(tries[c], Endpoints))'
BY TimesSentIsSum, PTL

\* While an endpoint still has its turn to come, the total is below the bound.
LEMMA RoomForOneMore ==
  ASSUME TypeInv, NEW c \in Calls, VisitInv(c), pc[c] = "acquire"
  PROVE  TimesSent(c) < (MaxRetryRounds + 1) * NumEndpoints
<1> DEFINE M == MaxRetryRounds + 1
           f == tries[c]
           e == Current(c)
           u == Endpoints \ {e}
<1>0. /\ start[c] \in Endpoints /\ attempt[c] \in Endpoints /\ round[c] \in 0 .. MaxRetryRounds
      /\ e \in Endpoints /\ M \in Nat /\ NumEndpoints \in Nat
      /\ \A i \in Endpoints : tries[c][i] \in Nat /\ skips[c][i] \in Nat
      /\ MaxRetryRounds \in Nat
  <2>1. attempt[c] < NumEndpoints /\ attempt[c] \in 0 .. NumEndpoints
    BY DEF TypeInv, TypeOK, AllCallsInv, CallInv, Considering
  <2>2. e \in Endpoints
    BY HelperTypes DEF TypeInv
  <2>3. /\ start[c] \in Endpoints /\ round[c] \in 0 .. MaxRetryRounds
        /\ \A i \in Endpoints : tries[c][i] \in Nat /\ skips[c][i] \in Nat
    BY DEF TypeInv, TypeOK
  <2>4. attempt[c] \in Endpoints
    BY <2>1, ConfigAssumption DEF Endpoints
  <2> QED
    BY <2>2, <2>3, <2>4, ConfigAssumption
<1>1. \A i \in Endpoints : f[i] <= M
  <2>1. \A i \in Endpoints : Visits(c, i) <= round[c] + 1
    BY VisitsOfRound DEF TypeInv
  <2> QED
    BY <1>0, <2>1 DEF Visits
<1>2. f[e] < M
  <2>1. ~HadTurn(c, attempt[c])
    BY <1>0 DEF HadTurn, Endpoints
  <2>2. Visits(c, e) <= round[c]
    BY <1>0, <2>1 DEF VisitInv, Considering, AreVisits, Current
  <2> QED
    BY <1>0, <2>2 DEF Visits
<1>3. /\ IsFiniteSet(u) /\ Cardinality(u) = NumEndpoints - 1
      /\ NatOn(f, Endpoints) /\ NatOn(f, u)
  BY <1>0, EndpointsFinite, FS_RemoveElement DEF NatOn
<1>4. SumOver(f, Endpoints) = f[e] + SumOver(f, u) /\ SumOver(f, u) \in Nat
  BY <1>0, <1>3, EndpointsFinite, SumWithout
<1>5. SumOver(f, u) <= M * (NumEndpoints - 1)
  BY <1>0, <1>1, <1>3, SumAtMost
<1>6. TimesSent(c) = SumOver(f, Endpoints)
  BY TimesSentIsSum DEF TypeInv
<1>7. f[e] \in Nat /\ M * (NumEndpoints - 1) = M * NumEndpoints - M /\ M * NumEndpoints \in Nat
  BY <1>0
<1> HIDE DEF M, f, e, u
<1>8. TimesSent(c) < M * NumEndpoints
  BY <1>0, <1>2, <1>4, <1>5, <1>6, <1>7
<1> QED
  BY <1>8 DEF M

\* One more request to one endpoint is one more sent.
LEMMA SendCounts ==
  ASSUME TypeOK, TypeOK', NEW c \in Calls, NEW e \in Endpoints,
         tries' = [tries EXCEPT ![c][e] = @ + 1]
  PROVE  \A d \in Calls : TimesSent(d)' = IF d = c THEN TimesSent(d) + 1 ELSE TimesSent(d)
<1> DEFINE f == tries[c]
           g == tries'[c]
           u == Endpoints \ {e}
<1>1. /\ g[e] = f[e] + 1 /\ f[e] \in Nat
      /\ \A i \in u : g[i] = f[i]
      /\ \A d \in Calls : d # c => tries'[d] = tries[d]
  BY DEF TypeOK
<1>2. /\ TimesSent(c) = SumOver(f, Endpoints) /\ NatOn(f, Endpoints)
      /\ TimesSent(c)' = SumOver(g, Endpoints) /\ NatOn(g, Endpoints)
  BY TimesSentIsSum, TimesSentIsSumNext
<1>3. IsFiniteSet(u) /\ NatOn(f, u) /\ NatOn(g, u)
  BY <1>2, EndpointsFinite, FS_RemoveElement DEF NatOn
<1>4. /\ SumOver(f, Endpoints) = f[e] + SumOver(f, u) /\ SumOver(f, u) \in Nat
      /\ SumOver(g, Endpoints) = g[e] + SumOver(g, u)
  <2>1. /\ IsFiniteSet(Endpoints) /\ NatOn(f, Endpoints) /\ NatOn(g, Endpoints)
        /\ IsFiniteSet(u) /\ NatOn(f, u) /\ NatOn(g, u)
    BY <1>2, <1>3, EndpointsFinite
  <2> HIDE DEF f, g
  <2>2. /\ SumOver(f, Endpoints) = f[e] + SumOver(f, Endpoints \ {e})
        /\ SumOver(g, Endpoints) = g[e] + SumOver(g, Endpoints \ {e})
    BY <2>1, SumWithout
  <2>3. SumOver(f, u) \in Nat
    BY <2>1, SumWithout
  <2> QED
    BY <2>2, <2>3
<1>5. SumOver(f, u) = SumOver(g, u)
  BY <1>1, <1>3, SumOfEqual
<1>6. TimesSent(c)' = TimesSent(c) + 1
  BY <1>1, <1>2, <1>4, <1>5
<1>7. \A d \in Calls : d # c => TimesSent(d)' = TimesSent(d)
  BY <1>1, TimesSentIsSum, TimesSentIsSumNext
<1> QED
  BY <1>6, <1>7

\* A call that has sent something has a total above zero.
LEMMA SentIsPositive ==
  ASSUME TypeOK, NEW c \in Calls, NEW e \in Endpoints, tries[c][e] > 0
  PROVE  TimesSent(c) > 0
<1>1. TimesSent(c) = SumOver(tries[c], Endpoints) /\ NatOn(tries[c], Endpoints)
  BY TimesSentIsSum
<1>2. SumOver(tries[c], Endpoints) \in Nat
  BY <1>1, EndpointsFinite, SumWithout
<1>3. SumOver(tries[c], Endpoints) # 0
  BY <1>1, EndpointsFinite, SumOfZeros
<1> QED
  BY <1>1, <1>2, <1>3

\* The state of Upstream.
Statuses == [c \in Calls |-> Status(c)]
Totals   == [c \in Calls |-> TimesSent(c)]

\* Only a call's own steps change what Upstream sees of it.
LEMMA UpstreamEffect ==
  ASSUME TypeOK, TypeOK', NEW c \in Calls, Step(c) \/ Cancel(c)
  PROVE  /\ Statuses' = [Statuses EXCEPT ![c] = Status(c)']
         /\ UNCHANGED tries => UNCHANGED Totals
<1>1. \A d \in Calls : d # c => pc'[d] = pc[d]
  BY DEF TypeOK, Step, Begin, Select, PassOver, Consider, ScanPast, Skip, Keep, Send,
         Finish, FailOver, FailoverDelayOver, EndRound, Cancel, Goto, Return, NextAttempt,
         FindsAlternative
<1>2. \A d \in Calls : d # c => Status(d)' = Status(d)
  BY <1>1 DEF Status
<1>3. UNCHANGED tries => \A d \in Calls : TimesSent(d)' = TimesSent(d)
  BY TimesSentIsSum, TimesSentIsSumNext
<1>4. UNCHANGED tries => UNCHANGED Totals
  BY <1>3 DEF Totals
<1>5. Statuses' = [Statuses EXCEPT ![c] = Status(c)']
  BY <1>2 DEF Statuses
<1> QED
  BY <1>4, <1>5

\* Each step of a call is a step of Upstream, or Upstream does not see it.
LEMMA StepKeepsPromise ==
  ASSUME PromiseInv, PromiseInv', NEW c \in Calls, Step(c) \/ Cancel(c)
  PROVE  \/ UNCHANGED <<Statuses, Totals, result>>
         \/ U!Accept(c) \/ U!Refuse(c) \/ U!Transmit(c) \/ U!Reply(c) \/ U!Drop(c)
<1>0. /\ TypeOK /\ TypeOK' /\ CallInv(c) /\ CallInv(c)' /\ VisitInv(c) /\ SentInv(c)
      /\ pc \in [Calls -> Labels] /\ DOMAIN result = Calls
      /\ Current(c) \in Endpoints
      /\ lastErr[c] \in Replies \cup {NoError}
  BY HelperTypes DEF PromiseInv, TypeInv, AllCallsInv, TypeOK
<1>1. /\ Statuses' = [Statuses EXCEPT ![c] = Status(c)']
      /\ UNCHANGED tries => UNCHANGED Totals
  BY <1>0, UpstreamEffect
<1>2. Statuses[c] = Status(c) /\ Totals[c] = TimesSent(c)
  BY DEF Statuses, Totals
<1> DEFINE Fit == {d \in Calls : \E e \in Endpoints : Accepts(d, e)}
<1>3. /\ U!Accept(c) <=> /\ Statuses[c] = "new" /\ c \in Fit
                         /\ Statuses' = [Statuses EXCEPT ![c] = "open"]
                         /\ UNCHANGED <<Totals, result>>
      /\ U!Refuse(c) <=> /\ Statuses[c] = "new" /\ c \notin Fit
                         /\ Statuses' = [Statuses EXCEPT ![c] = "returned"]
                         /\ result' = [result EXCEPT ![c] = "exceeds_every_limit"]
                         /\ UNCHANGED Totals
      /\ U!Transmit(c) <=> /\ Statuses[c] = "open"
                           /\ Totals[c] < (MaxRetryRounds + 1) * NumEndpoints
                           /\ Totals' = [Totals EXCEPT ![c] = @ + 1]
                           /\ UNCHANGED <<Statuses, result>>
      /\ U!Reply(c) <=> /\ Statuses[c] = "open" /\ Totals[c] > 0
                        /\ Statuses' = [Statuses EXCEPT ![c] = "returned"]
                        /\ \E a \in Replies : result' = [result EXCEPT ![c] = a]
                        /\ UNCHANGED Totals
      /\ U!Drop(c) <=> /\ Statuses[c] \in {"new", "open"}
                       /\ Statuses' = [Statuses EXCEPT ![c] = "cancelled"]
                       /\ UNCHANGED <<Totals, result>>
  BY DEF U!Accept, U!Refuse, U!Transmit, U!Reply, U!Drop, Statuses, Totals
<1>4. CASE Begin(c)
  <2>1. /\ pc[c] = "new" /\ UNCHANGED tries
        /\ \/ c \in Fit /\ pc'[c] = "select" /\ UNCHANGED result
           \/ /\ c \notin Fit /\ pc'[c] = "returned"
              /\ result' = [result EXCEPT ![c] = "exceeds_every_limit"]
    BY <1>0, <1>4 DEF Begin, Goto, Return, history
  <2>2. Status(c) = "new" /\ Status(c)' \in {"open", "returned"} /\ UNCHANGED Totals
    BY <1>1, <2>1 DEF Status
  <2>3. pc'[c] = "select" => Status(c)' = "open"
    BY DEF Status
  <2>4. pc'[c] = "returned" => Status(c)' = "returned"
    BY DEF Status
  <2> HIDE DEF Fit
  <2> QED
    BY <1>1, <1>2, <1>3, <2>1, <2>2, <2>3, <2>4
<1>5. CASE \/ Select(c) \/ PassOver(c) \/ Consider(c) \/ ScanPast(c) \/ Skip(c) \/ Keep(c)
           \/ FailOver(c) \/ FailoverDelayOver(c)
           \/ (EndRound(c) /\ round[c] # MaxRetryRounds)
  <2>1. /\ pc[c] \in {"select", "attempt", "scan", "inflight", "failover"}
        /\ pc'[c] \in {"select", "attempt", "scan", "acquire", "failover"}
        /\ UNCHANGED <<tries, result>>
    BY <1>0, <1>5 DEF Select, PassOver, Consider, ScanPast, Skip, Keep, FailOver,
       FailoverDelayOver, EndRound, FindsAlternative, NextAttempt, Goto, progress, history
  <2>2. Status(c) = "open" /\ Status(c)' = "open"
    BY <2>1 DEF Status
  <2>3. UNCHANGED Statuses
    BY <1>1, <1>2, <2>2 DEF Statuses
  <2> QED
    BY <1>1, <2>1, <2>3
<1>6. CASE Send(c)
  <2>1. /\ pc[c] = "acquire" /\ pc'[c] = "inflight" /\ UNCHANGED result
        /\ tries' = [tries EXCEPT ![c][Current(c)] = @ + 1]
    BY <1>0, <1>6 DEF Send, Goto
  <2>2. Status(c) = "open" /\ Status(c)' = "open"
    BY <2>1 DEF Status
  <2>3. UNCHANGED Statuses
    BY <1>1, <1>2, <2>2 DEF Statuses
  <2>4. Totals' = [Totals EXCEPT ![c] = @ + 1]
    <3>1. \A d \in Calls :
            TimesSent(d)' = IF d = c THEN TimesSent(d) + 1 ELSE TimesSent(d)
      BY <1>0, <2>1, SendCounts
    <3> QED
      BY <3>1 DEF Totals
  <2>5. TimesSent(c) < (MaxRetryRounds + 1) * NumEndpoints
    BY <1>0, <2>1, RoomForOneMore DEF PromiseInv
  <2> QED
    BY <1>2, <1>3, <2>1, <2>2, <2>3, <2>4, <2>5
<1>7. CASE Finish(c) \/ (EndRound(c) /\ round[c] = MaxRetryRounds)
  <2>1. /\ pc[c] \in {"inflight", "attempt"} /\ pc'[c] = "returned" /\ UNCHANGED tries
        /\ Finish(c) => pc[c] = "inflight" /\ \E r \in Replies : result' = [result EXCEPT ![c] = r]
    BY <1>0, <1>7 DEF Finish, EndRound, Return, Goto, history
  <2>2. EndRound(c) /\ round[c] = MaxRetryRounds =>
          /\ lastErr[c] # NoError
          /\ result' = [result EXCEPT ![c] = lastErr[c]]
    <3> SUFFICES ASSUME EndRound(c), round[c] = MaxRetryRounds
                 PROVE  lastErr[c] # NoError /\ result' = [result EXCEPT ![c] = lastErr[c]]
      OBVIOUS
    <3>1. result' = [result EXCEPT ![c] = IF lastErr[c] = NoError THEN "panic" ELSE lastErr[c]]
      BY DEF EndRound, Return
    <3>2. result'[c] # "panic"
      BY <1>0 DEF CallInv
    <3> QED
      BY <1>0, <3>1, <3>2
  <2>3. \E a \in Replies : result' = [result EXCEPT ![c] = a]
    BY <1>0, <1>7, <2>1, <2>2
  <2>4. TimesSent(c) > 0
    <3>1. PICK e \in Endpoints : tries[c][e] > 0
      BY <1>0, <1>7, <2>1, <2>2 DEF SentInv
    <3> QED
      BY <1>0, <3>1, SentIsPositive
  <2>5. Status(c) = "open" /\ Status(c)' = "returned"
    BY <2>1 DEF Status
  <2> QED
    BY <1>1, <1>2, <1>3, <2>1, <2>3, <2>4, <2>5
<1>8. CASE Cancel(c)
  <2>1. /\ pc[c] \in {"new", "select", "acquire", "inflight", "failover"}
        /\ pc'[c] = "cancelled" /\ UNCHANGED <<tries, result>>
    BY <1>0, <1>8 DEF Cancel, Goto, progress, history
  <2>2. Status(c) \in {"new", "open"} /\ Status(c)' = "cancelled"
    BY <2>1 DEF Status
  <2> QED
    BY <1>1, <1>2, <1>3, <2>1, <2>2
<1>9. \/ Begin(c) \/ Select(c) \/ PassOver(c) \/ Consider(c) \/ ScanPast(c) \/ Skip(c)
      \/ Keep(c) \/ Send(c) \/ Finish(c) \/ FailOver(c) \/ FailoverDelayOver(c)
      \/ EndRound(c) \/ Cancel(c)
  BY DEF Step
<1> QED
  BY <1>4, <1>5, <1>6, <1>7, <1>8, <1>9

\* A call keeps the promise of Upstream, whatever the throttles and other calls do.
THEOREM CallsKeepTheirPromise == Spec => ImplementsUpstream
<1>1. Init => U!Init
  <2> SUFFICES ASSUME Init PROVE U!Init
    OBVIOUS
  <2>1. TypeOK
    BY TypeInvInit DEF TypeInv
  <2>2. ASSUME NEW c \in Calls PROVE Status(c) = "new" /\ TimesSent(c) = 0
    <3>1. \A e \in Endpoints : tries[c][e] = 0
      BY DEF Init
    <3>2. TimesSent(c) = 0
      BY <2>1, <3>1, TimesSentIsSum, EndpointsFinite, SumOfZeros
    <3> QED
      BY <3>2 DEF Init, Status
  <2> QED
    BY <2>2 DEF U!Init, Init
<1>2. PromiseInv /\ PromiseInv' /\ [Next]_vars => [U!Next]_(U!vars)
  <2> SUFFICES ASSUME PromiseInv, PromiseInv', [Next]_vars PROVE [U!Next]_(U!vars)
    OBVIOUS
  <2>1. ASSUME UNCHANGED <<Statuses, Totals, result>> PROVE UNCHANGED U!vars
    BY <2>1 DEF U!vars, Statuses, Totals
  <2>2. ASSUME NEW c \in Calls, Step(c) \/ Cancel(c) PROVE [U!Next]_(U!vars)
    BY <2>1, <2>2, StepKeepsPromise DEF U!Next
  <2>3. ASSUME UNCHANGED <<pc, result, tries>> PROVE UNCHANGED U!vars
    <3>1. \A c \in Calls : Status(c)' = Status(c) /\ TimesSent(c)' = TimesSent(c)
      BY <2>3, TimesSentIsSum, TimesSentIsSumNext DEF Status, PromiseInv, TypeInv
    <3>2. UNCHANGED <<Statuses, Totals>>
      BY <3>1 DEF Statuses, Totals
    <3> QED
      BY <2>1, <2>3, <3>2
  <2> QED
    BY <2>2, <2>3 DEF Next, OtherTransport, AllFinished, vars, history
<1> QED
  BY <1>1, <1>2, PromiseInvInit, PromiseInvStep, PTL DEF Spec, ImplementsUpstream, U!Spec

\* Between two wraps of the counter, total_weight consecutive selections give each
\* endpoint its weight, for any number of endpoints and any weights.
THEOREM SharesAreWeights == Spec => []WeightedShare
<1>1. TypeInv => WeightedShare
  <2> SUFFICES ASSUME TypeInv, counter + TotalWeight <= CounterMod, NEW e \in Endpoints
               PROVE  Cardinality({k \in 0 .. TotalWeight - 1 :
                                     SelectEndpoint((counter + k) % CounterMod) = e}) = Weights[e]
    BY DEF WeightedShare
  <2>1. counter \in Nat /\ CounterMod \in Nat \ {0} /\ TotalWeight \in Nat \ {0}
    BY TotalIsPositive, ConfigAssumption DEF TypeInv, TypeOK
  <2>2. ASSUME NEW k \in 0 .. TotalWeight - 1
        PROVE  /\ (counter + k) % CounterMod = counter + k
               /\ SelectEndpoint(counter + k) = e <=>
                    /\ Lower(e) <= (counter + k) % TotalWeight
                    /\ (counter + k) % TotalWeight < CumulativeWeights[e]
    <3> DEFINE t == counter + k
    <3>1. t \in Nat /\ t < CounterMod /\ t = CounterMod * 0 + t
      BY <2>1
    <3> HIDE DEF t
    <3>2. t % CounterMod = t
      BY <2>1, <3>1, RemainderUnique
    <3>3. SelectEndpoint(t) = e <=>
            Lower(e) <= t % TotalWeight /\ t % TotalWeight < CumulativeWeights[e]
      BY <3>1, SelectsByBucket
    <3> QED
      BY <3>2, <3>3 DEF t
  <2>3. {k \in 0 .. TotalWeight - 1 : SelectEndpoint((counter + k) % CounterMod) = e} =
        {k \in 0 .. TotalWeight - 1 : /\ Lower(e) <= (counter + k) % TotalWeight
                                     /\ (counter + k) % TotalWeight < CumulativeWeights[e]}
    BY <2>2
  <2>4. /\ Lower(e) \in Nat /\ CumulativeWeights[e] \in Nat
        /\ Lower(e) <= CumulativeWeights[e]
        /\ CumulativeWeights[e] - Lower(e) = Weights[e]
    <3>1. CASE e = 0
      BY <3>1, CumulativeEquation, CumulativeGrows DEF Lower
    <3>2. CASE e # 0
      <4>1. e - 1 \in Endpoints /\ e - 1 < e
        BY <3>2, EndpointsExist DEF Endpoints
      <4>2. /\ CumulativeWeights[e - 1] \in Nat /\ CumulativeWeights[e] \in Nat
            /\ CumulativeWeights[e - 1] < CumulativeWeights[e]
        BY <4>1, CumulativeGrows
      <4>3. CumulativeWeights[e] = CumulativeWeights[e - 1] + Weights[e]
        BY <3>2, CumulativeEquation
      <4>4. Weights[e] \in Nat
        BY ConfigAssumption
      <4> QED
        BY <3>2, <4>2, <4>3, <4>4 DEF Lower
    <3> QED
      BY <3>1, <3>2
  <2>5. CumulativeWeights[e] <= TotalWeight
    <3>1. NumEndpoints - 1 \in Endpoints /\ (e = NumEndpoints - 1 \/ e < NumEndpoints - 1)
      BY EndpointsExist DEF Endpoints
    <3>2. CumulativeWeights[NumEndpoints - 1] \in Nat /\ CumulativeWeights[e] \in Nat
      BY <3>1, CumulativeGrows
    <3> QED
      BY <3>1, <3>2, CumulativeGrows DEF TotalWeight
  <2> DEFINE N == TotalWeight
             lo == Lower(e)
             hi == CumulativeWeights[e]
  <2>6. /\ N \in Nat \ {0} /\ counter \in Nat /\ lo \in Nat /\ hi \in Nat
        /\ lo <= hi /\ hi <= N
    BY <2>1, <2>4, <2>5
  <2> HIDE DEF N, lo, hi
  <2>7. Cardinality({k \in 0 .. N - 1 : lo <= (counter + k) % N /\ (counter + k) % N < hi})
          = hi - lo
    BY <2>6, TicksOfBuckets
  <2> QED
    BY <2>3, <2>4, <2>7 DEF N, lo, hi
<1>2. TypeInv /\ [Next]_vars => TypeInv'
  BY TypeInvStep, AllCallsInvStep DEF TypeInv
<1> QED
  BY TypeInvInit, <1>1, <1>2, PTL DEF Spec
=============================================================================
