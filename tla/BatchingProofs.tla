--------------------------- MODULE BatchingProofs ---------------------------
(* Theorems about Batching, for any number of calls and requests, any limits *)
(* and whatever the inner transport does.                                    *)
EXTENDS Batching, SequenceTheorems, FiniteSetTheorems, TLAPS

Of(b) == b.left \cup b.dups
In(g) == g.waiting \cup g.sending

\* A request is at most once in a sequence.
Once(s, r) == \A i, j \in 1 .. Len(s) : s[i] = r /\ s[j] = r => i = j

\* A request is in one of the lists, or with one task, or nowhere.
OneHolder(r) ==
  /\ r \in ToSet(pending) => r \notin ToSet(remaining)
  /\ \A b \in batches : r \in Of(b) =>
       /\ r \notin ToSet(pending) /\ r \notin ToSet(remaining)
       /\ \A b2 \in batches : r \in Of(b2) => b2 = b
       /\ \A g \in groups : r \notin In(g)
  /\ \A g \in groups : r \in In(g) =>
       /\ r \notin ToSet(pending) /\ r \notin ToSet(remaining)
       /\ \A g2 \in groups : r \in In(g2) => g2 = g

\* Some call has not yet pushed the request.
NotYet(r) == \E c \in Calls : pc[c] \in {"new", "created"} /\ r \in ToSet(RequestsOf[c])

RequestInv(r) ==
  /\ Once(pending, r) /\ Once(remaining, r) /\ OneHolder(r)
  /\ reply[r] # "none" => ~Held(r)
  /\ r \in ToSet(pending) \cup ToSet(remaining) => sends[r] = 0
  /\ NotYet(r) => ~Held(r) /\ reply[r] = "none" /\ sends[r] = 0

\* How often the requests of a task were sent before it and by it.
BatchInv(b) ==
  /\ b.left \cap b.dups = {}
  /\ b.phase = "spawned" => b.attempt = 0
  /\ b.phase # "spawned" => b.dups = {}
  /\ b.phase = "sent" => b.attempt < MaxRetries
  /\ \A r \in b.left : sends[r] = IF b.phase = "sent" THEN b.attempt + 1 ELSE b.attempt
GroupInv(g) ==
  /\ g.waiting \cap g.sending = {}
  /\ \A r \in g.waiting : sends[r] <= MaxRetries /\ (g.retry /\ MaxRetries > 0 => sends[r] > 0)

\* The request the call waits for, and a panic that dropped its sender.
Awaited(c)  == RequestsOf[c][next[c]]
Panicked(c) == next[c] \in 1 .. Len(RequestsOf[c]) /\ reply[Awaited(c)] = "panic"

CallInv(c) ==
  /\ pc[c] \in {"notify", "await"} =>
       \A r \in ToSet(RequestsOf[c]) : reply[r] = "none" => Held(r)
  /\ result[c] = "gone" => pc[c] = "returned" /\ Panicked(c)

LoopInv ==
  /\ flusher # "spawn" => remaining = <<>>
  /\ flusher = "exited" => ~open /\ \A c \in Calls : ~Running(c)

TasksInv == (\A b \in batches : BatchInv(b)) /\ (\A g \in groups : GroupInv(g))
BatchingInv ==
  /\ TypeOK /\ LoopInv /\ TasksInv
  /\ \A r \in Requests : RequestInv(r)
  /\ \A c \in Calls : CallInv(c)

-----------------------------------------------------------------------------
(* Sequences of requests.                                                    *)

LEMMA InSequence ==
  ASSUME NEW s \in Seq(Requests)
  PROVE  /\ Len(s) \in Nat /\ DOMAIN s = 1 .. Len(s)
         /\ \A r : r \in ToSet(s) <=> \E i \in 1 .. Len(s) : s[i] = r
         /\ ToSet(s) \subseteq Requests
<1>1. Len(s) \in Nat /\ DOMAIN s = 1 .. Len(s)
  BY LenProperties
<1>2. ToSet(s) = {s[i] : i \in 1 .. Len(s)}
  BY <1>1 DEF ToSet
<1>3. \A i \in 1 .. Len(s) : s[i] \in Requests
  BY ElementOfSeq
<1> QED
  BY <1>1, <1>2, <1>3

\* The requests of a call, each of which is its own.
LEMMA CallRequests ==
  ASSUME NEW c \in Calls
  PROVE  /\ RequestsOf[c] \in Seq(Requests)
         /\ \A r : Once(RequestsOf[c], r)
         /\ \A d \in Calls : \A r : r \in ToSet(RequestsOf[c]) /\ r \in ToSet(RequestsOf[d]) => d = c
<1>1. \A d \in Calls : RequestsOf[d] \in Seq(Requests)
  BY BatchingAssumption
<1>2. \A d \in Calls : DOMAIN RequestsOf[d] = 1 .. Len(RequestsOf[d])
  BY <1>1, InSequence
<1>3. \A d \in Calls : \A i \in 1 .. Len(RequestsOf[c]), j \in 1 .. Len(RequestsOf[d]) :
         RequestsOf[c][i] = RequestsOf[d][j] => c = d /\ i = j
  BY <1>2, BatchingAssumption
<1>4. \A r : Once(RequestsOf[c], r)
  BY <1>3 DEF Once
<1>5. ASSUME NEW d \in Calls, NEW r, r \in ToSet(RequestsOf[c]), r \in ToSet(RequestsOf[d])
      PROVE  d = c
  <2>1. PICK i \in 1 .. Len(RequestsOf[c]) : RequestsOf[c][i] = r
    BY <1>1, <1>5, InSequence
  <2>2. PICK j \in 1 .. Len(RequestsOf[d]) : RequestsOf[d][j] = r
    BY <1>1, <1>5, InSequence
  <2> QED
    BY <1>3, <2>1, <2>2
<1> QED
  BY <1>1, <1>4, <1>5

LEMMA EmptyHasNone == ToSet(<<>>) = {} /\ \A r : Once(<<>>, r)
<1>1. Len(<<>>) = 0 /\ <<>> \in Seq(Requests)
  BY EmptySeq
<1>2. ToSet(<<>>) = {}
  BY DEF ToSet
<1> QED
  BY <1>1, <1>2 DEF Once

\* Pushing behind what is there.
LEMMA Pushed ==
  ASSUME NEW s \in Seq(Requests), NEW t \in Seq(Requests)
  PROVE  /\ s \o t \in Seq(Requests)
         /\ ToSet(s \o t) = ToSet(s) \cup ToSet(t)
         /\ \A r : Once(s, r) /\ Once(t, r) /\ ~ (r \in ToSet(s) /\ r \in ToSet(t))
                 => Once(s \o t, r)
<1> DEFINE u == s \o t
<1>1. /\ u \in Seq(Requests) /\ Len(u) = Len(s) + Len(t)
      /\ \A i \in 1 .. Len(s) + Len(t) : u[i] = IF i <= Len(s) THEN s[i] ELSE t[i - Len(s)]
  BY ConcatProperties
<1>2. Len(s) \in Nat /\ Len(t) \in Nat
  BY InSequence
<1> HIDE DEF u
<1>3. \A i \in 1 .. Len(s) : i \in 1 .. Len(u) /\ u[i] = s[i]
  BY <1>1, <1>2
<1>4. ASSUME NEW i \in 1 .. Len(t)
      PROVE  i + Len(s) \in 1 .. Len(u) /\ u[i + Len(s)] = t[i]
  <2>1. /\ i + Len(s) \in 1 .. Len(s) + Len(t) /\ ~ (i + Len(s) <= Len(s))
        /\ (i + Len(s)) - Len(s) = i
    BY <1>2
  <2>2. u[i + Len(s)] = t[(i + Len(s)) - Len(s)]
    BY <1>1, <2>1
  <2> QED
    BY <1>1, <2>1, <2>2
<1>5. \A i \in 1 .. Len(u) : \/ i \in 1 .. Len(s) /\ u[i] = s[i]
                             \/ i - Len(s) \in 1 .. Len(t) /\ u[i] = t[i - Len(s)]
  BY <1>1, <1>2
<1>6. ASSUME NEW r PROVE r \in ToSet(u) <=> r \in ToSet(s) \/ r \in ToSet(t)
  <2>1. r \in ToSet(u) => r \in ToSet(s) \/ r \in ToSet(t)
    <3> SUFFICES ASSUME NEW i \in 1 .. Len(u), u[i] = r
                 PROVE  r \in ToSet(s) \/ r \in ToSet(t)
      BY <1>1, InSequence
    <3>1. CASE i \in 1 .. Len(s) /\ u[i] = s[i]
      BY <3>1, InSequence
    <3>2. CASE i - Len(s) \in 1 .. Len(t) /\ u[i] = t[i - Len(s)]
      BY <3>2, InSequence
    <3> QED
      BY <1>5, <3>1, <3>2
  <2>2. r \in ToSet(s) => r \in ToSet(u)
    BY <1>1, <1>3, InSequence
  <2>3. ASSUME r \in ToSet(t) PROVE r \in ToSet(u)
    <3>1. PICK i \in 1 .. Len(t) : t[i] = r
      BY <2>3, InSequence
    <3>2. i + Len(s) \in 1 .. Len(u) /\ u[i + Len(s)] = r
      BY <1>4, <3>1
    <3> QED
      BY <1>1, <3>2, InSequence
  <2> QED
    BY <2>1, <2>2, <2>3
<1>7. ASSUME NEW r, Once(s, r), Once(t, r), ~ (r \in ToSet(s) /\ r \in ToSet(t))
      PROVE  Once(u, r)
  <2> SUFFICES ASSUME NEW i \in 1 .. Len(u), NEW j \in 1 .. Len(u), u[i] = r, u[j] = r
               PROVE  i = j
    BY DEF Once
  <2>1. CASE i \in 1 .. Len(s) /\ j \in 1 .. Len(s)
    BY <1>3, <1>7, <2>1 DEF Once
  <2>2. CASE i - Len(s) \in 1 .. Len(t) /\ u[i] = t[i - Len(s)]
             /\ j - Len(s) \in 1 .. Len(t) /\ u[j] = t[j - Len(s)]
    <3>1. i - Len(s) = j - Len(s)
      BY <1>7, <2>2 DEF Once
    <3> QED
      BY <1>1, <1>2, <3>1
  <2>3. r \in ToSet(s) <=> \E k \in 1 .. Len(s) : s[k] = r
    BY InSequence
  <2>4. r \in ToSet(t) <=> \E k \in 1 .. Len(t) : t[k] = r
    BY InSequence
  <2> QED
    BY <1>3, <1>5, <1>7, <2>1, <2>2, <2>3, <2>4
<1> QED
  BY <1>1, <1>6, <1>7 DEF u

\* A list is split into its first chunk and what comes after it.
LEMMA Chunks ==
  ASSUME NEW s \in Seq(Requests)
  PROVE  /\ FirstChunk(s) \in Seq(Requests) /\ AfterChunk(s) \in Seq(Requests)
         /\ ToSet(s) = ToSet(FirstChunk(s)) \cup ToSet(AfterChunk(s))
         /\ \A r : Once(s, r) => /\ Once(FirstChunk(s), r) /\ Once(AfterChunk(s), r)
                                /\ ~ (r \in ToSet(FirstChunk(s)) /\ r \in ToSet(AfterChunk(s)))
<1> DEFINE k == ChunkSize(s)
           f == FirstChunk(s)
           a == AfterChunk(s)
<1>1. Len(s) \in Nat
  BY InSequence
<1>2. k \in 0 .. Len(s)
  <2>1. MaxBatchSize \in Nat
    BY BatchingAssumption
  <2>2. k \in {Len(s), MaxBatchSize} /\ \A y \in {Len(s), MaxBatchSize} : k <= y
    <3>1. \E x \in {Len(s), MaxBatchSize} : \A y \in {Len(s), MaxBatchSize} : x <= y
      BY <1>1, <2>1
    <3> QED
      BY <3>1 DEF ChunkSize, Min
  <2> QED
    BY <1>1, <2>1, <2>2
<1> HIDE DEF k
<1>3. \A i \in 1 .. Len(s) : s[i] \in Requests
  BY ElementOfSeq
<1>4. f \in Seq(Requests) /\ Len(f) = k /\ \A i \in 1 .. k : f[i] = s[i]
  <2>1. \A i \in 1 .. k : s[i] \in Requests
    BY <1>1, <1>2, <1>3
  <2>2. /\ SubSeq(s, 1, k) \in Seq(Requests)
        /\ Len(SubSeq(s, 1, k)) = IF 1 <= k THEN k - 1 + 1 ELSE 0
        /\ \A i \in 1 .. k - 1 + 1 : SubSeq(s, 1, k)[i] = s[1 + i - 1]
    BY <1>2, <2>1, SubSeqProperties
  <2> QED
    BY <1>1, <1>2, <2>2 DEF FirstChunk, k
<1>5. a \in Seq(Requests) /\ Len(a) = Len(s) - k /\ \A i \in 1 .. Len(s) - k : a[i] = s[k + i]
  <2>1. \A i \in k + 1 .. Len(s) : s[i] \in Requests
    BY <1>1, <1>2, <1>3
  <2>2. /\ SubSeq(s, k + 1, Len(s)) \in Seq(Requests)
        /\ Len(SubSeq(s, k + 1, Len(s))) =
             IF k + 1 <= Len(s) THEN Len(s) - (k + 1) + 1 ELSE 0
        /\ \A i \in 1 .. Len(s) - (k + 1) + 1 :
             SubSeq(s, k + 1, Len(s))[i] = s[k + 1 + i - 1]
    <3>1. k + 1 \in Int /\ Len(s) \in Int
      BY <1>1, <1>2
    <3> QED
      BY <2>1, <3>1, SubSeqProperties
  <2>3. a = SubSeq(s, k + 1, Len(s))
    BY DEF AfterChunk, k
  <2> HIDE DEF a
  <2> QED
    BY <1>1, <1>2, <2>2, <2>3
<1> HIDE DEF f, a
<1>6. \A i \in 1 .. k : i \in 1 .. Len(s)
  BY <1>1, <1>2
<1>7. \A i \in 1 .. Len(s) - k : k + i \in 1 .. Len(s)
  BY <1>1, <1>2
<1>8. \A i \in 1 .. Len(s) : i \in 1 .. k \/ (i - k \in 1 .. Len(s) - k /\ s[i] = a[i - k])
  BY <1>1, <1>2, <1>5
<1>9. ASSUME NEW r PROVE r \in ToSet(s) <=> r \in ToSet(f) \/ r \in ToSet(a)
  <2>1. ASSUME r \in ToSet(s) PROVE r \in ToSet(f) \/ r \in ToSet(a)
    <3>1. PICK i \in 1 .. Len(s) : s[i] = r
      BY <2>1, InSequence
    <3>2. CASE i \in 1 .. k
      BY <1>4, <3>1, <3>2, InSequence
    <3>3. CASE i - k \in 1 .. Len(s) - k /\ s[i] = a[i - k]
      BY <1>5, <3>1, <3>3, InSequence
    <3> QED
      BY <1>8, <3>2, <3>3
  <2>2. r \in ToSet(f) => r \in ToSet(s)
    BY <1>4, <1>6, InSequence
  <2>3. r \in ToSet(a) => r \in ToSet(s)
    BY <1>5, <1>7, InSequence
  <2> QED
    BY <2>1, <2>2, <2>3
<1>10. ASSUME NEW r, Once(s, r)
       PROVE  /\ Once(f, r) /\ Once(a, r)
              /\ ~ (r \in ToSet(f) /\ r \in ToSet(a))
  <2>1. Once(f, r)
    BY <1>4, <1>6, <1>10 DEF Once
  <2>2. Once(a, r)
    <3> SUFFICES ASSUME NEW i \in 1 .. Len(a), NEW j \in 1 .. Len(a), a[i] = r, a[j] = r
                 PROVE  i = j
      BY DEF Once
    <3>1. k + i = k + j
      BY <1>5, <1>7, <1>10 DEF Once
    <3> QED
      BY <1>2, <1>5, <3>1
  <2>3. ASSUME r \in ToSet(f), r \in ToSet(a) PROVE FALSE
    <3>1. PICK i \in 1 .. k : s[i] = r
      BY <1>4, <2>3, InSequence
    <3>2. PICK j \in 1 .. Len(s) - k : s[k + j] = r
      BY <1>5, <2>3, InSequence
    <3>3. i = k + j
      BY <1>6, <1>7, <1>10, <3>1, <3>2 DEF Once
    <3> QED
      BY <1>1, <1>2, <3>3
  <2> QED
    BY <2>1, <2>2, <2>3
<1> QED
  BY <1>4, <1>5, <1>9, <1>10 DEF f, a

\* A chunk of more requests than one leaves some that are no duplicates.
LEMMA DuplicatesAreOfChunk ==
  ASSUME NEW s \in Seq(Requests)
  PROVE  Duplicates(s) \subseteq ToSet(s)
BY InSequence DEF Duplicates

-----------------------------------------------------------------------------
(* Steps that leave the requests where they are.                             *)

Lists == <<pending, remaining>>
Requested == <<Lists, batches, groups, reply, sends>>

LEMMA RequestsKept ==
  ASSUME BatchingInv, UNCHANGED Requested,
         \A c \in Calls : pc'[c] \in {"new", "created"} => pc[c] \in {"new", "created"}
  PROVE  TasksInv' /\ \A r \in Requests : RequestInv(r)' /\ Held(r)' = Held(r)
<1>1. TasksInv'
  BY DEF BatchingInv, TasksInv, BatchInv, GroupInv, Requested
<1>2. ASSUME NEW r \in Requests
      PROVE  RequestInv(r)' /\ Held(r)' = Held(r)
  <2>1. Held(r)' = Held(r)
    BY DEF Requested, Lists, Held
  <2>2. NotYet(r)' => NotYet(r)
    BY DEF NotYet
  <2>3. RequestInv(r)
    BY DEF BatchingInv
  <2> QED
    BY <2>1, <2>2, <2>3 DEF RequestInv, Once, OneHolder, Requested, Lists
<1> QED
  BY <1>1, <1>2

LEMMA CallStepsKeep ==
  ASSUME BatchingInv, NEW c \in Calls,
         Create(c) \/ NotifyOne(c) \/ Receive(c) \/ ReceivedAll(c) \/ Cancel(c)
  PROVE  BatchingInv'
<1> USE DEF Goto, Return, shared, loop, tasks, calls
<1>1. TypeOK /\ LoopInv /\ \A d \in Calls : CallInv(d)
  BY DEF BatchingInv
<1>2. /\ UNCHANGED <<Requested, flusher, open>>
      /\ \A d \in Calls : d # c =>
           pc'[d] = pc[d] /\ result'[d] = result[d] /\ next'[d] = next[d]
  BY <1>1 DEF Create, NotifyOne, Receive, ReceivedAll, Cancel, Requested, Lists, TypeOK
<1>3. TypeOK'
  <2>1. CASE Create(c)
    BY <1>1, <2>1 DEF Create, TypeOK
  <2>2. CASE NotifyOne(c)
    BY <1>1, <2>2 DEF NotifyOne, TypeOK
  <2>3. CASE Receive(c)
    <3> DEFINE q == RequestsOf[c][next[c]]
    <3>1. next[c] \in Nat \ {0} /\ next[c] <= Len(RequestsOf[c])
      BY <1>1, <2>3 DEF Receive, TypeOK
    <3>2. q \in Requests
      BY <3>1, CallRequests, InSequence, ElementOfSeq
    <3>3. Received(q) # "none" => Received(q) \in Outcomes \cup {"gone", "duplicate"}
      BY <1>1, <3>2 DEF Received, TypeOK
    <3> HIDE DEF q
    <3>4. /\ Received(q) # "none"
          /\ \/ pc' = [pc EXCEPT ![c] = "returned"]
                /\ result' = [result EXCEPT ![c] = Received(q)] /\ UNCHANGED next
             \/ next' = [next EXCEPT ![c] = @ + 1] /\ UNCHANGED <<pc, result>>
      BY <2>3 DEF Receive, q
    <3>5. UNCHANGED <<open, notified, pending, remaining, flusher, wokenBy, reply, sends,
                      batches, groups>>
      BY <2>3 DEF Receive
    <3>6. /\ pc' \in [Calls -> {"new", "created", "notify", "await", "returned", "cancelled"}]
          /\ next' \in [Calls -> Nat \ {0}]
          /\ result' \in [Calls -> Outcomes \cup {"pending", "response", "gone", "duplicate"}]
      <4>1. CASE /\ pc' = [pc EXCEPT ![c] = "returned"]
                 /\ result' = [result EXCEPT ![c] = Received(q)] /\ UNCHANGED next
        BY <1>1, <3>3, <3>4, <4>1 DEF TypeOK
      <4>2. CASE next' = [next EXCEPT ![c] = @ + 1] /\ UNCHANGED <<pc, result>>
        BY <1>1, <3>1, <4>2 DEF TypeOK
      <4> QED
        BY <3>4, <4>1, <4>2
    <3> QED
      BY <1>1, <3>5, <3>6 DEF TypeOK
  <2>4. CASE ReceivedAll(c)
    BY <1>1, <2>4 DEF ReceivedAll, TypeOK
  <2>5. CASE Cancel(c)
    BY <1>1, <2>5 DEF Cancel, TypeOK
  <2> QED
    BY <2>1, <2>2, <2>3, <2>4, <2>5
<1>4. /\ pc[c] \in {"new", "created", "notify", "await"}
      /\ pc'[c] \in {"new", "created"} => pc[c] = "new" /\ open
      /\ pc'[c] \in {"notify", "await"} => pc[c] \in {"notify", "await"}
      /\ pc[c] = "new" => open
      /\ pc[c] # "new" => Running(c)
  BY <1>1 DEF Create, NotifyOne, Receive, ReceivedAll, Cancel, TypeOK, Running
<1>5. result'[c] = "gone" => pc'[c] = "returned" /\ Panicked(c)'
  <2>1. result[c] # "gone"
    BY <1>1, <1>4 DEF CallInv
  <2>2. CASE Receive(c)
    <3> DEFINE q == Awaited(c)
    <3>1. next[c] \in 1 .. Len(RequestsOf[c]) /\ pc[c] = "await"
      BY <1>1, <2>2, CallRequests, InSequence DEF Receive, TypeOK
    <3>2. q \in ToSet(RequestsOf[c])
      BY <3>1, CallRequests, InSequence DEF Awaited
    <3>3. Received(q) = "gone" => reply[q] = "panic"
      <4>1. q \in Requests
        BY <3>2, CallRequests, InSequence
      <4>2. reply[q] = "none" => Held(q)
        BY <1>1, <3>1, <3>2 DEF CallInv
      <4>3. reply[q] # "gone"
        BY <1>1, <4>1, BatchingAssumption DEF TypeOK
      <4> QED
        BY <4>2, <4>3 DEF Received
    <3>4. \/ /\ pc' = [pc EXCEPT ![c] = "returned"]
             /\ result' = [result EXCEPT ![c] = Received(q)] /\ UNCHANGED next
          \/ UNCHANGED result
      BY <2>2 DEF Receive, Awaited
    <3>5. UNCHANGED reply
      BY <1>2 DEF Requested
    <3> HIDE DEF q
    <3>6. CASE UNCHANGED result
      BY <2>1, <3>6
    <3>7. CASE /\ pc' = [pc EXCEPT ![c] = "returned"]
               /\ result' = [result EXCEPT ![c] = Received(q)] /\ UNCHANGED next
      <4>1. pc'[c] = "returned" /\ result'[c] = Received(q)
        BY <1>1, <3>7 DEF TypeOK
      <4>2. reply[q] = "panic" => Panicked(c)'
        BY <3>1, <3>5, <3>7 DEF Panicked, Awaited, q
      <4> QED
        BY <3>3, <4>1, <4>2
    <3> QED
      BY <3>4, <3>6, <3>7
  <2>3. CASE ~Receive(c)
    BY <1>1, <2>1, <2>3 DEF Create, NotifyOne, ReceivedAll, Cancel, TypeOK
  <2> QED
    BY <2>2, <2>3
<1>6. \A d \in Calls : pc'[d] \in {"new", "created"} => pc[d] \in {"new", "created"}
  BY <1>2, <1>4
<1>7. TasksInv' /\ \A r \in Requests : RequestInv(r)' /\ Held(r)' = Held(r)
  BY <1>2, <1>6, RequestsKept
<1>8. LoopInv'
  <2>1. flusher = "exited" => FALSE
    BY <1>1, <1>4 DEF LoopInv
  <2> QED
    BY <1>1, <1>2, <2>1 DEF LoopInv, Requested, Lists
<1>9. \A d \in Calls : CallInv(d)'
  <2> SUFFICES ASSUME NEW d \in Calls PROVE CallInv(d)'
    OBVIOUS
  <2>1. pc'[d] \in {"notify", "await"} => pc[d] \in {"notify", "await"}
    BY <1>2, <1>4
  <2>2. result'[d] = "gone" => pc'[d] = "returned" /\ Panicked(d)'
    <3>1. CASE d = c
      BY <1>5, <3>1
    <3>2. CASE d # c
      BY <1>1, <1>2, <3>2 DEF CallInv, Panicked, Awaited, Requested
    <3> QED
      BY <3>1, <3>2
  <2>3. ToSet(RequestsOf[d]) \subseteq Requests
    BY CallRequests, InSequence
  <2> QED
    BY <1>1, <1>2, <1>7, <2>1, <2>2, <2>3 DEF CallInv, Requested
<1> QED
  BY <1>3, <1>7, <1>8, <1>9 DEF BatchingInv

LEMMA LoopStepsKeep ==
  ASSUME BatchingInv, Close \/ Upgrade \/ Wake \/ UNCHANGED vars
  PROVE  BatchingInv'
<1> USE DEF shared, loop, tasks, calls
<1>1. TypeOK /\ LoopInv /\ \A d \in Calls : CallInv(d)
  BY DEF BatchingInv
<1>2. UNCHANGED <<Requested, pc, result, next>>
  BY DEF Close, Upgrade, Wake, vars, Requested, Lists
<1>3. TasksInv' /\ \A r \in Requests : RequestInv(r)' /\ Held(r)' = Held(r)
  BY <1>2, RequestsKept
<1>4. TypeOK'
  BY <1>1, <1>2 DEF Close, Upgrade, Wake, vars, Requested, Lists, TypeOK
<1>5. LoopInv'
  <2>1. CASE Upgrade
    BY <1>1, <1>2, <2>1 DEF Upgrade, Alive, LoopInv, Requested, Lists, Running
  <2>2. CASE Close \/ Wake \/ UNCHANGED vars
    BY <1>1, <1>2, <2>2 DEF Close, Wake, vars, LoopInv, Requested, Lists, Running
  <2> QED
    BY <2>1, <2>2
<1>6. \A d \in Calls : CallInv(d)'
  <2>1. \A d \in Calls : ToSet(RequestsOf[d]) \subseteq Requests
    BY CallRequests, InSequence
  <2> QED
    BY <1>1, <1>2, <1>3, <2>1 DEF CallInv, Panicked, Awaited, Requested
<1> QED
  BY <1>3, <1>4, <1>5, <1>6 DEF BatchingInv

-----------------------------------------------------------------------------
(* Tasks and the requests they have.                                         *)

LEMMA TaskTypes ==
  ASSUME TypeOK
  PROVE  /\ \A b \in batches : b.left \subseteq Requests /\ b.dups \subseteq Requests
         /\ \A g \in groups : g.waiting \subseteq Requests /\ g.sending \subseteq Requests
BY DEF TypeOK

\* Task b goes on as b2, with some of its requests, or ends.
LEMMA BatchBecomes ==
  ASSUME BatchingInv, NEW b \in batches, NEW b2, Becomes(b, b2), b2.dups = {},
         b2.left \subseteq Of(b), UNCHANGED <<Lists, groups>>
  PROVE  \A r \in Requests : /\ OneHolder(r)'
                             /\ Held(r)' <=> Held(r) /\ (r \in Of(b) => r \in b2.left)
<1> SUFFICES ASSUME NEW r \in Requests
             PROVE  OneHolder(r)' /\ (Held(r)' <=> Held(r) /\ (r \in Of(b) => r \in b2.left))
  OBVIOUS
<1>1. OneHolder(r)
  BY DEF BatchingInv, RequestInv
<1>2. /\ \A x \in batches' : (x \in batches /\ x # b) \/ x = b2
      /\ \A x \in batches : x # b => x \in batches'
      /\ b2.left # {} => b2 \in batches'
  BY DEF Becomes
<1>3. r \in Of(b2) => r \in Of(b) /\ r \in b2.left
  BY DEF Of
<1>4. OneHolder(r)'
  BY <1>1, <1>2, <1>3 DEF OneHolder, Lists
<1>5. Held(r) <=> \/ r \in ToSet(pending) \/ r \in ToSet(remaining)
                  \/ \E x \in batches : r \in Of(x)
                  \/ \E g \in groups : r \in In(g)
  BY DEF Held, Of, In
<1>6. Held(r)' <=> \/ r \in ToSet(pending) \/ r \in ToSet(remaining)
                   \/ \E x \in batches' : r \in Of(x)
                   \/ \E g \in groups : r \in In(g)
  BY DEF Held, Of, In, Lists
<1>7. r \in b2.left => r \in Of(b2) /\ r \in Of(b)
  BY DEF Of
<1> QED
  BY <1>1, <1>2, <1>3, <1>4, <1>5, <1>6, <1>7 DEF OneHolder

\* Task b hands its requests to tasks that send one each.
LEMMA BatchFallsBack ==
  ASSUME BatchingInv, NEW b \in batches, b.dups = {}, FallBack(b, b.left),
         UNCHANGED Lists
  PROVE  \A r \in Requests : OneHolder(r)' /\ (Held(r)' <=> Held(r))
<1> DEFINE g2 == Group(b.left, {}, TRUE)
<1> SUFFICES ASSUME NEW r \in Requests
             PROVE  OneHolder(r)' /\ (Held(r)' <=> Held(r))
  OBVIOUS
<1>1. OneHolder(r)
  BY DEF BatchingInv, RequestInv
<1>2. batches' = batches \ {b} /\ groups' = groups \cup {g2}
  BY DEF FallBack
<1>3. g2.waiting = b.left /\ g2.sending = {}
  BY DEF Group
<1> HIDE DEF g2
<1>4. r \in In(g2) <=> r \in Of(b)
  BY <1>3 DEF In, Of
<1>5. OneHolder(r)'
  BY <1>1, <1>2, <1>4 DEF OneHolder, Lists
<1>6. Held(r) <=> \/ r \in ToSet(pending) \/ r \in ToSet(remaining)
                  \/ \E x \in batches : r \in Of(x)
                  \/ \E g \in groups : r \in In(g)
  BY DEF Held, Of, In
<1>7. Held(r)' <=> \/ r \in ToSet(pending) \/ r \in ToSet(remaining)
                   \/ \E x \in batches' : r \in Of(x)
                   \/ \E g \in groups' : r \in In(g)
  BY DEF Held, Of, In, Lists
<1> QED
  BY <1>2, <1>4, <1>5, <1>6, <1>7

\* Group g goes on as g2, with some of its requests, or ends.
LEMMA GroupBecomes ==
  ASSUME BatchingInv, NEW g \in groups, NEW g2, Regroup(g, g2), In(g2) \subseteq In(g),
         UNCHANGED <<Lists, batches>>
  PROVE  \A r \in Requests : /\ OneHolder(r)'
                             /\ Held(r)' <=> Held(r) /\ (r \in In(g) => r \in In(g2))
<1> SUFFICES ASSUME NEW r \in Requests
             PROVE  OneHolder(r)' /\ (Held(r)' <=> Held(r) /\ (r \in In(g) => r \in In(g2)))
  OBVIOUS
<1>1. OneHolder(r)
  BY DEF BatchingInv, RequestInv
<1>2. /\ \A x \in groups' : (x \in groups /\ x # g) \/ x = g2
      /\ \A x \in groups : x # g => x \in groups'
      /\ In(g2) # {} => g2 \in groups'
  BY DEF Regroup, In
<1>3. OneHolder(r)'
  BY <1>1, <1>2 DEF OneHolder, Lists
<1>4. Held(r) <=> \/ r \in ToSet(pending) \/ r \in ToSet(remaining)
                  \/ \E x \in batches : r \in Of(x)
                  \/ \E x \in groups : r \in In(x)
  BY DEF Held, Of, In
<1>5. Held(r)' <=> \/ r \in ToSet(pending) \/ r \in ToSet(remaining)
                   \/ \E x \in batches : r \in Of(x)
                   \/ \E x \in groups' : r \in In(x)
  BY DEF Held, Of, In, Lists
<1> QED
  BY <1>1, <1>2, <1>3, <1>4, <1>5 DEF OneHolder

\* The numbers of the tasks that do not have the requests which were sent.
LEMMA OtherTasks ==
  ASSUME BatchingInv, NEW M, \A r \in Requests : r \notin M => sends'[r] = sends[r]
  PROVE  /\ \A b \in batches : Of(b) \cap M = {} => BatchInv(b)'
         /\ \A g \in groups : In(g) \cap M = {} => GroupInv(g)'
<1>1. TypeOK /\ TasksInv
  BY DEF BatchingInv
<1>2. ASSUME NEW b \in batches, Of(b) \cap M = {}
      PROVE  BatchInv(b)'
  <2>1. BatchInv(b) /\ b.left \subseteq Requests
    BY <1>1, TaskTypes DEF TasksInv
  <2>2. \A r \in b.left : sends'[r] = sends[r]
    BY <1>2, <2>1 DEF Of
  <2> QED
    BY <2>1, <2>2 DEF BatchInv
<1>3. ASSUME NEW g \in groups, In(g) \cap M = {}
      PROVE  GroupInv(g)'
  <2>1. GroupInv(g) /\ g.waiting \subseteq Requests
    BY <1>1, TaskTypes DEF TasksInv
  <2>2. \A r \in g.waiting : sends'[r] = sends[r]
    BY <1>3, <2>1 DEF In
  <2> QED
    BY <2>1, <2>2 DEF GroupInv
<1> QED
  BY <1>2, <1>3

\* Two tasks have no request in common.
LEMMA TasksDisjoint ==
  ASSUME BatchingInv
  PROVE  /\ \A b, b2 \in batches : b # b2 => Of(b) \cap Of(b2) = {}
         /\ \A b \in batches, g \in groups : Of(b) \cap In(g) = {}
         /\ \A g, g2 \in groups : g # g2 => In(g) \cap In(g2) = {}
<1>1. /\ \A b \in batches : Of(b) \subseteq Requests
      /\ \A g \in groups : In(g) \subseteq Requests
  BY TaskTypes DEF BatchingInv, Of, In
<1>2. \A r \in Requests : OneHolder(r)
  BY DEF BatchingInv, RequestInv
<1> QED
  BY <1>1, <1>2 DEF OneHolder

\* What a step of a task may do to requests: some that it had are answered, some
\* are sent, and none goes elsewhere unanswered.
TaskMoves ==
  \A r \in Requests :
    /\ OneHolder(r)'
    /\ Held(r)' => Held(r) /\ reply'[r] = reply[r]
    /\ Held(r) /\ ~Held(r)' => reply'[r] # "none"
    /\ ~Held(r) => reply'[r] = reply[r]
    /\ sends'[r] # sends[r] =>
         Held(r)' /\ r \notin ToSet(pending) /\ r \notin ToSet(remaining)

LEMMA TaskMovesKeep ==
  ASSUME BatchingInv, TaskMoves, TypeOK', TasksInv', UNCHANGED <<open, shared, loop, calls>>
  PROVE  BatchingInv'
<1> USE DEF shared, loop, calls
<1>1. ASSUME NEW r \in Requests PROVE RequestInv(r)'
  <2>1. RequestInv(r)
    BY DEF BatchingInv
  <2>2. NotYet(r)' <=> NotYet(r)
    BY DEF NotYet
  <2> QED
    BY <2>1, <2>2 DEF RequestInv, TaskMoves, Once
<1>2. ASSUME NEW c \in Calls PROVE CallInv(c)'
  <2>1. CallInv(c) /\ ToSet(RequestsOf[c]) \subseteq Requests
    BY CallRequests, InSequence DEF BatchingInv
  <2>2. \A r \in Requests : reply[r] # "none" => reply'[r] = reply[r]
    BY DEF BatchingInv, RequestInv, TaskMoves
  <2>3. next[c] \in 1 .. Len(RequestsOf[c]) => Awaited(c) \in Requests
    BY CallRequests, InSequence DEF Awaited
  <2>4. Awaited(c)' = Awaited(c)
    BY DEF Awaited
  <2>5. Panicked(c) => Panicked(c)'
    BY <2>2, <2>3, <2>4 DEF Panicked
  <2> QED
    BY <2>1, <2>5 DEF CallInv, TaskMoves
<1>3. LoopInv'
  BY DEF BatchingInv, LoopInv, Running
<1> QED
  BY <1>1, <1>2, <1>3 DEF BatchingInv

\* What a task has is held by it alone.
LEMMA HeldByBatch ==
  ASSUME BatchingInv, NEW b \in batches, NEW r \in Of(b)
  PROVE  /\ r \in Requests /\ Held(r) /\ reply[r] = "none"
         /\ r \notin ToSet(pending) /\ r \notin ToSet(remaining)
<1>1. r \in Requests
  BY TaskTypes DEF BatchingInv, Of
<1>2. RequestInv(r)
  BY <1>1 DEF BatchingInv
<1>3. Held(r)
  BY DEF Held, Of
<1> QED
  BY <1>1, <1>2, <1>3 DEF RequestInv, OneHolder

LEMMA HeldByGroup ==
  ASSUME BatchingInv, NEW g \in groups, NEW r \in In(g)
  PROVE  /\ r \in Requests /\ Held(r) /\ reply[r] = "none"
         /\ r \notin ToSet(pending) /\ r \notin ToSet(remaining)
<1>1. r \in Requests
  BY TaskTypes DEF BatchingInv, In
<1>2. RequestInv(r)
  BY <1>1 DEF BatchingInv
<1>3. Held(r)
  BY DEF Held, In
<1> QED
  BY <1>1, <1>2, <1>3 DEF RequestInv, OneHolder

\* A step of task b: it keeps left, which is all it has left unanswered.
LEMMA BatchStep ==
  ASSUME BatchingInv, TypeOK', NEW b \in batches, NEW b2, Becomes(b, b2), b2.dups = {},
         b2.left \subseteq Of(b), BatchInv(b2)',
         UNCHANGED <<Lists, groups>>,
         \A r \in Requests : reply'[r] # reply[r] => r \in Of(b) \ b2.left,
         \A r \in Of(b) \ b2.left : reply'[r] # "none",
         \A r \in Requests : sends'[r] # sends[r] => r \in b2.left
  PROVE  TaskMoves /\ TasksInv'
<1>1. \A r \in Requests : /\ OneHolder(r)'
                          /\ Held(r)' <=> Held(r) /\ (r \in Of(b) => r \in b2.left)
  BY BatchBecomes
<1>2. \A r \in Of(b) : /\ r \in Requests /\ Held(r)
                       /\ r \notin ToSet(pending) /\ r \notin ToSet(remaining)
  BY HeldByBatch
<1>3. TaskMoves
  <2> SUFFICES ASSUME NEW r \in Requests
               PROVE  /\ OneHolder(r)'
                      /\ Held(r)' => Held(r) /\ reply'[r] = reply[r]
                      /\ Held(r) /\ ~Held(r)' => reply'[r] # "none"
                      /\ ~Held(r) => reply'[r] = reply[r]
                      /\ sends'[r] # sends[r] =>
                           Held(r)' /\ r \notin ToSet(pending) /\ r \notin ToSet(remaining)
    BY DEF TaskMoves
  <2>1. OneHolder(r)' /\ (Held(r)' <=> Held(r) /\ (r \in Of(b) => r \in b2.left))
    BY <1>1
  <2>2. r \in Of(b) => Held(r) /\ r \notin ToSet(pending) /\ r \notin ToSet(remaining)
    BY <1>2
  <2>3. reply'[r] # reply[r] => r \in Of(b) /\ r \notin b2.left
    OBVIOUS
  <2>4. r \in Of(b) /\ r \notin b2.left => reply'[r] # "none"
    OBVIOUS
  <2>5. sends'[r] # sends[r] => r \in b2.left /\ r \in Of(b)
    OBVIOUS
  <2> QED
    BY <2>1, <2>2, <2>3, <2>4, <2>5
<1>4. \A r \in Requests : r \notin Of(b) => sends'[r] = sends[r]
  OBVIOUS
<1>5. /\ \A x \in batches : Of(x) \cap Of(b) = {} => BatchInv(x)'
      /\ \A g \in groups : In(g) \cap Of(b) = {} => GroupInv(g)'
  <2> DEFINE M == Of(b)
  <2> HIDE DEF M
  <2>1. \A r \in Requests : r \notin M => sends'[r] = sends[r]
    BY <1>4 DEF M
  <2>2. /\ \A x \in batches : Of(x) \cap M = {} => BatchInv(x)'
        /\ \A g \in groups : In(g) \cap M = {} => GroupInv(g)'
    BY <2>1, OtherTasks
  <2> QED
    BY <2>2 DEF M
<1>6. /\ \A x \in batches : x # b => Of(x) \cap Of(b) = {}
      /\ \A g \in groups : In(g) \cap Of(b) = {}
  BY TasksDisjoint
<1>7. \A x \in batches' : x = b2 \/ (x \in batches /\ x # b)
  BY DEF Becomes
<1>8. TasksInv'
  BY <1>5, <1>6, <1>7 DEF TasksInv
<1> QED
  BY <1>3, <1>8

\* The same for a group of tasks.
LEMMA GroupStep ==
  ASSUME BatchingInv, TypeOK', NEW g \in groups, NEW g2, Regroup(g, g2),
         In(g2) \subseteq In(g), GroupInv(g2)',
         UNCHANGED <<Lists, batches>>,
         \A r \in Requests : reply'[r] # reply[r] => r \in In(g) \ In(g2),
         \A r \in In(g) \ In(g2) : reply'[r] # "none",
         \A r \in Requests : sends'[r] # sends[r] => r \in In(g2)
  PROVE  TaskMoves /\ TasksInv'
<1>1. \A r \in Requests : /\ OneHolder(r)'
                          /\ Held(r)' <=> Held(r) /\ (r \in In(g) => r \in In(g2))
  BY GroupBecomes
<1>2. \A r \in In(g) : /\ r \in Requests /\ Held(r)
                       /\ r \notin ToSet(pending) /\ r \notin ToSet(remaining)
  BY HeldByGroup
<1>3. TaskMoves
  <2> SUFFICES ASSUME NEW r \in Requests
               PROVE  /\ OneHolder(r)'
                      /\ Held(r)' => Held(r) /\ reply'[r] = reply[r]
                      /\ Held(r) /\ ~Held(r)' => reply'[r] # "none"
                      /\ ~Held(r) => reply'[r] = reply[r]
                      /\ sends'[r] # sends[r] =>
                           Held(r)' /\ r \notin ToSet(pending) /\ r \notin ToSet(remaining)
    BY DEF TaskMoves
  <2>1. OneHolder(r)' /\ (Held(r)' <=> Held(r) /\ (r \in In(g) => r \in In(g2)))
    BY <1>1
  <2>2. r \in In(g) => Held(r) /\ r \notin ToSet(pending) /\ r \notin ToSet(remaining)
    BY <1>2
  <2>3. reply'[r] # reply[r] => r \in In(g) /\ r \notin In(g2)
    OBVIOUS
  <2>4. r \in In(g) /\ r \notin In(g2) => reply'[r] # "none"
    OBVIOUS
  <2>5. sends'[r] # sends[r] => r \in In(g2) /\ r \in In(g)
    OBVIOUS
  <2> QED
    BY <2>1, <2>2, <2>3, <2>4, <2>5
<1>4. \A r \in Requests : r \notin In(g) => sends'[r] = sends[r]
  OBVIOUS
<1>5. /\ \A b \in batches : Of(b) \cap In(g) = {} => BatchInv(b)'
      /\ \A x \in groups : In(x) \cap In(g) = {} => GroupInv(x)'
  <2> DEFINE M == In(g)
  <2> HIDE DEF M
  <2>1. \A r \in Requests : r \notin M => sends'[r] = sends[r]
    BY <1>4 DEF M
  <2>2. /\ \A b \in batches : Of(b) \cap M = {} => BatchInv(b)'
        /\ \A x \in groups : In(x) \cap M = {} => GroupInv(x)'
    BY <2>1, OtherTasks
  <2> QED
    BY <2>2 DEF M
<1>6. /\ \A b \in batches : Of(b) \cap In(g) = {}
      /\ \A x \in groups : x # g => In(x) \cap In(g) = {}
  BY TasksDisjoint
<1>7. \A x \in groups' : x = g2 \/ (x \in groups /\ x # g)
  BY DEF Regroup
<1>8. TasksInv'
  BY <1>5, <1>6, <1>7 DEF TasksInv
<1> QED
  BY <1>3, <1>8

\* A batch that is sent one by one is not answered yet.
LEMMA FallBackStep ==
  ASSUME BatchingInv, TypeOK', NEW b \in batches, b.dups = {}, FallBack(b, b.left),
         GroupInv(Group(b.left, {}, TRUE))', UNCHANGED <<Lists, reply, sends>>
  PROVE  TaskMoves /\ TasksInv'
<1>1. \A r \in Requests : OneHolder(r)' /\ (Held(r)' <=> Held(r))
  BY BatchFallsBack
<1>2. TaskMoves
  BY <1>1 DEF TaskMoves
<1>3. TasksInv'
  BY DEF FallBack, TasksInv, BatchingInv, BatchInv, GroupInv
<1> QED
  BY <1>2, <1>3

-----------------------------------------------------------------------------
(* The steps of the tasks.                                                   *)

LEMMA Answered ==
  ASSUME TypeOK, NEW R, NEW o \in Outcomes \cup {"duplicate"}, Answer(R, o)
  PROVE  /\ reply' \in [Requests -> Outcomes \cup {"none", "duplicate"}]
         /\ \A r \in Requests : reply'[r] = IF r \in R THEN o ELSE reply[r]
         /\ o # "none"
BY BatchingAssumption DEF Answer, TypeOK

LEMMA OnceMore ==
  ASSUME TypeOK, NEW R, Sent(R), \A r \in Requests : r \in R => sends[r] <= MaxRetries
  PROVE  /\ sends' \in [Requests -> 0 .. MaxRetries + 1]
         /\ \A r \in Requests : sends'[r] = IF r \in R THEN sends[r] + 1 ELSE sends[r]
<1>1. MaxRetries \in Nat /\ sends \in [Requests -> 0 .. MaxRetries + 1]
  BY BatchingAssumption DEF TypeOK
<1> QED
  BY <1>1 DEF Sent

LEMMA BatchFields ==
  ASSUME BatchingInv, NEW b \in batches
  PROVE  /\ b \in [left: SUBSET Requests, dups: SUBSET Requests,
                   attempt: 0 .. MaxRetries, phase: {"spawned", "ready", "sent"}]
         /\ BatchInv(b)
         /\ MaxRetries \in Nat
         /\ TypeOK
BY BatchingAssumption DEF BatchingInv, TypeOK, TasksInv

LEMMA BatchMade ==
  ASSUME NEW left, NEW dups, NEW attempt, NEW phase
  PROVE  /\ Batch(left, dups, attempt, phase).left = left
         /\ Batch(left, dups, attempt, phase).dups = dups
         /\ Batch(left, dups, attempt, phase).attempt = attempt
         /\ Batch(left, dups, attempt, phase).phase = phase
         /\ left \in SUBSET Requests /\ dups \in SUBSET Requests
            /\ attempt \in 0 .. MaxRetries /\ phase \in {"spawned", "ready", "sent"}
            => Batch(left, dups, attempt, phase) \in
                 [left: SUBSET Requests, dups: SUBSET Requests,
                  attempt: 0 .. MaxRetries, phase: {"spawned", "ready", "sent"}]
BY DEF Batch

\* A step of one task on its own keeps the invariant, and says what requests
\* may do in it.
TaskKeeps == TypeOK' /\ TaskMoves /\ TasksInv'

LEMMA StartBatchKeeps ==
  ASSUME BatchingInv, NEW b \in batches, StartBatch(b)
  PROVE  TaskKeeps
<1> DEFINE b2 == Batch(b.left, {}, 0, "ready")
<1>1. /\ b \in [left: SUBSET Requests, dups: SUBSET Requests,
                attempt: 0 .. MaxRetries, phase: {"spawned", "ready", "sent"}]
      /\ BatchInv(b) /\ MaxRetries \in Nat /\ TypeOK
  BY BatchFields
<1>2. /\ b2.left = b.left /\ b2.dups = {} /\ b2.attempt = 0 /\ b2.phase = "ready"
      /\ b2 \in [left: SUBSET Requests, dups: SUBSET Requests,
                 attempt: 0 .. MaxRetries, phase: {"spawned", "ready", "sent"}]
  BY <1>1, BatchMade
<1>3. /\ Becomes(b, b2) /\ Answer(b.dups, "duplicate") /\ b.phase = "spawned"
      /\ UNCHANGED <<open, shared, loop, calls, groups, sends>>
  BY DEF StartBatch
<1> HIDE DEF b2
<1>4. /\ reply' \in [Requests -> Outcomes \cup {"none", "duplicate"}]
      /\ \A r \in Requests : reply'[r] = IF r \in b.dups THEN "duplicate" ELSE reply[r]
  BY <1>1, <1>3, Answered
<1>5. TypeOK'
  BY <1>1, <1>2, <1>3, <1>4 DEF TypeOK, shared, loop, calls, Becomes
<1>6. BatchInv(b2)'
  BY <1>1, <1>2, <1>3 DEF BatchInv
<1>7. Of(b) \ b2.left = b.dups /\ b2.left \subseteq Of(b) /\ b.dups \subseteq Requests
  BY <1>1, <1>2 DEF BatchInv, Of
<1>8. UNCHANGED <<Lists, groups>>
  BY <1>3 DEF Lists, shared, loop
<1>9. \A r \in Requests : reply'[r] # reply[r] => r \in Of(b) \ b2.left
  BY <1>4, <1>7
<1>10. \A r \in Of(b) \ b2.left : reply'[r] # "none"
  BY <1>4, <1>7
<1>11. \A r \in Requests : sends'[r] # sends[r] => r \in b2.left
  BY <1>3
<1> QED
  BY <1>2, <1>3, <1>5, <1>6, <1>7, <1>8, <1>9, <1>10, <1>11, BatchStep DEF TaskKeeps

LEMMA SendBatchKeeps ==
  ASSUME BatchingInv, NEW b \in batches, SendBatch(b)
  PROVE  TaskKeeps
<1> DEFINE b2 == [b EXCEPT !.phase = "sent"]
<1>1. /\ b \in [left: SUBSET Requests, dups: SUBSET Requests,
                attempt: 0 .. MaxRetries, phase: {"spawned", "ready", "sent"}]
      /\ BatchInv(b) /\ MaxRetries \in Nat /\ TypeOK
  BY BatchFields
<1>2. /\ Becomes(b, b2) /\ Sent(b.left) /\ b.phase = "ready" /\ b.attempt < MaxRetries
      /\ UNCHANGED <<open, shared, loop, calls, reply, groups>>
  BY DEF SendBatch
<1>3. /\ b2.left = b.left /\ b2.dups = {} /\ b2.attempt = b.attempt /\ b2.phase = "sent"
      /\ b2 \in [left: SUBSET Requests, dups: SUBSET Requests,
                 attempt: 0 .. MaxRetries, phase: {"spawned", "ready", "sent"}]
  BY <1>1, <1>2 DEF BatchInv
<1> HIDE DEF b2
<1>4. \A r \in b.left : r \in Requests /\ sends[r] = b.attempt
  BY <1>1, <1>2 DEF BatchInv
<1>5. /\ sends' \in [Requests -> 0 .. MaxRetries + 1]
      /\ \A r \in Requests : sends'[r] = IF r \in b.left THEN sends[r] + 1 ELSE sends[r]
  <2>1. \A r \in Requests : r \in b.left => sends[r] <= MaxRetries
    BY <1>1, <1>2, <1>4
  <2> QED
    BY <1>1, <1>2, <2>1, OnceMore
<1>6. TypeOK'
  BY <1>1, <1>2, <1>3, <1>5 DEF TypeOK, shared, loop, calls, Becomes
<1>7. BatchInv(b2)'
  BY <1>1, <1>2, <1>3, <1>4, <1>5 DEF BatchInv
<1>8. Of(b) = b2.left /\ b.left = b2.left
  BY <1>1, <1>2, <1>3 DEF BatchInv, Of
<1>9. UNCHANGED <<Lists, groups, reply>>
  BY <1>2 DEF Lists, shared, loop
<1>10. \A r \in Requests : sends'[r] # sends[r] => r \in b2.left
  BY <1>5, <1>8
<1> QED
  BY <1>2, <1>3, <1>6, <1>7, <1>8, <1>9, <1>10, BatchStep DEF TaskKeeps

LEMMA LastAttemptKeeps ==
  ASSUME BatchingInv, NEW b \in batches, LastAttempt(b)
  PROVE  TaskKeeps
<1> DEFINE g2 == Group(b.left, {}, TRUE)
<1>1. /\ b \in [left: SUBSET Requests, dups: SUBSET Requests,
                attempt: 0 .. MaxRetries, phase: {"spawned", "ready", "sent"}]
      /\ BatchInv(b) /\ MaxRetries \in Nat /\ TypeOK
  BY BatchFields
<1>2. /\ FallBack(b, b.left) /\ b.phase = "ready" /\ b.attempt = MaxRetries
      /\ UNCHANGED <<open, shared, loop, calls, reply, sends>>
  BY DEF LastAttempt
<1>3. /\ g2.waiting = b.left /\ g2.sending = {}
      /\ g2 \in [waiting: SUBSET Requests, sending: SUBSET Requests, retry: BOOLEAN]
  BY <1>1 DEF Group
<1>4. batches' = batches \ {b} /\ groups' = groups \cup {g2}
  BY <1>2 DEF FallBack
<1> HIDE DEF g2
<1>5. TypeOK'
  BY <1>1, <1>2, <1>3, <1>4 DEF TypeOK, shared, loop, calls
<1>6. GroupInv(g2)'
  BY <1>1, <1>2, <1>3 DEF BatchInv, GroupInv
<1>7. b.dups = {} /\ UNCHANGED <<Lists, reply, sends>>
  BY <1>1, <1>2 DEF BatchInv, Lists, shared, loop
<1> QED
  BY <1>2, <1>5, <1>6, <1>7, FallBackStep DEF TaskKeeps, g2

LEMMA BatchResponseKeeps ==
  ASSUME BatchingInv, NEW b \in batches, BatchResponse(b)
  PROVE  TaskKeeps
<1>1. /\ b \in [left: SUBSET Requests, dups: SUBSET Requests,
                attempt: 0 .. MaxRetries, phase: {"spawned", "ready", "sent"}]
      /\ BatchInv(b) /\ MaxRetries \in Nat /\ TypeOK
  BY BatchFields
<1>2. PICK matched \in SUBSET b.left :
        /\ Answer(matched, "response")
        /\ IF matched = {} THEN FallBack(b, b.left)
           ELSE Becomes(b, Batch(b.left \ matched, {}, b.attempt + 1, "ready")) /\ UNCHANGED groups
  BY DEF BatchResponse
<1>3. b.phase = "sent" /\ UNCHANGED <<open, shared, loop, calls, sends>>
  BY DEF BatchResponse
<1>4. /\ b.dups = {} /\ b.attempt < MaxRetries
      /\ \A r \in b.left : r \in Requests /\ sends[r] = b.attempt + 1
  BY <1>1, <1>3 DEF BatchInv
<1>5. /\ reply' \in [Requests -> Outcomes \cup {"none", "duplicate"}]
      /\ \A r \in Requests : reply'[r] = IF r \in matched THEN "response" ELSE reply[r]
  <2>1. "response" \in Outcomes \cup {"duplicate"}
    BY BatchingAssumption
  <2> QED
    BY <1>1, <1>2, <2>1, Answered
<1>6. UNCHANGED <<Lists>>
  BY <1>3 DEF Lists, shared, loop
<1>7. CASE matched = {}
  <2> DEFINE g2 == Group(b.left, {}, TRUE)
  <2>1. /\ g2.waiting = b.left /\ g2.sending = {}
        /\ g2 \in [waiting: SUBSET Requests, sending: SUBSET Requests, retry: BOOLEAN]
    BY <1>1 DEF Group
  <2>2. batches' = batches \ {b} /\ groups' = groups \cup {g2} /\ FallBack(b, b.left)
    BY <1>2, <1>7 DEF FallBack
  <2> HIDE DEF g2
  <2>3. reply' = reply
    BY <1>1, <1>5, <1>7 DEF TypeOK
  <2>4. TypeOK'
    BY <1>1, <1>3, <2>1, <2>2, <2>3 DEF TypeOK, shared, loop, calls
  <2>5. GroupInv(g2)'
    BY <1>1, <1>3, <1>4, <2>1 DEF GroupInv
  <2> QED
    BY <1>3, <1>4, <1>6, <2>2, <2>3, <2>4, <2>5, FallBackStep DEF TaskKeeps, g2
<1>8. CASE matched # {}
  <2> DEFINE b2 == Batch(b.left \ matched, {}, b.attempt + 1, "ready")
  <2>1. b.attempt + 1 \in 0 .. MaxRetries /\ b.left \ matched \in SUBSET Requests
    BY <1>1, <1>4
  <2>2. /\ b2.left = b.left \ matched /\ b2.dups = {} /\ b2.attempt = b.attempt + 1
        /\ b2.phase = "ready"
        /\ b2 \in [left: SUBSET Requests, dups: SUBSET Requests,
                   attempt: 0 .. MaxRetries, phase: {"spawned", "ready", "sent"}]
    BY <2>1, BatchMade
  <2>3. Becomes(b, b2) /\ UNCHANGED groups
    BY <1>2, <1>8
  <2> HIDE DEF b2
  <2>4. TypeOK'
    BY <1>1, <1>3, <1>5, <2>2, <2>3 DEF TypeOK, shared, loop, calls, Becomes
  <2>5. BatchInv(b2)'
    BY <1>3, <1>4, <2>2 DEF BatchInv
  <2>6. Of(b) \ b2.left = matched /\ b2.left \subseteq Of(b) /\ matched \subseteq Requests
    BY <1>2, <1>4, <2>2 DEF Of
  <2>7. /\ \A r \in Requests : reply'[r] # reply[r] => r \in Of(b) \ b2.left
        /\ \A r \in Of(b) \ b2.left : reply'[r] # "none"
    BY <1>5, <2>6
  <2>8. \A r \in Requests : sends'[r] # sends[r] => r \in b2.left
    BY <1>3
  <2> QED
    BY <1>6, <2>2, <2>3, <2>4, <2>5, <2>6, <2>7, <2>8, BatchStep DEF TaskKeeps
<1> QED
  BY <1>7, <1>8

LEMMA BatchFailsKeeps ==
  ASSUME BatchingInv, NEW b \in batches, BatchFails(b)
  PROVE  TaskKeeps
<1> DEFINE b2 == Batch({}, {}, 0, "ready")
<1>1. /\ b \in [left: SUBSET Requests, dups: SUBSET Requests,
                attempt: 0 .. MaxRetries, phase: {"spawned", "ready", "sent"}]
      /\ BatchInv(b) /\ MaxRetries \in Nat /\ TypeOK
  BY BatchFields
<1>2. PICK o \in Outcomes \ {"response"} : Answer(b.left, o)
  BY DEF BatchFails
<1>3. /\ b.phase = "sent" /\ batches' = batches \ {b}
      /\ UNCHANGED <<open, shared, loop, calls, groups, sends>>
  BY DEF BatchFails
<1>4. b2.left = {} /\ b2.dups = {} /\ b2.phase = "ready"
  BY BatchMade
<1> HIDE DEF b2
<1>5. Becomes(b, b2)
  BY <1>3, <1>4 DEF Becomes
<1>6. /\ reply' \in [Requests -> Outcomes \cup {"none", "duplicate"}]
      /\ \A r \in Requests : reply'[r] = IF r \in b.left THEN o ELSE reply[r]
      /\ o # "none"
  BY <1>1, <1>2, Answered
<1>7. TypeOK'
  BY <1>1, <1>3, <1>6 DEF TypeOK, shared, loop, calls
<1>8. BatchInv(b2)'
  BY <1>4 DEF BatchInv
<1>9. Of(b) \ b2.left = b.left /\ b2.left \subseteq Of(b) /\ b.left \subseteq Requests
  BY <1>1, <1>3, <1>4 DEF BatchInv, Of
<1>10. UNCHANGED <<Lists, groups>>
  BY <1>3 DEF Lists, shared, loop
<1>11. /\ \A r \in Requests : reply'[r] # reply[r] => r \in Of(b) \ b2.left
       /\ \A r \in Of(b) \ b2.left : reply'[r] # "none"
  BY <1>6, <1>9
<1>12. \A r \in Requests : sends'[r] # sends[r] => r \in b2.left
  BY <1>3
<1> QED
  BY <1>4, <1>5, <1>7, <1>8, <1>9, <1>10, <1>11, <1>12, BatchStep DEF TaskKeeps

LEMMA GroupFields ==
  ASSUME BatchingInv, NEW g \in groups
  PROVE  /\ g \in [waiting: SUBSET Requests, sending: SUBSET Requests, retry: BOOLEAN]
         /\ GroupInv(g)
         /\ MaxRetries \in Nat
         /\ TypeOK
BY BatchingAssumption DEF BatchingInv, TypeOK, TasksInv

LEMMA SendOneKeeps ==
  ASSUME BatchingInv, NEW g \in groups, NEW r \in g.waiting, SendOne(g, r)
  PROVE  TaskKeeps
<1> DEFINE g2 == [g EXCEPT !.waiting = @ \ {r}, !.sending = @ \cup {r}]
<1>1. /\ g \in [waiting: SUBSET Requests, sending: SUBSET Requests, retry: BOOLEAN]
      /\ GroupInv(g) /\ MaxRetries \in Nat /\ TypeOK
  BY GroupFields
<1>2. /\ Regroup(g, g2) /\ Sent({r})
      /\ UNCHANGED <<open, shared, loop, calls, reply, batches>>
  BY DEF SendOne
<1>3. /\ g2.waiting = g.waiting \ {r} /\ g2.sending = g.sending \cup {r} /\ g2.retry = g.retry
      /\ g2 \in [waiting: SUBSET Requests, sending: SUBSET Requests, retry: BOOLEAN]
  BY <1>1
<1> HIDE DEF g2
<1>4. r \in Requests /\ sends[r] <= MaxRetries
  BY <1>1 DEF GroupInv
<1>5. /\ sends' \in [Requests -> 0 .. MaxRetries + 1]
      /\ \A q \in Requests : sends'[q] = IF q \in {r} THEN sends[q] + 1 ELSE sends[q]
  BY <1>1, <1>2, <1>4, OnceMore
<1>6. TypeOK'
  BY <1>1, <1>2, <1>3, <1>5 DEF TypeOK, shared, loop, calls, Regroup
<1>7. GroupInv(g2)'
  <2>1. \A q \in g2.waiting : q \in Requests /\ q \in g.waiting /\ sends'[q] = sends[q]
    BY <1>1, <1>3, <1>5
  <2> QED
    BY <1>1, <1>3, <2>1 DEF GroupInv
<1>8. In(g2) = In(g) /\ r \in In(g)
  BY <1>3 DEF In
<1>9. UNCHANGED <<Lists, batches, reply>>
  BY <1>2 DEF Lists, shared, loop
<1>10. \A q \in Requests : sends'[q] # sends[q] => q \in In(g2)
  BY <1>5, <1>8
<1> QED
  BY <1>2, <1>6, <1>7, <1>8, <1>9, <1>10, GroupStep DEF TaskKeeps

LEMMA OneReplyKeeps ==
  ASSUME BatchingInv, NEW g \in groups, NEW r \in g.sending, OneReply(g, r)
  PROVE  TaskKeeps
<1> DEFINE g2 == [g EXCEPT !.sending = @ \ {r}]
<1>1. /\ g \in [waiting: SUBSET Requests, sending: SUBSET Requests, retry: BOOLEAN]
      /\ GroupInv(g) /\ MaxRetries \in Nat /\ TypeOK
  BY GroupFields
<1>2. PICK o \in Outcomes : Answer({r}, o)
  BY DEF OneReply
<1>3. Regroup(g, g2) /\ UNCHANGED <<open, shared, loop, calls, batches, sends>>
  BY DEF OneReply
<1>4. /\ g2.waiting = g.waiting /\ g2.sending = g.sending \ {r} /\ g2.retry = g.retry
      /\ g2 \in [waiting: SUBSET Requests, sending: SUBSET Requests, retry: BOOLEAN]
  BY <1>1
<1> HIDE DEF g2
<1>5. /\ reply' \in [Requests -> Outcomes \cup {"none", "duplicate"}]
      /\ \A q \in Requests : reply'[q] = IF q \in {r} THEN o ELSE reply[q]
      /\ o # "none"
  BY <1>1, <1>2, Answered
<1>6. TypeOK'
  BY <1>1, <1>3, <1>4, <1>5 DEF TypeOK, shared, loop, calls, Regroup
<1>7. GroupInv(g2)'
  BY <1>1, <1>3, <1>4 DEF GroupInv
<1>8. In(g) \ In(g2) = {r} /\ In(g2) \subseteq In(g) /\ r \in Requests
  BY <1>1, <1>4 DEF GroupInv, In
<1>9. UNCHANGED <<Lists, batches>>
  BY <1>3 DEF Lists, shared, loop
<1>10. /\ \A q \in Requests : reply'[q] # reply[q] => q \in In(g) \ In(g2)
       /\ \A q \in In(g) \ In(g2) : reply'[q] # "none"
  BY <1>5, <1>8
<1>11. \A q \in Requests : sends'[q] # sends[q] => q \in In(g2)
  BY <1>3
<1> QED
  BY <1>3, <1>6, <1>7, <1>8, <1>9, <1>10, <1>11, GroupStep DEF TaskKeeps

LEMMA TaskStepKeeps ==
  ASSUME BatchingInv, TaskStep
  PROVE  /\ BatchingInv' /\ TaskMoves /\ UNCHANGED <<open, shared, loop, calls>>
         /\ UNCHANGED reply \/ UNCHANGED sends
<1>1. UNCHANGED <<open, shared, loop, calls>> /\ (UNCHANGED reply \/ UNCHANGED sends)
  BY DEF TaskStep, StartBatch, SendBatch, LastAttempt, BatchResponse, BatchFails, SendOne, OneReply
<1>2. TaskKeeps
  BY StartBatchKeeps, SendBatchKeeps, LastAttemptKeeps, BatchResponseKeeps, BatchFailsKeeps,
     SendOneKeeps, OneReplyKeeps DEF TaskStep
<1> QED
  BY <1>1, <1>2, TaskMovesKeep DEF TaskKeeps

-----------------------------------------------------------------------------
(* The steps that move requests to the list, and from the list to tasks.     *)

LEMMA PushKeeps ==
  ASSUME BatchingInv, NEW c \in Calls, Push(c)
  PROVE  /\ BatchingInv'
         /\ \A r \in Requests : Held(r)' <=> Held(r) \/ r \in ToSet(RequestsOf[c])
<1> DEFINE s == RequestsOf[c]
           new == ToSet(s)
<1>1. /\ TypeOK /\ LoopInv /\ TasksInv
      /\ \A d \in Calls : CallInv(d)
      /\ \A r \in Requests : RequestInv(r)
  BY DEF BatchingInv
<1>2. /\ pc[c] = "created" /\ pending' = pending \o s
      /\ notified' = (notified \/ Len(pending') >= MaxBatchSize)
      /\ pc' = [pc EXCEPT ![c] = "notify"]
      /\ UNCHANGED <<open, flusher, remaining, wokenBy, next, result, reply, batches, groups, sends>>
  BY DEF Push, Goto, loop, tasks
<1>3. /\ s \in Seq(Requests) /\ \A r : Once(s, r)
      /\ \A d \in Calls : \A r : r \in new /\ r \in ToSet(RequestsOf[d]) => d = c
  BY CallRequests
<1>4. pending \in Seq(Requests) /\ remaining \in Seq(Requests)
  BY <1>1 DEF TypeOK
<1> HIDE DEF s
<1>5. new \subseteq Requests
  BY <1>3, InSequence
<1>6. /\ pending' \in Seq(Requests) /\ ToSet(pending') = ToSet(pending) \cup new
      /\ \A r : Once(pending, r) /\ Once(s, r) /\ ~ (r \in ToSet(pending) /\ r \in new)
              => Once(pending', r)
  BY <1>2, <1>3, <1>4, Pushed
<1>7. \A d \in Calls : pc'[d] = IF d = c THEN "notify" ELSE pc[d]
  BY <1>1, <1>2 DEF TypeOK
<1> HIDE DEF new
<1>8. \A r \in new : r \in Requests /\ ~Held(r) /\ reply[r] = "none" /\ sends[r] = 0
  <2> SUFFICES ASSUME NEW r \in new PROVE r \in Requests /\ NotYet(r)
    BY <1>1 DEF RequestInv
  <2> QED
    BY <1>2, <1>5 DEF NotYet, new, s
<1>9. TypeOK'
  BY <1>1, <1>2, <1>6 DEF TypeOK
<1>10. \A r \in Requests : Held(r)' <=> Held(r) \/ r \in new
  BY <1>2, <1>6 DEF Held
<1>11. ASSUME NEW r \in Requests PROVE RequestInv(r)'
  <2>1. RequestInv(r)
    BY <1>1
  <2>2. Held(r)' <=> Held(r) \/ r \in new
    BY <1>10
  <2>3. /\ r \in ToSet(pending') <=> r \in ToSet(pending) \/ r \in new
        /\ r \in ToSet(remaining') <=> r \in ToSet(remaining)
    BY <1>2, <1>6
  <2>4. r \in new => /\ r \notin ToSet(pending) /\ r \notin ToSet(remaining)
                     /\ \A b \in batches : r \notin Of(b)
                     /\ \A g \in groups : r \notin In(g)
                     /\ ~Held(r) /\ reply[r] = "none" /\ sends[r] = 0
    <3>1. r \in new => ~Held(r)
      BY <1>8
    <3>2. ~Held(r) => /\ r \notin ToSet(pending) /\ r \notin ToSet(remaining)
                      /\ \A b \in batches : r \notin Of(b)
                      /\ \A g \in groups : r \notin In(g)
      BY DEF Held, Of, In
    <3> QED
      BY <1>8, <3>1, <3>2
  <2>5. NotYet(r)' => NotYet(r) /\ r \notin new
    <3>1. ASSUME NotYet(r)' PROVE NotYet(r) /\ r \notin new
      <4>1. PICK d \in Calls : pc'[d] \in {"new", "created"} /\ r \in ToSet(RequestsOf[d])
        BY <3>1 DEF NotYet
      <4>2. d # c
        BY <1>7, <4>1
      <4> QED
        BY <1>3, <1>7, <4>1, <4>2 DEF NotYet
    <3> QED
      BY <3>1
  <2>6. Once(pending, r)' /\ Once(remaining, r)'
    <3>1. Once(pending, r) /\ Once(remaining, r)
      BY <2>1 DEF RequestInv
    <3>2. Once(pending', r)
      BY <1>3, <1>6, <2>4, <3>1
    <3> QED
      BY <1>2, <3>1, <3>2 DEF Once
  <2>7. OneHolder(r)'
    <3>1. OneHolder(r)
      BY <2>1 DEF RequestInv
    <3> QED
      BY <1>2, <2>3, <2>4, <3>1 DEF OneHolder
  <2> QED
    BY <1>2, <2>1, <2>2, <2>3, <2>4, <2>5, <2>6, <2>7 DEF RequestInv
<1>12. ASSUME NEW d \in Calls PROVE CallInv(d)'
  <2>1. CallInv(d) /\ ToSet(RequestsOf[d]) \subseteq Requests
    BY <1>1, CallRequests, InSequence
  <2>2. ToSet(RequestsOf[c]) = new
    BY DEF new, s
  <2> QED
    BY <1>2, <1>7, <1>10, <2>1, <2>2 DEF CallInv, Panicked, Awaited
<1>13. TasksInv'
  BY <1>1, <1>2 DEF TasksInv, BatchInv, GroupInv
<1>14. LoopInv'
  <2>1. Running(c) /\ flusher # "exited"
    BY <1>1, <1>2 DEF LoopInv, Running
  <2> QED
    BY <1>1, <1>2, <2>1 DEF LoopInv
<1> QED
  BY <1>9, <1>10, <1>11, <1>12, <1>13, <1>14 DEF BatchingInv, new, s

LEMMA DrainKeeps ==
  ASSUME BatchingInv, Drain
  PROVE  BatchingInv' /\ \A r \in Requests : Held(r)' <=> Held(r)
<1>1. /\ TypeOK /\ LoopInv /\ TasksInv
      /\ \A d \in Calls : CallInv(d)
      /\ \A r \in Requests : RequestInv(r)
  BY DEF BatchingInv
<1>2. /\ flusher = "drain" /\ wokenBy' = "none"
      /\ UNCHANGED <<open, notified, pc, next, result, reply, batches, groups, sends>>
  BY DEF Drain, calls, tasks
<1>3. remaining = <<>> /\ ToSet(<<>>) = {} /\ \A r : Once(<<>>, r)
  BY <1>1, <1>2, EmptyHasNone DEF LoopInv
<1>4. \/ flusher' = "upgrade" /\ pending' = <<>> /\ remaining' = <<>> /\ pending = <<>>
      \/ flusher' = "spawn" /\ pending' = <<>> /\ remaining' = pending
  BY <1>3 DEF Drain
<1>5. TypeOK'
  <2>1. <<>> \in Seq(Requests)
    BY EmptySeq
  <2> QED
    BY <1>1, <1>2, <1>4, <2>1 DEF TypeOK
<1>6. ASSUME NEW r \in Requests
      PROVE  /\ Held(r)' <=> Held(r)
             /\ RequestInv(r)'
  <2>1. RequestInv(r)
    BY <1>1
  <2>2. /\ r \notin ToSet(pending') /\ r \notin ToSet(remaining)
        /\ r \in ToSet(remaining') <=> r \in ToSet(pending)
        /\ Once(pending', r)
        /\ Once(pending, r) => Once(remaining', r)
    BY <1>3, <1>4
  <2>3. Held(r)' <=> Held(r)
    BY <1>2, <2>2 DEF Held
  <2>4. NotYet(r)' <=> NotYet(r)
    BY <1>2 DEF NotYet
  <2>5. OneHolder(r)'
    BY <1>2, <2>1, <2>2 DEF RequestInv, OneHolder
  <2>6. Once(pending, r)' /\ Once(remaining, r)'
    BY <2>1, <2>2 DEF RequestInv, Once
  <2> QED
    BY <1>2, <2>1, <2>2, <2>3, <2>4, <2>5, <2>6 DEF RequestInv
<1>7. ASSUME NEW d \in Calls PROVE CallInv(d)'
  <2>1. CallInv(d) /\ ToSet(RequestsOf[d]) \subseteq Requests
    BY <1>1, CallRequests, InSequence
  <2> QED
    BY <1>2, <1>6, <2>1 DEF CallInv, Panicked, Awaited
<1>8. TasksInv'
  BY <1>1, <1>2 DEF TasksInv, BatchInv, GroupInv
<1>9. LoopInv'
  BY <1>1, <1>2, <1>4 DEF LoopInv
<1> QED
  BY <1>5, <1>6, <1>7, <1>8, <1>9 DEF BatchingInv

LEMMA SpawnChunkKeeps ==
  ASSUME BatchingInv, SpawnChunk
  PROVE  BatchingInv' /\ \A r \in Requests : Held(r)' <=> Held(r)
<1> DEFINE chunk == FirstChunk(remaining)
           rest  == AfterChunk(remaining)
           dups  == Duplicates(chunk)
           K     == ToSet(chunk)
           g0    == Group(K, {}, FALSE)
           b0    == Batch(K \ dups, dups, 0, "spawned")
<1>1. /\ TypeOK /\ LoopInv /\ TasksInv
      /\ \A d \in Calls : CallInv(d)
      /\ \A r \in Requests : RequestInv(r)
  BY DEF BatchingInv
<1>2. /\ flusher = "spawn" /\ flusher' = (IF remaining' = <<>> THEN "upgrade" ELSE "spawn")
      /\ remaining' = rest
      /\ UNCHANGED <<open, pending, notified, wokenBy, pc, next, result, reply, sends>>
  BY DEF SpawnChunk, shared, calls
<1>3. \/ groups' = groups \cup {g0} /\ batches' = batches
      \/ batches' = batches \cup {b0} /\ groups' = groups
  BY DEF SpawnChunk
<1>4. remaining \in Seq(Requests)
  BY <1>1 DEF TypeOK
<1>5. /\ chunk \in Seq(Requests) /\ rest \in Seq(Requests)
      /\ ToSet(remaining) = K \cup ToSet(rest)
      /\ \A r : Once(remaining, r) => Once(rest, r) /\ ~ (r \in K /\ r \in ToSet(rest))
  BY <1>4, Chunks
<1>6. dups \subseteq K /\ K \subseteq Requests
  BY <1>5, DuplicatesAreOfChunk, InSequence
<1> HIDE DEF chunk, rest, dups
<1>7. /\ g0.waiting = K /\ g0.sending = {} /\ g0.retry = FALSE /\ In(g0) = K
      /\ g0 \in [waiting: SUBSET Requests, sending: SUBSET Requests, retry: BOOLEAN]
  BY <1>6 DEF Group, In
<1>8. /\ b0.left = K \ dups /\ b0.dups = dups /\ b0.attempt = 0 /\ b0.phase = "spawned"
      /\ b0 \in [left: SUBSET Requests, dups: SUBSET Requests,
                 attempt: 0 .. MaxRetries, phase: {"spawned", "ready", "sent"}]
  <2>1. K \ dups \in SUBSET Requests /\ dups \in SUBSET Requests /\ 0 \in 0 .. MaxRetries
    BY <1>6, BatchingAssumption
  <2> QED
    BY <2>1, BatchMade
<1> HIDE DEF g0, b0, K
<1>9. Of(b0) = K
  BY <1>6, <1>8 DEF Of
<1>n. PICK gn, bn : gn = g0 /\ bn = b0
  OBVIOUS
<1>10. \A r \in K : /\ r \in Requests /\ r \in ToSet(remaining) /\ r \notin ToSet(rest)
                    /\ sends[r] = 0 /\ Held(r) /\ r \notin ToSet(pending)
                    /\ \A b \in batches : r \notin Of(b)
                    /\ \A g \in groups : r \notin In(g)
  <2> SUFFICES ASSUME NEW r \in K
               PROVE  /\ r \in Requests /\ r \in ToSet(remaining) /\ r \notin ToSet(rest)
                      /\ sends[r] = 0 /\ Held(r) /\ r \notin ToSet(pending)
                      /\ \A b \in batches : r \notin Of(b)
                      /\ \A g \in groups : r \notin In(g)
    OBVIOUS
  <2>1. r \in Requests /\ r \in ToSet(remaining)
    BY <1>5, <1>6
  <2>2. RequestInv(r)
    BY <1>1, <2>1
  <2> QED
    BY <1>5, <2>1, <2>2 DEF RequestInv, OneHolder, Held
<1>11. TypeOK'
  BY <1>1, <1>2, <1>3, <1>5, <1>7, <1>8 DEF TypeOK
<1>12. TasksInv'
  <2>1. BatchInv(bn)'
    <3>1. bn.left \cap bn.dups = {} /\ bn.phase = "spawned" /\ bn.attempt = 0
      BY <1>8, <1>n
    <3>2. \A r \in bn.left : sends'[r] = 0
      BY <1>2, <1>8, <1>10, <1>n
    <3> QED
      BY <3>1, <3>2 DEF BatchInv
  <2>2. GroupInv(gn)'
    <3>1. \A r \in gn.waiting : sends'[r] = 0
      BY <1>2, <1>7, <1>10, <1>n
    <3>2. gn.sending = {} /\ gn.retry = FALSE /\ MaxRetries \in Nat
      BY <1>7, <1>n, BatchingAssumption
    <3> QED
      BY <3>1, <3>2 DEF GroupInv
  <2>3. \A b \in batches : BatchInv(b)'
    BY <1>1, <1>2 DEF TasksInv, BatchInv
  <2>4. \A g \in groups : GroupInv(g)'
    BY <1>1, <1>2 DEF TasksInv, GroupInv
  <2> QED
    BY <1>3, <1>n, <2>1, <2>2, <2>3, <2>4 DEF TasksInv
<1>13. ASSUME NEW r \in Requests
       PROVE  /\ Held(r)' <=> Held(r)
              /\ RequestInv(r)'
  <2>1. RequestInv(r)
    BY <1>1
  <2>2. /\ r \in ToSet(remaining) <=> r \in K \/ r \in ToSet(rest)
        /\ r \in ToSet(remaining') <=> r \in ToSet(rest)
        /\ r \in ToSet(pending') <=> r \in ToSet(pending)
        /\ Once(remaining, r) => Once(rest, r)
    BY <1>2, <1>5
  <2>3. Held(r) <=> \/ r \in ToSet(pending) \/ r \in ToSet(remaining)
                    \/ \E b \in batches : r \in Of(b)
                    \/ \E g \in groups : r \in In(g)
    BY DEF Held, Of, In
  <2>4. Held(r)' <=> \/ r \in ToSet(pending') \/ r \in ToSet(remaining')
                     \/ \E b \in batches' : r \in Of(b)
                     \/ \E g \in groups' : r \in In(g)
    BY DEF Held, Of, In
  <2>5. Held(r)' <=> Held(r)
    BY <1>3, <1>7, <1>9, <2>2, <2>3, <2>4
  <2>6. OneHolder(r)'
    <3>1. OneHolder(r)
      BY <2>1 DEF RequestInv
    <3>2. CASE groups' = groups \cup {g0} /\ batches' = batches
      BY <1>7, <1>10, <2>2, <3>1, <3>2 DEF OneHolder
    <3>3. CASE batches' = batches \cup {b0} /\ groups' = groups
      BY <1>9, <1>10, <2>2, <3>1, <3>3 DEF OneHolder
    <3> QED
      BY <1>3, <3>2, <3>3
  <2>7. NotYet(r)' <=> NotYet(r)
    BY <1>2 DEF NotYet
  <2>8. Once(pending, r)' /\ Once(remaining, r)'
    BY <1>2, <2>1, <2>2 DEF RequestInv, Once
  <2> QED
    BY <1>2, <2>1, <2>2, <2>5, <2>6, <2>7, <2>8 DEF RequestInv
<1>14. ASSUME NEW d \in Calls PROVE CallInv(d)'
  <2>1. CallInv(d) /\ ToSet(RequestsOf[d]) \subseteq Requests
    BY <1>1, CallRequests, InSequence
  <2> QED
    BY <1>2, <1>13, <2>1 DEF CallInv, Panicked, Awaited
<1>15. LoopInv'
  BY <1>1, <1>2 DEF LoopInv
<1> QED
  BY <1>11, <1>12, <1>13, <1>14, <1>15 DEF BatchingInv

-----------------------------------------------------------------------------
(* The invariant.                                                            *)

LEMMA InitHasInv == Init => BatchingInv
<1> SUFFICES ASSUME Init PROVE BatchingInv
  OBVIOUS
<1>1. <<>> \in Seq(Requests) /\ ToSet(<<>>) = {} /\ \A r : Once(<<>>, r)
  BY EmptySeq, EmptyHasNone
<1>2. TypeOK
  <2>1. 0 \in 0 .. MaxRetries + 1 /\ 1 \in Nat \ {0}
    BY BatchingAssumption
  <2>2. sends \in [Requests -> 0 .. MaxRetries + 1] /\ next \in [Calls -> Nat \ {0}]
    BY <2>1 DEF Init
  <2> QED
    BY <1>1, <2>2 DEF Init, TypeOK
<1>3. \A r \in Requests : RequestInv(r)
  BY <1>1 DEF Init, RequestInv, OneHolder, Held
<1>4. LoopInv /\ TasksInv /\ \A c \in Calls : CallInv(c)
  BY DEF Init, LoopInv, TasksInv, CallInv
<1> QED
  BY <1>2, <1>3, <1>4 DEF BatchingInv

LEMMA StepKeepsInv == BatchingInv /\ [Next]_vars => BatchingInv'
<1> SUFFICES ASSUME BatchingInv, [Next]_vars PROVE BatchingInv'
  OBVIOUS
<1>1. ASSUME NEW c \in Calls, Create(c) \/ CallStep(c) \/ Cancel(c) PROVE BatchingInv'
  BY <1>1, CallStepsKeep, PushKeeps DEF CallStep
<1>2. CASE LoopStep
  BY <1>2, LoopStepsKeep, DrainKeeps, SpawnChunkKeeps DEF LoopStep
<1>3. CASE TaskStep
  BY <1>3, TaskStepKeeps
<1>4. CASE Close \/ Stopped \/ UNCHANGED vars
  BY <1>4, LoopStepsKeep DEF Stopped
<1> QED
  BY <1>1, <1>2, <1>3, <1>4 DEF Next

LEMMA AlwaysInv == Spec => []BatchingInv
<1> QED
  BY InitHasInv, StepKeepsInv, PTL DEF Spec

-----------------------------------------------------------------------------
(* What the invariant says of the requests and their callers.                *)

LEMMA OnePlace ==
  ASSUME NEW r \in Requests, RequestInv(r), TypeOK
  PROVE  /\ Held(r) <=> Places(r) # {}
         /\ Cardinality(Places(r)) <= (IF reply[r] = "none" THEN 1 ELSE 0)
<1>1. pending \in Seq(Requests) /\ remaining \in Seq(Requests)
  BY DEF TypeOK
<1>2. /\ \A x \in Places(r) : \/ \E i \in 1 .. Len(pending) : x = <<"pending", i>> /\ pending[i] = r
                              \/ \E i \in 1 .. Len(remaining) :
                                   x = <<"remaining", i>> /\ remaining[i] = r
                              \/ \E b \in batches : x = <<"batch", b>> /\ r \in Of(b)
                              \/ \E g \in groups : x = <<"group", g>> /\ r \in In(g)
      /\ \A i \in 1 .. Len(pending) : pending[i] = r => <<"pending", i>> \in Places(r)
      /\ \A i \in 1 .. Len(remaining) : remaining[i] = r => <<"remaining", i>> \in Places(r)
      /\ \A b \in batches : r \in Of(b) => <<"batch", b>> \in Places(r)
      /\ \A g \in groups : r \in In(g) => <<"group", g>> \in Places(r)
  BY DEF Places, Of, In
<1>3. /\ r \in ToSet(pending) <=> \E i \in 1 .. Len(pending) : pending[i] = r
      /\ r \in ToSet(remaining) <=> \E i \in 1 .. Len(remaining) : remaining[i] = r
  BY <1>1, InSequence
<1>4. Held(r) <=> \/ r \in ToSet(pending) \/ r \in ToSet(remaining)
                  \/ \E b \in batches : r \in Of(b)
                  \/ \E g \in groups : r \in In(g)
  BY DEF Held, Of, In
<1>5. Held(r) <=> Places(r) # {}
  <2>1. Held(r) => Places(r) # {}
    BY <1>2, <1>3, <1>4
  <2>2. ASSUME NEW x \in Places(r) PROVE Held(r)
    BY <1>2, <1>3, <1>4
  <2> QED
    BY <2>1, <2>2
<1>6. \A x, y \in Places(r) : x = y
  <2> SUFFICES ASSUME NEW x \in Places(r), NEW y \in Places(r) PROVE x = y
    OBVIOUS
  <2>1. /\ Once(pending, r) /\ Once(remaining, r) /\ OneHolder(r)
    BY DEF RequestInv
  <2>2. CASE \E i \in 1 .. Len(pending) : x = <<"pending", i>> /\ pending[i] = r
    BY <1>2, <1>3, <2>1, <2>2 DEF Once, OneHolder
  <2>3. CASE \E i \in 1 .. Len(remaining) : x = <<"remaining", i>> /\ remaining[i] = r
    BY <1>2, <1>3, <2>1, <2>3 DEF Once, OneHolder
  <2>4. CASE \E b \in batches : x = <<"batch", b>> /\ r \in Of(b)
    BY <1>2, <1>3, <2>1, <2>4 DEF OneHolder
  <2>5. CASE \E g \in groups : x = <<"group", g>> /\ r \in In(g)
    BY <1>2, <1>3, <2>1, <2>5 DEF OneHolder
  <2> QED
    BY <1>2, <2>2, <2>3, <2>4, <2>5
<1>7. CASE Places(r) = {}
  BY <1>5, <1>7, FS_EmptySet
<1>8. CASE Places(r) # {}
  <2>1. PICK x : Places(r) = {x}
    BY <1>6, <1>8
  <2>2. Cardinality({x}) = 1
    BY FS_Singleton
  <2>3. reply[r] = "none"
    BY <1>5, <1>8 DEF RequestInv
  <2> QED
    BY <1>5, <1>8, <2>1, <2>2, <2>3
<1> QED
  BY <1>7, <1>8

\* What the running transport keeps, and who has which request, have their types
\* throughout: no request is ever given to the inner transport more than
\* max_missing_retries + 1 times, and no batch counts more attempts than that.
THEOREM BatchingTypes == Spec => []TypeOK
<1>1. BatchingInv => TypeOK
  BY DEF BatchingInv
<1> QED
  BY <1>1, AlwaysInv, PTL

\* The flush, the chunks and the retries neither lose nor duplicate a request:
\* until it is answered it is in one place, and then in none.
THEOREM RequestsHaveOneOwner == Spec => []OneOwner
<1>1. BatchingInv => OneOwner
  <2> SUFFICES ASSUME BatchingInv PROVE OneOwner
    OBVIOUS
  <2>1. \A r \in Requests : /\ Held(r) <=> Places(r) # {}
                            /\ Cardinality(Places(r)) <= (IF reply[r] = "none" THEN 1 ELSE 0)
    BY OnePlace DEF BatchingInv
  <2>2. \A c \in Calls : ToSet(RequestsOf[c]) \subseteq Requests /\ CallInv(c)
    BY CallRequests, InSequence DEF BatchingInv
  <2> QED
    BY <2>1, <2>2 DEF OneOwner, CallInv
<1> QED
  BY <1>1, AlwaysInv, PTL

\* The flush loop ends only when no call can come or waits.
THEOREM NoCallIsStranded == Spec => []NoneStranded
<1>1. BatchingInv => NoneStranded
  BY DEF BatchingInv, LoopInv, NoneStranded
<1> QED
  BY <1>1, AlwaysInv, PTL

\* A call gets backend_gone only for a request the inner transport panicked on: on
\* no way through the flush, the chunks, duplicate ids and retries is a sender lost.
THEOREM GoneIsAPanic == Spec => []GoneOnlyByPanic
<1>1. BatchingInv => GoneOnlyByPanic
  BY DEF BatchingInv, CallInv, Panicked, Awaited, GoneOnlyByPanic
<1> QED
  BY <1>1, AlwaysInv, PTL

\* The tasks of the last attempt only have requests that went out in a batch
\* before, if any retry is allowed at all.
THEOREM BatchesComeFirst == Spec => []BatchComesFirst
<1>1. BatchingInv => BatchComesFirst
  BY DEF BatchingInv, TasksInv, GroupInv, BatchComesFirst
<1> QED
  BY <1>1, AlwaysInv, PTL

-----------------------------------------------------------------------------
(* The transport keeps the promise of Delivery.                              *)

LEMMA InitDelivers == Init => D!Init
<1> SUFFICES ASSUME Init PROVE D!Init
  OBVIOUS
<1>1. \A r \in Requests : Phase(r) = "new"
  BY EmptyHasNone DEF Init, Phase, Held
<1> QED
  BY <1>1 DEF Init, D!Init

LEMMA StepDelivers == BatchingInv /\ BatchingInv' /\ [Next]_vars => [D!Next]_(D!vars)
<1> SUFFICES ASSUME BatchingInv, BatchingInv', [Next]_vars PROVE [D!Next]_(D!vars)
  OBVIOUS
<1> DEFINE phase == [r \in Requests |-> Phase(r)]
<1>1. /\ \A r \in Requests : phase[r] = Phase(r) /\ phase'[r] = Phase(r)'
      /\ DOMAIN phase' = Requests
  OBVIOUS
<1>2. /\ sends \in [Requests -> 0 .. MaxRetries + 1] /\ sends' \in [Requests -> 0 .. MaxRetries + 1]
      /\ MaxRetries \in Nat
  BY BatchingAssumption DEF BatchingInv, TypeOK
<1>3. \A r \in Requests : Phase(r) = IF reply[r] # "none" THEN "answered"
                                     ELSE IF Held(r) THEN "open" ELSE "new"
  BY DEF Phase
<1>4. \A r \in Requests : Phase(r)' = IF reply'[r] # "none" THEN "answered"
                                      ELSE IF Held(r)' THEN "open" ELSE "new"
  BY DEF Phase
<1>5. \A r \in Requests : reply[r] # "none" => ~Held(r)
  BY DEF BatchingInv, RequestInv
<1>6. ASSUME UNCHANGED <<reply, sends>>, \A r \in Requests : Held(r)' <=> Held(r)
      PROVE  UNCHANGED D!vars
  <2>1. \A r \in Requests : Phase(r)' = Phase(r)
    BY <1>3, <1>4, <1>6
  <2>2. phase' = phase
    BY <2>1
  <2> QED
    BY <1>6, <2>2 DEF D!vars
<1>7. ASSUME UNCHANGED <<Requested>> PROVE UNCHANGED D!vars
  <2>1. \A r \in Requests : Held(r)' <=> Held(r)
    BY <1>7 DEF Requested, Lists, Held
  <2> QED
    BY <1>6, <1>7, <2>1 DEF Requested
<1>8. ASSUME NEW c \in Calls, Push(c) PROVE D!Next
  <2>1. UNCHANGED <<reply, sends>>
    BY <1>8 DEF Push, tasks
  <2>2. \A r \in Requests : Held(r)' <=> Held(r) \/ r \in ToSet(RequestsOf[c])
    BY <1>8, PushKeeps
  <2>3. \A r \in Requests : phase'[r] # phase[r] => phase[r] = "new" /\ phase'[r] = "open"
    BY <1>1, <1>3, <1>4, <2>1, <2>2
  <2> QED
    BY <1>1, <2>1, <2>3 DEF D!Next, D!Submit, D!Move
<1>9. ASSUME NEW c \in Calls, Create(c) \/ CallStep(c) \/ Cancel(c) PROVE [D!Next]_(D!vars)
  <2>1. CASE Push(c)
    BY <1>8, <2>1
  <2>2. CASE ~Push(c)
    <3>1. UNCHANGED <<Requested>>
      BY <1>9, <2>2 DEF CallStep, Create, NotifyOne, Receive, ReceivedAll, Cancel, Requested,
                        Lists, shared, loop, tasks
    <3> QED
      BY <1>7, <3>1
  <2> QED
    BY <2>1, <2>2
<1>10. CASE LoopStep
  <2>1. CASE Drain
    <3>1. UNCHANGED <<reply, sends>>
      BY <2>1 DEF Drain, tasks
    <3> QED
      BY <1>6, <2>1, <3>1, DrainKeeps
  <2>2. CASE SpawnChunk
    <3>1. UNCHANGED <<reply, sends>>
      BY <2>2 DEF SpawnChunk
    <3> QED
      BY <1>6, <2>2, <3>1, SpawnChunkKeeps
  <2>3. CASE Upgrade \/ Wake
    <3>1. UNCHANGED <<Requested>>
      BY <2>3 DEF Upgrade, Wake, Requested, Lists, shared, tasks
    <3> QED
      BY <1>7, <3>1
  <2> QED
    BY <1>10, <2>1, <2>2, <2>3 DEF LoopStep
<1>11. CASE TaskStep
  <2>1. TaskMoves /\ (UNCHANGED reply \/ UNCHANGED sends)
    BY <1>11, TaskStepKeeps
  <2>2. \A r \in Requests : /\ Held(r)' => Held(r) /\ reply'[r] = reply[r]
                            /\ Held(r) /\ ~Held(r)' => reply'[r] # "none"
                            /\ ~Held(r) => reply'[r] = reply[r]
                            /\ sends'[r] # sends[r] => Held(r)'
    BY <2>1 DEF TaskMoves
  <2>3. CASE UNCHANGED sends
    <3>1. \A r \in Requests : phase'[r] # phase[r] => phase[r] = "open" /\ phase'[r] = "answered"
      BY <1>1, <1>3, <1>4, <1>5, <2>2
    <3> QED
      BY <1>1, <2>3, <3>1 DEF D!Next, D!Answer, D!Move
  <2>4. CASE UNCHANGED reply /\ ~UNCHANGED sends
    <3>1. \A r \in Requests : Held(r)' <=> Held(r)
      BY <1>5, <2>2, <2>4
    <3>2. phase' = phase
      <4>1. \A r \in Requests : Phase(r)' = Phase(r)
        BY <1>3, <1>4, <2>4, <3>1
      <4> QED
        BY <4>1
    <3>3. \A r \in Requests : sends'[r] # sends[r] => sends'[r] = sends[r] + 1
      <4>1. \E R : Sent(R)
        BY <1>11, <2>4 DEF TaskStep, StartBatch, SendBatch, LastAttempt, BatchResponse, BatchFails,
                           SendOne, OneReply
      <4> QED
        BY <4>1 DEF Sent
    <3>4. \A r \in Requests : sends'[r] # sends[r] => phase[r] = "open" /\ sends[r] < MaxRetries + 1
      <4> SUFFICES ASSUME NEW r \in Requests, sends'[r] # sends[r]
                   PROVE  phase[r] = "open" /\ sends[r] < MaxRetries + 1
        OBVIOUS
      <4>1. sends'[r] = sends[r] + 1 /\ sends'[r] <= MaxRetries + 1 /\ sends[r] \in Nat
        BY <1>2, <3>3
      <4>2. Held(r)
        BY <2>2
      <4> QED
        BY <1>1, <1>2, <1>3, <1>5, <4>1, <4>2
    <3>5. DOMAIN sends' = Requests
      BY <1>2
    <3> QED
      BY <3>2, <3>3, <3>4, <3>5 DEF D!Next, D!Transmit
  <2> QED
    BY <2>1, <2>3, <2>4
<1>12. CASE Close \/ Stopped \/ UNCHANGED vars
  <2>1. UNCHANGED <<Requested>>
    BY <1>12 DEF Close, Stopped, vars, Requested, Lists, shared, loop, tasks
  <2> QED
    BY <1>7, <2>1
<1> QED
  BY <1>9, <1>10, <1>11, <1>12 DEF Next

\* However requests are batched, retried and sent one by one, each goes out at
\* most max_missing_retries + 1 times, gets one answer, and does not go out again
\* once it has its answer.
THEOREM BatchingImplementsDelivery == Spec => ImplementsDelivery
<1>1. Init => D!Init
  BY InitDelivers
<1>2. BatchingInv /\ BatchingInv' /\ [Next]_vars => [D!Next]_(D!vars)
  BY StepDelivers
<1> QED
  BY <1>1, <1>2, AlwaysInv, PTL DEF Spec, ImplementsDelivery, D!Spec
=============================================================================
