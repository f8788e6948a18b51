------------------------------ MODULE Batching ------------------------------
(***************************************************************************)
(* BatchingTransport (src/src/batching.rs): calls push their requests on a *)
(* shared list; a background flush loop drains the list and hands it out   *)
(* in chunks to spawned tasks; a batch task retries the requests the       *)
(* provider leaves out and sends what is left one by one.                  *)
(*                                                                         *)
(* One action is the code between two await points, or between two places  *)
(* another thread can see: the lock on pending, the Notify permit.  Tasks  *)
(* run on other threads as soon as they are spawned.  The inner transport  *)
(* is any Service: it may answer, fail or panic, which drops the senders   *)
(* of the task.  A call whose sender was dropped, by a panic or because no *)
(* list and no task keeps its request any more, gets backend_gone.  Time   *)
(* is left out: the timer of the flush loop may fire whenever it waits.    *)
(***************************************************************************)
EXTENDS Integers, FiniteSets, SequencesExt

CONSTANTS
  Calls,               \* the futures returned by call()
  Requests,            \* the requests in them, each with a channel of its own
  RequestsOf,          \* call -> its requests: one for a Single, any for a Batch
  SingleCalls,         \* the calls made with a RequestPacket::Single
  IdOf,                \* request -> its JSON-RPC id
  MaxBatchSize,        \* max_batch_size
  MaxRetries,          \* max_missing_retries
  FallbackConcurrency, \* INDIVIDUAL_FALLBACK_CONCURRENCY
  Outcomes             \* of the inner transport: "response", failures

ASSUME BatchingAssumption ==
  /\ IsFiniteSet(Requests)
  /\ RequestsOf \in [Calls -> Seq(Requests)]
  /\ \A c, d \in Calls : \A i \in DOMAIN RequestsOf[c], j \in DOMAIN RequestsOf[d] :
       RequestsOf[c][i] = RequestsOf[d][j] => c = d /\ i = j
  /\ \A c \in SingleCalls : Len(RequestsOf[c]) = 1
  /\ MaxBatchSize \in Nat \ {0}
  /\ MaxRetries \in Nat
  /\ FallbackConcurrency \in Nat \ {0}
  /\ Outcomes \subseteq {"response", "error", "panic"}
  /\ "response" \in Outcomes

VARIABLES
  open,       \* some BatchingTransport clone is alive
  pending,    \* the requests waiting to be flushed
  notified,   \* the permit stored in the Notify
  flusher,    \* where the flush loop is
  remaining,  \* the drained requests not yet handed out
  wokenBy,    \* history: what ended the flush loop's last wait
  pc,         \* call -> where it is
  next,       \* call -> index of the receiver it awaits
  result,     \* call -> what it returned
  reply,      \* request -> what was sent through its oneshot channel, or "panic"
              \* if the sender was dropped by a task that panicked
  batches,    \* the running send_batch_with_retry tasks
  groups,     \* the tasks sending requests one by one, grouped by semaphore
  sends       \* history: request -> how often the inner transport was given it

\* BatchingShared: what the calls and the flush loop share.
shared == <<pending, notified>>
calls == <<pc, next, result>>
loop  == <<flusher, remaining, wokenBy>>
tasks == <<batches, groups, sends>>
vars  == <<open, shared, loop, calls, reply, tasks>>

\* Each call's future and, while it waits, the flush loop hold the shared state.
Running(c) == pc[c] \in {"created", "notify", "await"}
FlusherHolds == flusher \in {"wait", "drain"}

\* Faulty variant: a call's future does not keep the shared state alive.
AliveByHandles == open \/ FlusherHolds
Alive == open \/ FlusherHolds \/ \E c \in Calls : Running(c)

Goto(c, label) == pc' = [pc EXCEPT ![c] = label]
Return(c, r) == Goto(c, "returned") /\ result' = [result EXCEPT ![c] = r]

\* tx.send for every request of R, where sending to a dropped receiver is ignored,
\* or the drop of all their senders in a panic.
Answer(R, r) == reply' = [q \in Requests |-> IF q \in R THEN r ELSE reply[q]]
Sent(R) == sends' = [q \in Requests |-> IF q \in R THEN sends[q] + 1 ELSE sends[q]]

\* A batch task: requests without an answer, earlier ones with an id of a later.
Batch(left, dups, attempt, phase) ==
  [left |-> left, dups |-> dups, attempt |-> attempt, phase |-> phase]
\* Tasks that send one request each and share a semaphore.
Group(waiting, sending, retry) ==
  [waiting |-> waiting, sending |-> sending, retry |-> retry]

\* The sender of a request lives in the list or with the task that holds it.
Held(r) ==
  \/ r \in ToSet(pending) \/ r \in ToSet(remaining)
  \/ \E b \in batches : r \in b.left \/ r \in b.dups
  \/ \E g \in groups : r \in g.waiting \/ r \in g.sending

\* rx.await of a pushed request: a channel whose sender was dropped unused is
\* closed, which the call turns into backend_gone.
Received(r) ==
  IF reply[r] = "panic" \/ (reply[r] = "none" /\ ~Held(r)) THEN "gone" ELSE reply[r]

-----------------------------------------------------------------------------
Init ==
  /\ open = TRUE
  /\ pending = <<>> /\ notified = FALSE
  /\ flusher = "upgrade" /\ remaining = <<>> /\ wokenBy = "none"
  /\ pc     = [c \in Calls |-> "new"]
  /\ next   = [c \in Calls |-> 1]
  /\ result = [c \in Calls |-> "pending"]
  /\ reply  = [r \in Requests |-> "none"]
  /\ batches = {} /\ groups = {}
  /\ sends  = [r \in Requests |-> 0]

(* call() *)

\* The future is made from a live clone and holds the shared state from then on.
Create(c) ==
  /\ open /\ pc[c] = "new"
  /\ Goto(c, "created")
  /\ UNCHANGED <<open, shared, loop, next, result, reply, tasks>>

\* First poll: all requests are pushed under the lock.
Push(c) ==
  /\ pc[c] = "created"
  /\ pending' = pending \o RequestsOf[c]
  /\ notified' = (notified \/ Len(pending') >= MaxBatchSize)
  /\ Goto(c, "notify")
  /\ UNCHANGED <<open, loop, next, result, reply, tasks>>

\* notify_one after the lock is released.
NotifyOne(c) ==
  /\ pc[c] = "notify"
  /\ notified' = TRUE
  /\ Goto(c, "await")
  /\ UNCHANGED <<open, pending, loop, next, result, reply, tasks>>

\* The receivers are awaited in order; the first error ends the call.
Receive(c) ==
  /\ pc[c] = "await" /\ next[c] <= Len(RequestsOf[c])
  /\ LET r == Received(RequestsOf[c][next[c]]) IN
       /\ r # "none"
       /\ IF r # "response" THEN Return(c, r) /\ UNCHANGED next
          ELSE IF c \in SingleCalls THEN Return(c, r) /\ UNCHANGED next
          ELSE next' = [next EXCEPT ![c] = @ + 1] /\ UNCHANGED <<pc, result>>
  /\ UNCHANGED <<open, shared, loop, reply, tasks>>

\* A Batch returns the responses it collected.
ReceivedAll(c) ==
  /\ pc[c] = "await" /\ next[c] > Len(RequestsOf[c])
  /\ Return(c, "response")
  /\ UNCHANGED <<open, shared, loop, next, reply, tasks>>

\* The caller drops the future, before its first poll or at an await.
Cancel(c) ==
  /\ pc[c] \in {"created", "await"}
  /\ Goto(c, "cancelled")
  /\ UNCHANGED <<open, shared, loop, next, result, reply, tasks>>

\* The last clone of the transport is dropped.
Close ==
  /\ open /\ open' = FALSE
  /\ UNCHANGED <<shared, loop, calls, reply, tasks>>

(* flush_loop *)

\* weak.upgrade()
Upgrade ==
  /\ flusher = "upgrade"
  /\ flusher' = IF Alive THEN "wait" ELSE "exited"
  /\ UNCHANGED <<open, shared, remaining, wokenBy, calls, reply, tasks>>

\* timeout(flush_interval, notified()): a stored permit is taken before the
\* timer is looked at.
Wake ==
  /\ flusher = "wait"
  /\ wokenBy' = IF notified THEN "notify" ELSE "timer"
  /\ notified' = FALSE
  /\ flusher' = "drain"
  /\ UNCHANGED <<open, pending, remaining, calls, reply, tasks>>

\* At most max_batch_size requests, and what is left after them.
ChunkSize(s)  == Min({Len(s), MaxBatchSize})
FirstChunk(s) == SubSeq(s, 1, ChunkSize(s))
AfterChunk(s) == SubSeq(s, ChunkSize(s) + 1, Len(s))

\* Faulty variant: one chunk is taken and the rest of the list is cleared.
DrainOneChunk ==
  /\ flusher = "drain"
  /\ IF pending = <<>>
     THEN flusher' = "upgrade" /\ UNCHANGED <<pending, remaining>>
     ELSE /\ remaining' = FirstChunk(pending)
          /\ pending' = <<>>
          /\ flusher' = "spawn"
  /\ wokenBy' = "none"
  /\ UNCHANGED <<open, notified, calls, reply, tasks>>

\* mem::take under the lock, then the shared state is let go.
Drain ==
  /\ flusher = "drain"
  /\ IF pending = <<>>
     THEN flusher' = "upgrade" /\ UNCHANGED <<pending, remaining>>
     ELSE /\ remaining' = pending
          /\ pending' = <<>>
          /\ flusher' = "spawn"
  /\ wokenBy' = "none"
  /\ UNCHANGED <<open, notified, calls, reply, tasks>>

\* outstanding.insert: of requests with one id the last of the chunk is kept.
Duplicates(chunk) ==
  {chunk[i] : i \in {i \in 1 .. Len(chunk) :
                       \E j \in i + 1 .. Len(chunk) : IdOf[chunk[j]] = IdOf[chunk[i]]}}

\* One chunk is handed to a task of its own: a lone request goes out as a Single.
SpawnChunk ==
  /\ flusher = "spawn"
  /\ LET chunk == FirstChunk(remaining)
         dups  == Duplicates(chunk)
     IN /\ remaining' = AfterChunk(remaining)
        /\ IF Len(chunk) = 1
           THEN groups' = groups \cup {Group(ToSet(chunk), {}, FALSE)} /\ UNCHANGED batches
           ELSE /\ batches' = batches \cup {Batch(ToSet(chunk) \ dups, dups, 0, "spawned")}
                /\ UNCHANGED groups
  /\ flusher' = IF remaining' = <<>> THEN "upgrade" ELSE "spawn"
  /\ UNCHANGED <<open, shared, wokenBy, calls, reply, sends>>

(* send_batch_with_retry *)

\* b becomes b2 with the requests of R answered; a task without requests ends.
Becomes(b, b2) == batches' = (batches \ {b}) \cup (IF b2.left = {} THEN {} ELSE {b2})

\* Faulty variant: the map entry is overwritten and its sender dropped.
StartBatchSilently(b) ==
  /\ b.phase = "spawned"
  /\ Becomes(b, Batch(b.left, {}, 0, "ready"))
  /\ UNCHANGED <<open, shared, loop, calls, reply, groups, sends>>

\* The map of outstanding requests is built; duplicates get their error.
StartBatch(b) ==
  /\ b.phase = "spawned"
  /\ Answer(b.dups, "duplicate")
  /\ Becomes(b, Batch(b.left, {}, 0, "ready"))
  /\ UNCHANGED <<open, shared, loop, calls, groups, sends>>

\* Faulty variant: one batch attempt more.
SendBatchOnceMore(b) ==
  /\ b.phase = "ready" /\ b.attempt <= MaxRetries
  /\ Sent(b.left)
  /\ Becomes(b, [b EXCEPT !.phase = "sent"])
  /\ UNCHANGED <<open, shared, loop, calls, reply, groups>>

SendBatch(b) ==
  /\ b.phase = "ready" /\ b.attempt < MaxRetries
  /\ Sent(b.left)
  /\ Becomes(b, [b EXCEPT !.phase = "sent"])
  /\ UNCHANGED <<open, shared, loop, calls, reply, groups>>

\* Each outstanding request in a task of its own, ten at a time.
FallBack(b, left) ==
  /\ batches' = batches \ {b}
  /\ groups' = groups \cup {Group(left, {}, TRUE)}

\* Faulty variant: the comparison with the number of retries is missing.
FallBackAtOnce(b) ==
  /\ b.phase = "ready"
  /\ FallBack(b, b.left)
  /\ UNCHANGED <<open, shared, loop, calls, reply, sends>>

\* The final attempt.
LastAttempt(b) ==
  /\ b.phase = "ready" /\ b.attempt = MaxRetries
  /\ FallBack(b, b.left)
  /\ UNCHANGED <<open, shared, loop, calls, reply, sends>>

\* Faulty variant: answered requests stay in the map and are retried.
BatchResponseKeepsAll(b) ==
  /\ b.phase = "sent"
  /\ \E matched \in SUBSET b.left :
       /\ Answer(matched, "response")
       /\ IF matched = {} THEN FallBack(b, b.left)
          ELSE IF matched = b.left THEN batches' = batches \ {b} /\ UNCHANGED groups
          ELSE Becomes(b, Batch(b.left, {}, b.attempt + 1, "ready")) /\ UNCHANGED groups
  /\ UNCHANGED <<open, shared, loop, calls, sends>>

\* Ok(resp): responses for some of the ids, others with ids not in the batch.
\* None that match is a rejection of the whole batch, reported to the callback.
BatchResponse(b) ==
  /\ b.phase = "sent"
  /\ \E matched \in SUBSET b.left :
       /\ Answer(matched, "response")
       /\ IF matched = {} THEN FallBack(b, b.left)
          ELSE Becomes(b, Batch(b.left \ matched, {}, b.attempt + 1, "ready")) /\ UNCHANGED groups
  /\ UNCHANGED <<open, shared, loop, calls, sends>>

\* Err(e), or a panic of the inner transport that drops every sender.
BatchFails(b) ==
  /\ b.phase = "sent"
  /\ \E o \in Outcomes \ {"response"} : Answer(b.left, o)
  /\ batches' = batches \ {b}
  /\ UNCHANGED <<open, shared, loop, calls, groups, sends>>

(* The tasks sending one request each *)

Regroup(g, g2) ==
  groups' = (groups \ {g}) \cup (IF g2.waiting \cup g2.sending = {} THEN {} ELSE {g2})

\* A permit of the group's semaphore, then the request goes out.
SendOne(g, r) ==
  /\ Cardinality(g.sending) < FallbackConcurrency
  /\ Sent({r})
  /\ Regroup(g, [g EXCEPT !.waiting = @ \ {r}, !.sending = @ \cup {r}])
  /\ UNCHANGED <<open, shared, loop, calls, reply, batches>>

\* Whatever the inner transport returns is passed on.
OneReply(g, r) ==
  /\ \E o \in Outcomes : Answer({r}, o)
  /\ Regroup(g, [g EXCEPT !.sending = @ \ {r}])
  /\ UNCHANGED <<open, shared, loop, calls, batches, sends>>

-----------------------------------------------------------------------------
\* All clones are dropped, the flush loop has ended and no call is left.
Stopped ==
  /\ flusher = "exited" /\ batches = {} /\ groups = {}
  /\ \A c \in Calls : ~Running(c)
  /\ UNCHANGED vars

CallStep(c) == Push(c) \/ NotifyOne(c) \/ Receive(c) \/ ReceivedAll(c)
LoopStep == Upgrade \/ Wake \/ Drain \/ SpawnChunk
TaskStep ==
  \/ \E b \in batches : \/ StartBatch(b) \/ SendBatch(b) \/ LastAttempt(b)
                        \/ BatchResponse(b) \/ BatchFails(b)
  \/ \E g \in groups : \/ \E r \in g.waiting : SendOne(g, r)
                       \/ \E r \in g.sending : OneReply(g, r)

Next ==
  \/ \E c \in Calls : Create(c) \/ CallStep(c) \/ Cancel(c)
  \/ Close \/ LoopStep \/ TaskStep
  \/ Stopped

\* The runtime polls every woken task, the timer of the flush loop fires, and the
\* inner transport answers or fails in the end (its HTTP client has a timeout).
Fairness ==
  /\ \A c \in Calls : WF_vars(CallStep(c))
  /\ WF_vars(LoopStep) /\ WF_vars(TaskStep)

Spec     == Init /\ [][Next]_vars
FairSpec == Spec /\ Fairness
-----------------------------------------------------------------------------
(* Properties. *)

\* Type invariant.
TypeOK ==
  /\ open \in BOOLEAN /\ notified \in BOOLEAN
  /\ pending \in Seq(Requests) /\ remaining \in Seq(Requests)
  /\ flusher \in {"upgrade", "wait", "drain", "spawn", "exited"}
  /\ wokenBy \in {"none", "notify", "timer"}
  /\ pc \in [Calls -> {"new", "created", "notify", "await", "returned", "cancelled"}]
  /\ next \in [Calls -> Nat \ {0}]
  /\ reply \in [Requests -> Outcomes \cup {"none", "duplicate"}]
  /\ result \in [Calls -> Outcomes \cup {"pending", "response", "gone", "duplicate"}]
  /\ sends \in [Requests -> 0 .. MaxRetries + 1]
  /\ batches \subseteq [left: SUBSET Requests, dups: SUBSET Requests,
                        attempt: 0 .. MaxRetries, phase: {"spawned", "ready", "sent"}]
  /\ groups \subseteq [waiting: SUBSET Requests, sending: SUBSET Requests, retry: BOOLEAN]

\* Where a request that was handed over and has no answer yet is kept.
Places(r) ==
  {<<"pending", i>> : i \in {i \in 1 .. Len(pending) : pending[i] = r}}
  \cup {<<"remaining", i>> : i \in {i \in 1 .. Len(remaining) : remaining[i] = r}}
  \cup {<<"batch", b>> : b \in {b \in batches : r \in b.left \cup b.dups}}
  \cup {<<"group", g>> : g \in {g \in groups : r \in g.waiting \cup g.sending}}

\* No request is lost or duplicated on its way from the list through the chunks
\* and the retries: until it is answered it is in exactly one place, and then in
\* none.
OneOwner ==
  /\ \A r \in Requests : Cardinality(Places(r)) <= (IF reply[r] = "none" THEN 1 ELSE 0)
  /\ \A c \in Calls : pc[c] \in {"notify", "await"} =>
       \A r \in ToSet(RequestsOf[c]) : reply[r] = "none" => Places(r) # {}

\* The flush loop never leaves behind a request whose caller still waits.
NoneStranded == flusher = "exited" => \A c \in Calls : ~Running(c)

\* A call only returns backend_gone if the inner transport panicked on a packet
\* with the request it was waiting for: the flush, the chunks, requests that share
\* an id, the retries and the shutdown drop no sender unused.
GoneOnlyByPanic ==
  \A c \in Calls : result[c] = "gone" => reply[RequestsOf[c][next[c]]] = "panic"

\* The phases of Delivery; a request whose task panicked is done with as well.
Phase(r) == IF reply[r] # "none" THEN "answered"
            ELSE IF Held(r) THEN "open" ELSE "new"

\* Each request is given to the inner transport at most max_missing_retries + 1
\* times, and never again once it has its answer.
D == INSTANCE Delivery WITH phase <- [r \in Requests |-> Phase(r)],
                            MaxSends <- MaxRetries + 1
ImplementsDelivery == D!Spec

\* A request is only sent on its own after a batch with it went unanswered
\* (batching.rs:53: attempt 0 = initial batch, attempt N = each individually),
\* unless no retry is allowed: then the initial attempt is the last one too.
BatchComesFirst ==
  \A g \in groups : g.retry /\ MaxRetries > 0 => \A r \in g.waiting : sends[r] > 0

\* What batching.rs:102 to 104 says of the flush: requests are accumulated until
\* max_batch_size is reached or flush_interval elapses.
FlushesWhenFullOrDue ==
  [][flusher = "drain" /\ flusher' = "spawn" =>
       Len(pending) >= MaxBatchSize \/ wokenBy = "timer"]_vars

\* Every call that is not dropped returns, even if the last clone of the
\* transport is dropped while it waits.
EveryCallReturns ==
  \A c \in Calls : pc[c] = "created" ~> pc[c] \in {"returned", "cancelled"}
=============================================================================
