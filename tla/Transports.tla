----------------------------- MODULE Transports -----------------------------
(***************************************************************************)
(* BatchingTransport over LoadBalancedTransport, as README and examples    *)
(* put them together.  Module Batching decides which packets are made of   *)
(* the requests; every packet is a call of the inner transport, of which   *)
(* this module knows what Upstream promises and Balancer keeps.  The inner *)
(* call of a batch task or of an individual send runs between the step     *)
(* that makes it and the step that takes its result.                       *)
(***************************************************************************)
EXTENDS Batching

CONSTANTS
  BytesOf,     \* request -> its share of a serialized packet
  LargestCap,  \* the largest max_request_bytes of the endpoints
  InnerSends,  \* (max_retry_rounds + 1) * endpoints.len()
  InnerReplies \* what endpoints answer: "ok" and errors

ASSUME TransportsAssumption ==
  /\ BytesOf \in [Requests -> Nat]
  /\ LargestCap \in Nat
  /\ InnerSends \in Nat
  /\ "exceeds_every_limit" \notin InnerReplies

VARIABLES status, sent, answer  \* packet -> as in Upstream

inner == <<status, sent, answer>>

\* A packet is named by its requests and the attempt that made it; individual
\* sends come after the attempts of batches.
BatchPacket(b)  == <<b.left, b.attempt>>
SinglePacket(r) == <<{r}, MaxRetries + 1>>
Packets == (((SUBSET Requests) \ {{}}) \X (0 .. MaxRetries)) \cup {SinglePacket(r) : r \in Requests}

\* The serialized length of a packet, compared with every endpoint's limit.
PacketBytes(p) == MapThenSumSet(LAMBDA r : BytesOf[r], p[1])
Fits == {p \in Packets : PacketBytes(p) <= LargestCap}

Up == INSTANCE Upstream WITH MaxSends <- InnerSends, Answers <- InnerReplies

-----------------------------------------------------------------------------
\* The packets whose call a task is waiting for.
BatchesOut == {BatchPacket(b) : b \in {b \in batches : b.phase = "sent"}}
SinglesOut == {SinglePacket(r) : r \in UNION {g.sending : g \in groups}}

\* LoadBalancedTransport at work for such a packet.  No task drops its call.
InnerStep ==
  /\ \E p \in BatchesOut \cup SinglesOut :
       Up!Accept(p) \/ Up!Refuse(p) \/ Up!Transmit(p) \/ Up!Reply(p)
  /\ UNCHANGED vars

Done(p) == status[p] = "returned"

\* Faulty variant: an error of the call counts as an answer without responses.
BatchDoneUnchecked(b) == Done(BatchPacket(b)) /\ BatchResponse(b)

\* match transport.call(Batch).await: Ok is a response, Err fails the batch.
BatchDone(b) ==
  /\ Done(BatchPacket(b))
  /\ IF answer[BatchPacket(b)] = "ok" THEN BatchResponse(b) ELSE BatchFails(b)

\* let result = transport.call(Single).await; tx.send(result).
SingleDone(g, r) ==
  /\ Done(SinglePacket(r))
  /\ OneReply(g, r)
  /\ reply'[r] = "response" <=> answer[SinglePacket(r)] = "ok"

-----------------------------------------------------------------------------
ComposedInit == Init /\ Up!Init

ComposedTaskStep ==
  /\ \/ \E b \in batches : \/ StartBatch(b) \/ SendBatch(b) \/ LastAttempt(b)
                           \/ BatchDone(b)
     \/ \E g \in groups : \/ \E r \in g.waiting : SendOne(g, r)
                          \/ \E r \in g.sending : SingleDone(g, r)
  /\ UNCHANGED inner

OuterStep ==
  /\ \/ \E c \in Calls : Create(c) \/ CallStep(c) \/ Cancel(c)
     \/ Close \/ LoopStep \/ Stopped
  /\ UNCHANGED inner

ComposedNext == OuterStep \/ ComposedTaskStep \/ InnerStep
composed == <<vars, inner>>

ComposedSpec == ComposedInit /\ [][ComposedNext]_composed

-----------------------------------------------------------------------------
(* Properties. *)

WireSends(r) == MapThenSumSet(LAMBDA p : sent[p], {p \in Packets : r \in p[1]})

\* The retries of both transports multiply, and that is all they do: an
\* endpoint sees a request at most (max_missing_retries + 1) times the inner
\* transport's endpoints x (1 + max_retry_rounds).
WireBounded == \A r \in Requests : WireSends(r) <= (MaxRetries + 1) * InnerSends

\* A batch is refused for its size as a whole, before any of it was sent: the
\* retries of a batch only shrink it, so a request whose batch was sent is never
\* refused later, and a request that is refused was on no wire.
RefusedUnsent ==
  \A p \in Packets : answer[p] = "exceeds_every_limit" =>
    \A r \in p[1] : WireSends(r) = 0

\* A call returns a response only if an endpoint answered a packet with its
\* requests, through the batches, retries and individual sends in between.
ResponsesAreReal ==
  \A c \in Calls : result[c] = "response" =>
    \A r \in ToSet(RequestsOf[c]) : \E p \in Packets : r \in p[1] /\ answer[p] = "ok"

\* Once a request has its answer, no endpoint is sent it again, by no batch, no
\* retry round and no individual send.
AnsweredLeavesTheWire ==
  [][sent' # sent =>
       \A p \in Packets : sent'[p] # sent[p] =>
         \A r \in p[1] : reply[r] = "none"]_composed
=============================================================================
