-------------------------- MODULE TransportsProofs --------------------------
(* Theorems about Transports: BatchingTransport over LoadBalancedTransport,  *)
(* for any requests, sizes, limits and retries.  BatchingInv holds here too, *)
(* since every step of the composition is a step of Batching or none; to it  *)
(* comes what is known of the packets.                                       *)
EXTENDS Transports, BatchingProofs, SumProofs

Out == BatchesOut \cup SinglesOut
Touched(p) == status[p] # "new"
IsSingle(p) == p[2] = MaxRetries + 1
Meet(p, q) == p[1] \cap q[1] # {}

PacketsOK ==
  /\ status \in [Packets -> {"new", "open", "returned"}]
  /\ sent \in [Packets -> 0 .. InnerSends]
  /\ answer \in [Packets -> InnerReplies \cup {"pending", "exceeds_every_limit"}]

\* What the inner transport keeps of a packet.
InnerInv(p) ==
  /\ status[p] = "new" => sent[p] = 0
  /\ status[p] # "returned" => answer[p] = "pending"
  /\ status[p] = "open" \/ sent[p] > 0 => p \in Fits

\* A packet was made by an attempt of the past or the present.  If its call is
\* over, its requests are answered, or it was a batch with responses for some.
PacketInv(p) ==
  Touched(p) =>
    /\ p[2] # MaxRetries
    /\ ~IsSingle(p) => \A r \in p[1] : sends[r] > p[2]
    /\ \/ p \in Out
       \/ \A r \in p[1] : reply[r] # "none"
       \/ answer[p] = "ok" /\ ~IsSingle(p)

\* The retries of a batch only shrink it.
ShrinkInv(b) ==
  /\ b.phase # "spawned" => b.left # {}
  /\ \A p \in Packets : Touched(p) /\ p[1] \cap b.left # {} =>
       /\ b.left \subseteq p[1]
       /\ b.phase = "sent" /\ p[2] = b.attempt => p[1] = b.left

\* No two packets of one attempt share a request.
OnePerAttempt ==
  \A p, q \in Packets : Touched(p) /\ Touched(q) /\ p[2] = q[2] /\ Meet(p, q) => p = q

RefusedInv ==
  \A p, q \in Packets : answer[p] = "exceeds_every_limit" /\ Meet(p, q) => sent[q] = 0

ResponseInv(r) ==
  reply[r] = "response" => \E p \in Packets : r \in p[1] /\ answer[p] = "ok"

ReceivedInv(c) ==
  /\ \A i \in 1 .. Len(RequestsOf[c]) : i < next[c] => reply[RequestsOf[c][i]] = "response"
  /\ result[c] = "response" =>
       \A i \in 1 .. Len(RequestsOf[c]) : reply[RequestsOf[c][i]] = "response"

TransportsInv ==
  /\ PacketsOK
  /\ \A p \in Packets : InnerInv(p) /\ PacketInv(p)
  /\ \A b \in batches : ShrinkInv(b)
  /\ OnePerAttempt /\ RefusedInv
  /\ \A r \in Requests : ResponseInv(r)
  /\ \A c \in Calls : ReceivedInv(c)

-----------------------------------------------------------------------------
(* Packets.                                                                  *)

LEMMA PacketForm ==
  ASSUME NEW p \in Packets
  PROVE  /\ p[1] \subseteq Requests /\ p[1] # {} /\ p[2] \in Nat
         /\ p = <<p[1], p[2]>>
         /\ ~IsSingle(p) => p[2] <= MaxRetries
         /\ IsSingle(p) => \E r \in Requests : p[1] = {r} /\ p = SinglePacket(r)
<1>1. MaxRetries \in Nat
  BY BatchingAssumption
<1>2. CASE p \in ((SUBSET Requests) \ {{}}) \X (0 .. MaxRetries)
  <2>1. p[1] \in (SUBSET Requests) \ {{}} /\ p[2] \in 0 .. MaxRetries /\ p = <<p[1], p[2]>>
    BY <1>2
  <2>2. p[2] \in Nat /\ p[2] <= MaxRetries /\ p[2] # MaxRetries + 1
    BY <1>1, <2>1
  <2> QED
    BY <2>1, <2>2 DEF IsSingle
<1>3. CASE p \in {SinglePacket(r) : r \in Requests}
  BY <1>1, <1>3 DEF IsSingle, SinglePacket
<1> QED
  BY <1>2, <1>3 DEF Packets

LEMMA SamePacket ==
  ASSUME NEW p \in Packets, NEW q \in Packets, p[1] = q[1], p[2] = q[2]
  PROVE  p = q
BY PacketForm

\* A smaller packet fits where a larger one does.
LEMMA PartFits ==
  ASSUME NEW p \in Packets, NEW q \in Packets, p[1] \subseteq q[1], q \in Fits
  PROVE  p \in Fits
<1>1. IsFiniteSet(q[1]) /\ IsFiniteSet(p[1])
  BY PacketForm, BatchingAssumption, FS_Subset
<1>2. NatOn(BytesOf, q[1]) /\ NatOn(BytesOf, p[1])
  BY PacketForm, TransportsAssumption DEF NatOn
<1>3. /\ SumOver(BytesOf, p[1]) <= SumOver(BytesOf, q[1])
      /\ SumOver(BytesOf, p[1]) \in Nat /\ SumOver(BytesOf, q[1]) \in Nat
  BY <1>1, <1>2, SumOfPart, SumWithout
<1>4. /\ PacketBytes(p) = SumOver(BytesOf, p[1])
      /\ PacketBytes(q) = SumOver(BytesOf, q[1])
  BY DEF PacketBytes, SumOver
<1>5. LargestCap \in Nat /\ PacketBytes(q) <= LargestCap
  BY TransportsAssumption DEF Fits
<1> QED
  BY <1>3, <1>4, <1>5 DEF Fits

NoneEmpty == \A b \in batches : b.phase # "spawned" => b.left # {}

BatchOut(p, b) ==
  /\ b.phase = "sent" /\ p = BatchPacket(b) /\ p[1] = b.left /\ p[2] = b.attempt
  /\ p[2] < MaxRetries /\ ~IsSingle(p)
  /\ \A r \in b.left : r \in Of(b) /\ sends[r] = p[2] + 1
SingleOut(p, g, r) == p = SinglePacket(r) /\ p[1] = {r} /\ IsSingle(p) /\ r \in In(g)

\* Whose packets the inner transport is at work for.
LEMMA OutForm ==
  ASSUME BatchingInv, NoneEmpty, NEW p \in Out
  PROVE  /\ p \in Packets
         /\ \A r \in p[1] : r \in Requests /\ reply[r] = "none"
         /\ \/ \E b \in batches : BatchOut(p, b)
            \/ \E g \in groups : \E r \in g.sending : SingleOut(p, g, r)
<1>1. CASE p \in BatchesOut
  <2>1. PICK b \in batches : b.phase = "sent" /\ p = BatchPacket(b)
    BY <1>1 DEF BatchesOut
  <2>2. p[1] = b.left /\ p[2] = b.attempt /\ p = <<b.left, b.attempt>>
    BY <2>1 DEF BatchPacket
  <2>3. /\ b.left \in SUBSET Requests /\ b.attempt \in 0 .. MaxRetries /\ b.attempt < MaxRetries
        /\ MaxRetries \in Nat
        /\ \A r \in b.left : sends[r] = b.attempt + 1
    BY <2>1, BatchFields DEF BatchInv
  <2>4. b.left # {}
    BY <2>1 DEF NoneEmpty
  <2>5. p \in Packets
    <3>1. b.left \in (SUBSET Requests) \ {{}}
      BY <2>3, <2>4
    <3>2. <<b.left, b.attempt>> \in ((SUBSET Requests) \ {{}}) \X (0 .. MaxRetries)
      BY <2>3, <3>1
    <3> QED
      BY <2>2, <3>2 DEF Packets
  <2>6. \A r \in p[1] : r \in Requests /\ reply[r] = "none" /\ r \in Of(b)
    BY <2>2, HeldByBatch DEF Of
  <2>7. BatchOut(p, b)
    BY <2>1, <2>2, <2>3, <2>6 DEF BatchOut, IsSingle
  <2> QED
    BY <2>5, <2>6, <2>7
<1>2. CASE p \in SinglesOut
  <2>1. PICK g \in groups : \E r \in g.sending : p = SinglePacket(r)
    BY <1>2 DEF SinglesOut
  <2>2. PICK r \in g.sending : p = SinglePacket(r)
    BY <2>1
  <2>3. p[1] = {r} /\ p[2] = MaxRetries + 1
    BY <2>2 DEF SinglePacket
  <2>4. r \in In(g) /\ r \in Requests /\ reply[r] = "none"
    BY HeldByGroup DEF In
  <2>5. p \in Packets
    BY <2>2, <2>4 DEF Packets
  <2>6. SingleOut(p, g, r)
    BY <2>2, <2>3, <2>4 DEF SingleOut, IsSingle
  <2> QED
    BY <2>3, <2>4, <2>5, <2>6
<1> QED
  BY <1>1, <1>2 DEF Out

\* Packets on their way have no request in common.
LEMMA OutApart ==
  ASSUME BatchingInv, NoneEmpty, NEW p \in Out, NEW q \in Out, Meet(p, q)
  PROVE  p = q
<1>1. \/ \E b \in batches : BatchOut(p, b)
      \/ \E g \in groups : \E r \in g.sending : SingleOut(p, g, r)
  BY OutForm
<1>2. \/ \E b \in batches : BatchOut(q, b)
      \/ \E g \in groups : \E r \in g.sending : SingleOut(q, g, r)
  BY OutForm
<1>3. PICK s : s \in p[1] /\ s \in q[1]
  BY DEF Meet
<1>4. CASE \E b \in batches : BatchOut(p, b)
  <2>1. PICK b \in batches : BatchOut(p, b)
    BY <1>4
  <2>2. s \in Of(b)
    BY <1>3, <2>1 DEF BatchOut
  <2>3. CASE \E c \in batches : BatchOut(q, c)
    <3>1. PICK c \in batches : BatchOut(q, c)
      BY <2>3
    <3>2. s \in Of(c)
      BY <1>3, <3>1 DEF BatchOut
    <3>3. b = c
      BY <2>2, <3>2, TasksDisjoint
    <3> QED
      BY <2>1, <3>1, <3>3 DEF BatchOut
  <2>4. CASE \E g \in groups : \E r \in g.sending : SingleOut(q, g, r)
    <3>1. PICK g \in groups : \E r \in g.sending : SingleOut(q, g, r)
      BY <2>4
    <3>2. s \in In(g)
      BY <1>3, <3>1 DEF SingleOut
    <3> QED
      BY <2>2, <3>2, TasksDisjoint
  <2> QED
    BY <1>2, <2>3, <2>4
<1>5. CASE \E g \in groups : \E r \in g.sending : SingleOut(p, g, r)
  <2>1. PICK g \in groups : \E r \in g.sending : SingleOut(p, g, r)
    BY <1>5
  <2>2. s \in In(g) /\ p = SinglePacket(s)
    BY <1>3, <2>1 DEF SingleOut
  <2>3. CASE \E c \in batches : BatchOut(q, c)
    <3>1. PICK c \in batches : BatchOut(q, c)
      BY <2>3
    <3>2. s \in Of(c)
      BY <1>3, <3>1 DEF BatchOut
    <3> QED
      BY <2>2, <3>2, TasksDisjoint
  <2>4. CASE \E h \in groups : \E r \in h.sending : SingleOut(q, h, r)
    BY <1>3, <2>2, <2>4 DEF SingleOut
  <2> QED
    BY <1>2, <2>3, <2>4
<1> QED
  BY <1>1, <1>4, <1>5

\* What the inner transport does to the packet it is at work for, and no other.
LEMMA InnerEffects ==
  ASSUME PacketsOK, NEW p \in Packets, InnerInv(p),
         Up!Accept(p) \/ Up!Refuse(p) \/ Up!Transmit(p) \/ Up!Reply(p)
  PROVE  /\ PacketsOK' /\ InnerInv(p)' /\ Touched(p)'
         /\ \A q \in Packets : q # p =>
              status'[q] = status[q] /\ sent'[q] = sent[q] /\ answer'[q] = answer[q]
         /\ status[p] # "returned"
         /\ sent'[p] # sent[p] => status[p] = "open"
         /\ answer'[p] = "exceeds_every_limit" => p \notin Fits /\ sent'[p] = 0
<1>1. InnerSends \in Nat /\ "exceeds_every_limit" \notin InnerReplies
  BY TransportsAssumption
<1>2. CASE Up!Accept(p)
  BY <1>1, <1>2 DEF Up!Accept, PacketsOK, InnerInv, Touched
<1>3. CASE Up!Refuse(p)
  BY <1>1, <1>3 DEF Up!Refuse, PacketsOK, InnerInv, Touched
<1>4. CASE Up!Transmit(p)
  BY <1>1, <1>4 DEF Up!Transmit, PacketsOK, InnerInv, Touched
<1>5. CASE Up!Reply(p)
  <2>1. PICK a \in InnerReplies : answer' = [answer EXCEPT ![p] = a]
    BY <1>5 DEF Up!Reply
  <2> QED
    BY <1>1, <1>5, <2>1 DEF Up!Reply, PacketsOK, InnerInv, Touched
<1> QED
  BY <1>2, <1>3, <1>4, <1>5

-----------------------------------------------------------------------------
(* A step of the inner transport.                                            *)

LEMMA TransportsParts ==
  ASSUME TransportsInv
  PROVE  /\ PacketsOK /\ NoneEmpty
         /\ \A p \in Packets : InnerInv(p) /\ PacketInv(p)
         /\ \A b \in batches : ShrinkInv(b)
BY DEF TransportsInv, NoneEmpty, ShrinkInv

\* The requests of a packet on its way are together in every earlier packet that
\* has one of them.
LEMMA OutInEarlier ==
  ASSUME BatchingInv, TransportsInv, NEW p \in Out, NEW q \in Packets, Touched(q), Meet(p, q)
  PROVE  /\ p[1] \subseteq q[1]
         /\ p[2] = q[2] => p = q
<1>1. /\ PacketsOK /\ NoneEmpty
      /\ \A b \in batches : ShrinkInv(b)
  BY TransportsParts
<1>2. /\ p \in Packets
      /\ \/ \E b \in batches : BatchOut(p, b)
         \/ \E g \in groups : \E r \in g.sending : SingleOut(p, g, r)
  BY <1>1, OutForm
<1>3. CASE \E b \in batches : BatchOut(p, b)
  <2>1. PICK b \in batches : BatchOut(p, b)
    BY <1>3
  <2>2. /\ p[1] = b.left /\ p[2] = b.attempt /\ b.phase = "sent"
        /\ q[1] \cap b.left # {}
    BY <2>1 DEF BatchOut, Meet
  <2>3. /\ b.left \subseteq q[1]
        /\ q[2] = b.attempt => q[1] = b.left
    BY <1>1, <2>2 DEF ShrinkInv
  <2> QED
    BY <1>2, <2>2, <2>3, SamePacket
<1>4. CASE \E g \in groups : \E r \in g.sending : SingleOut(p, g, r)
  <2>1. PICK r : p = SinglePacket(r) /\ p[1] = {r} /\ IsSingle(p)
    BY <1>4 DEF SingleOut
  <2>2. r \in q[1]
    BY <2>1 DEF Meet
  <2>3. ASSUME p[2] = q[2] PROVE p = q
    <3>1. PICK t \in Requests : q[1] = {t} /\ q = SinglePacket(t)
      BY <2>1, <2>3, PacketForm DEF IsSingle
    <3> QED
      BY <2>1, <2>2, <3>1
  <2> QED
    BY <2>1, <2>2, <2>3
<1> QED
  BY <1>2, <1>3, <1>4

LEMMA InnerStepKeeps ==
  ASSUME BatchingInv, TransportsInv, InnerStep
  PROVE  TransportsInv'
<1>1. /\ PacketsOK /\ NoneEmpty
      /\ \A q \in Packets : InnerInv(q) /\ PacketInv(q)
      /\ \A b \in batches : ShrinkInv(b)
  BY TransportsParts
<1>2. UNCHANGED <<batches, groups, reply, sends, next, result>>
  BY DEF InnerStep, vars, calls, tasks
<1>3. PICK p \in Out : Up!Accept(p) \/ Up!Refuse(p) \/ Up!Transmit(p) \/ Up!Reply(p)
  BY DEF InnerStep, Out
<1>4. /\ p \in Packets
      /\ \A r \in p[1] : r \in Requests /\ reply[r] = "none"
      /\ \/ \E b \in batches : BatchOut(p, b)
         \/ \E g \in groups : \E r \in g.sending : SingleOut(p, g, r)
  BY <1>1, OutForm
<1>5. /\ PacketsOK' /\ InnerInv(p)' /\ Touched(p)'
      /\ \A q \in Packets : q # p =>
           status'[q] = status[q] /\ sent'[q] = sent[q] /\ answer'[q] = answer[q]
      /\ status[p] # "returned"
      /\ sent'[p] # sent[p] => status[p] = "open"
      /\ answer'[p] = "exceeds_every_limit" => p \notin Fits /\ sent'[p] = 0
  BY <1>1, <1>3, <1>4, InnerEffects
<1>6. Out' = Out
  BY <1>2 DEF Out, BatchesOut, SinglesOut
<1>7. ASSUME NEW q \in Packets PROVE InnerInv(q)'
  <2>1. CASE q = p
    BY <1>5, <2>1
  <2>2. CASE q # p
    BY <1>1, <1>5, <2>2 DEF InnerInv
  <2> QED
    BY <2>1, <2>2
<1>8. ASSUME NEW q \in Packets PROVE PacketInv(q)'
  <2>1. CASE q = p
    <3>1. p[2] # MaxRetries /\ (~IsSingle(p) => \A r \in p[1] : sends[r] > p[2])
      <4>1. CASE \E b \in batches : BatchOut(p, b)
        <5>1. MaxRetries \in Nat /\ p[2] \in Nat
          BY <1>4, BatchingAssumption, PacketForm
        <5> QED
          BY <4>1, <5>1 DEF BatchOut
      <4>2. CASE IsSingle(p)
        BY <4>2, BatchingAssumption DEF IsSingle
      <4> QED
        BY <1>4, <4>1, <4>2 DEF SingleOut
    <3> QED
      BY <1>2, <1>6, <2>1, <3>1 DEF PacketInv
  <2>2. CASE q # p
    BY <1>1, <1>2, <1>5, <1>6, <2>2 DEF PacketInv, Touched
  <2> QED
    BY <2>1, <2>2
<1>9. ASSUME NEW b \in batches PROVE ShrinkInv(b)'
  <2> SUFFICES ASSUME NEW q \in Packets, Touched(q)', q[1] \cap b.left # {}
               PROVE  /\ b.left \subseteq q[1]
                      /\ b.phase = "sent" /\ q[2] = b.attempt => q[1] = b.left
    BY <1>1 DEF ShrinkInv, NoneEmpty
  <2>1. CASE q = p
    <3>1. PICK s : s \in p[1] /\ s \in b.left
      BY <2>1
    <3>2. s \in Of(b)
      BY <3>1 DEF Of
    <3>3. PICK c \in batches : BatchOut(p, c)
      <4>1. ASSUME NEW g \in groups, NEW r \in g.sending, SingleOut(p, g, r) PROVE FALSE
        BY <3>1, <3>2, <4>1, TasksDisjoint DEF SingleOut
      <4> QED
        BY <1>4, <4>1
    <3>4. s \in Of(c) /\ p[1] = c.left
      BY <3>1, <3>3 DEF BatchOut
    <3>5. c = b
      BY <3>2, <3>4, TasksDisjoint
    <3> QED
      BY <2>1, <3>4, <3>5
  <2>2. CASE q # p
    BY <1>1, <1>5, <2>2 DEF ShrinkInv, Touched
  <2> QED
    BY <2>1, <2>2
<1>10. OnePerAttempt'
  <2> SUFFICES ASSUME NEW q \in Packets, NEW u \in Packets, Touched(q)', Touched(u)',
                      q[2] = u[2], Meet(q, u)
               PROVE  q = u
    BY DEF OnePerAttempt
  <2>1. CASE q # p /\ u # p
    BY <1>5, <2>1 DEF TransportsInv, OnePerAttempt, Touched
  <2>2. CASE q = p /\ u # p
    <3>1. Touched(u) /\ Meet(p, u)
      BY <1>5, <2>2 DEF Touched
    <3> QED
      BY <2>2, <3>1, OutInEarlier
  <2>3. CASE q # p /\ u = p
    <3>1. Touched(q) /\ Meet(p, q)
      BY <1>5, <2>3 DEF Touched, Meet
    <3> QED
      BY <2>3, <3>1, OutInEarlier
  <2> QED
    BY <2>1, <2>2, <2>3
<1>11. RefusedInv'
  <2> SUFFICES ASSUME NEW a \in Packets, NEW q \in Packets,
                      answer'[a] = "exceeds_every_limit", Meet(a, q)
               PROVE  sent'[q] = 0
    BY DEF RefusedInv
  <2>1. CASE a = p /\ q = p
    BY <1>5, <2>1
  <2>2. CASE a = p /\ q # p
    <3> SUFFICES ASSUME sent[q] # 0 PROVE FALSE
      BY <1>5, <2>2
    <3>1. InnerInv(q) /\ sent[q] \in 0 .. InnerSends /\ InnerSends \in Nat
      BY <1>1, TransportsAssumption DEF PacketsOK
    <3>2. Touched(q) /\ q \in Fits
      BY <3>1 DEF InnerInv, Touched
    <3>3. p[1] \subseteq q[1]
      BY <2>2, <3>2, OutInEarlier
    <3> QED
      BY <1>4, <1>5, <2>2, <3>2, <3>3, PartFits
  <2>3. CASE a # p
    <3>1. answer[a] = "exceeds_every_limit"
      BY <1>5, <2>3
    <3>2. sent[q] = 0
      BY <3>1 DEF TransportsInv, RefusedInv
    <3>3. ASSUME q = p, status[p] = "open" PROVE FALSE
      <4>1. Touched(a)
        BY <1>1, <3>1 DEF InnerInv, Touched
      <4>2. PICK s : s \in a[1] /\ s \in p[1]
        BY <3>3 DEF Meet
      <4>3. a \in Out
        BY <1>1, <1>4, <3>1, <4>1, <4>2 DEF PacketInv
      <4> QED
        BY <1>1, <2>3, <3>3, <4>3, OutApart
    <3> QED
      BY <1>5, <3>2, <3>3
  <2> QED
    BY <2>1, <2>2, <2>3
<1>12. ASSUME NEW r \in Requests PROVE ResponseInv(r)'
  <2> SUFFICES ASSUME reply[r] = "response"
               PROVE  \E q \in Packets : r \in q[1] /\ answer'[q] = "ok"
    BY <1>2 DEF ResponseInv
  <2>1. PICK q \in Packets : r \in q[1] /\ answer[q] = "ok"
    BY DEF TransportsInv, ResponseInv
  <2>2. q # p
    BY <1>1, <1>5, <2>1 DEF InnerInv
  <2> QED
    BY <1>5, <2>1, <2>2
<1>13. ASSUME NEW c \in Calls PROVE ReceivedInv(c)'
  BY <1>2 DEF TransportsInv, ReceivedInv
<1> QED
  BY <1>2, <1>5, <1>7, <1>8, <1>9, <1>10, <1>11, <1>12, <1>13 DEF TransportsInv

-----------------------------------------------------------------------------
(* The steps of the tasks, which make packets and take their results.        *)

LEMMA TasksKeepPackets ==
  ASSUME BatchingInv, TransportsInv, TaskStep, UNCHANGED inner,
         \A p \in Out : \/ p \in Out'
                        \/ answer[p] = "ok" /\ ~IsSingle(p)
                        \/ \A r \in p[1] : reply'[r] # "none",
         \A b \in batches' : ShrinkInv(b)',
         \A r \in Requests : reply'[r] = "response" /\ reply[r] # "response" =>
           \E p \in Packets : r \in p[1] /\ answer[p] = "ok"
  PROVE  TransportsInv'
<1>1. /\ PacketsOK /\ NoneEmpty
      /\ \A p \in Packets : InnerInv(p) /\ PacketInv(p)
  BY TransportsParts
<1>2. UNCHANGED <<status, sent, answer>>
  BY DEF inner
<1>3. TaskMoves /\ UNCHANGED <<next, result>> /\ BatchingInv'
  BY TaskStepKeeps DEF calls
<1>4. \A r \in Requests : reply[r] # "none" => reply'[r] = reply[r]
  BY <1>3 DEF TaskMoves, BatchingInv, RequestInv
<1>5. \A r \in Requests : sends[r] \in Nat /\ sends'[r] \in Nat /\ sends'[r] >= sends[r]
  <2>1. /\ sends \in [Requests -> 0 .. MaxRetries + 1]
        /\ sends' \in [Requests -> 0 .. MaxRetries + 1]
        /\ MaxRetries \in Nat
    BY <1>3, BatchingAssumption DEF BatchingInv, TypeOK
  <2>2. sends' = sends \/ \E R : Sent(R)
    BY DEF TaskStep, StartBatch, SendBatch, LastAttempt, BatchResponse, BatchFails, SendOne, OneReply
  <2> QED
    BY <2>1, <2>2 DEF Sent
<1>6. ASSUME NEW p \in Packets PROVE InnerInv(p)' /\ PacketInv(p)'
  <2>1. InnerInv(p)'
    BY <1>1, <1>2 DEF InnerInv
  <2>2. p[1] \subseteq Requests /\ p[2] \in Nat
    BY PacketForm
  <2>3. PacketInv(p)'
    <3> SUFFICES ASSUME Touched(p)'
                 PROVE  /\ p[2] # MaxRetries
                        /\ ~IsSingle(p) => \A r \in p[1] : sends'[r] > p[2]
                        /\ \/ p \in Out'
                           \/ \A r \in p[1] : reply'[r] # "none"
                           \/ answer[p] = "ok" /\ ~IsSingle(p)
      BY <1>2 DEF PacketInv
    <3>1. /\ p[2] # MaxRetries
          /\ ~IsSingle(p) => \A r \in p[1] : sends[r] > p[2]
          /\ \/ p \in Out
             \/ \A r \in p[1] : reply[r] # "none"
             \/ answer[p] = "ok" /\ ~IsSingle(p)
      BY <1>1, <1>2 DEF PacketInv, Touched
    <3>2. ~IsSingle(p) => \A r \in p[1] : sends'[r] > p[2]
      BY <1>5, <2>2, <3>1
    <3>3. (\A r \in p[1] : reply[r] # "none") => \A r \in p[1] : reply'[r] # "none"
      BY <1>4, <2>2
    <3> QED
      BY <3>1, <3>2, <3>3
  <2> QED
    BY <2>1, <2>3
<1>7. ASSUME NEW r \in Requests PROVE ResponseInv(r)'
  BY <1>2 DEF TransportsInv, ResponseInv
<1>8. ASSUME NEW c \in Calls PROVE ReceivedInv(c)'
  <2>1. \A i \in 1 .. Len(RequestsOf[c]) : RequestsOf[c][i] \in Requests
    BY CallRequests, ElementOfSeq
  <2> QED
    BY <1>3, <1>4, <2>1 DEF TransportsInv, ReceivedInv
<1>9. PacketsOK' /\ OnePerAttempt' /\ RefusedInv'
  BY <1>2 DEF TransportsInv, PacketsOK, OnePerAttempt, RefusedInv, Touched
<1> QED
  BY <1>6, <1>7, <1>8, <1>9 DEF TransportsInv

\* Packets made by earlier attempts do not matter to other tasks.
LEMMA OldBatches ==
  ASSUME TransportsInv, UNCHANGED inner
  PROVE  \A b \in batches : ShrinkInv(b)'
BY DEF TransportsInv, ShrinkInv, Touched, inner

LEMMA SmallerBatch ==
  ASSUME TransportsInv, UNCHANGED inner, NEW b \in batches, NEW b2, Becomes(b, b2),
         b2.phase = "ready", b2.left \subseteq b.left
  PROVE  \A x \in batches' : ShrinkInv(x)'
<1>1. \A x \in batches : ShrinkInv(x)'
  BY OldBatches
<1>2. b2.left # {} => ShrinkInv(b2)'
  <2>1. ShrinkInv(b)'
    BY <1>1
  <2> QED
    BY <2>1 DEF ShrinkInv
<1> QED
  BY <1>1, <1>2 DEF Becomes

\* Batches on their way that a step leaves alone stay on their way.
LEMMA StaysOut ==
  ASSUME NEW b, \A x \in batches : x # b => x \in batches',
         \A g \in groups : \E h \in groups' : g.sending \subseteq h.sending,
         NEW p \in Out, ~ (b.phase = "sent" /\ p = BatchPacket(b))
  PROVE  p \in Out'
<1>1. CASE p \in BatchesOut
  <2>1. PICK x \in batches : x.phase = "sent" /\ p = BatchPacket(x)
    BY <1>1 DEF BatchesOut
  <2>2. x \in batches'
    BY <2>1
  <2> QED
    BY <2>1, <2>2 DEF Out, BatchesOut, BatchPacket
<1>2. CASE p \in SinglesOut
  <2>1. PICK g \in groups : \E r \in g.sending : p = SinglePacket(r)
    BY <1>2 DEF SinglesOut
  <2>2. PICK h \in groups' : g.sending \subseteq h.sending
    BY <2>1
  <2> QED
    BY <2>1, <2>2 DEF Out, SinglesOut, SinglePacket
<1> QED
  BY <1>1, <1>2 DEF Out

LEMMA StartKeepsPackets ==
  ASSUME BatchingInv, TransportsInv, UNCHANGED inner, NEW b \in batches, StartBatch(b)
  PROVE  TransportsInv'
<1> DEFINE b2 == Batch(b.left, {}, 0, "ready")
<1>1. /\ b.phase = "spawned" /\ Becomes(b, b2) /\ Answer(b.dups, "duplicate")
      /\ groups' = groups /\ TaskStep
  BY DEF StartBatch, TaskStep
<1>2. b2.left = b.left /\ b2.phase = "ready"
  BY BatchMade
<1> HIDE DEF b2
<1>3. \A x \in batches' : ShrinkInv(x)'
  BY <1>1, <1>2, SmallerBatch
<1>4. \A p \in Out : p \in Out'
  <2>1. \A x \in batches : x # b => x \in batches'
    BY <1>1 DEF Becomes
  <2> QED
    BY <1>1, <2>1, StaysOut
<1>5. \A r \in Requests : reply'[r] \in {"duplicate", reply[r]}
  BY <1>1 DEF Answer
<1> QED
  BY <1>1, <1>3, <1>4, <1>5, TasksKeepPackets

LEMMA SendBatchKeepsPackets ==
  ASSUME BatchingInv, TransportsInv, UNCHANGED inner, NEW b \in batches, SendBatch(b)
  PROVE  TransportsInv'
<1> DEFINE b2 == [b EXCEPT !.phase = "sent"]
<1>1. /\ b \in [left: SUBSET Requests, dups: SUBSET Requests,
                attempt: 0 .. MaxRetries, phase: {"spawned", "ready", "sent"}]
      /\ BatchInv(b) /\ MaxRetries \in Nat
  BY BatchFields
<1>2. /\ b.phase = "ready" /\ b.attempt < MaxRetries /\ Becomes(b, b2)
      /\ groups' = groups /\ reply' = reply /\ TaskStep
  BY DEF SendBatch, TaskStep
<1>3. b2.left = b.left /\ b2.phase = "sent" /\ b2.attempt = b.attempt
  BY <1>1
<1> HIDE DEF b2
<1>4. \A x \in batches : ShrinkInv(x)'
  BY OldBatches
<1>5. ASSUME NEW p \in Packets, Touched(p), p[1] \cap b.left # {} PROVE p[2] # b.attempt
  <2>1. PICK s : s \in p[1] /\ s \in b.left
    BY <1>5
  <2>2. sends[s] = b.attempt
    BY <1>1, <1>2, <2>1 DEF BatchInv
  <2>3. ~IsSingle(p) => sends[s] > p[2]
    BY <1>5, <2>1 DEF TransportsInv, PacketInv
  <2>4. IsSingle(p) => p[2] = MaxRetries + 1
    BY DEF IsSingle
  <2> QED
    BY <1>1, <1>2, <2>2, <2>3, <2>4
<1>6. ShrinkInv(b2)'
  <2>1. ShrinkInv(b) /\ b.left # {}
    BY <1>2 DEF TransportsInv, ShrinkInv
  <2> QED
    BY <1>3, <1>5, <2>1 DEF ShrinkInv, Touched, inner
<1>7. \A x \in batches' : ShrinkInv(x)'
  BY <1>2, <1>4, <1>6 DEF Becomes
<1>8. \A p \in Out : p \in Out'
  <2>1. \A x \in batches : x # b => x \in batches'
    BY <1>2 DEF Becomes
  <2> QED
    BY <1>2, <2>1, StaysOut
<1> QED
  BY <1>2, <1>7, <1>8, TasksKeepPackets

LEMMA LastKeepsPackets ==
  ASSUME BatchingInv, TransportsInv, UNCHANGED inner, NEW b \in batches, LastAttempt(b)
  PROVE  TransportsInv'
<1>1. /\ b.phase = "ready" /\ batches' = batches \ {b} /\ groups \subseteq groups'
      /\ reply' = reply /\ TaskStep
  BY DEF LastAttempt, FallBack, TaskStep
<1>2. \A x \in batches' : ShrinkInv(x)'
  BY <1>1, OldBatches
<1>3. \A p \in Out : p \in Out'
  BY <1>1, StaysOut
<1> QED
  BY <1>1, <1>2, <1>3, TasksKeepPackets

LEMMA BatchDoneKeepsPackets ==
  ASSUME BatchingInv, TransportsInv, UNCHANGED inner, NEW b \in batches, BatchDone(b)
  PROVE  TransportsInv'
<1> DEFINE P == BatchPacket(b)
<1>1. NoneEmpty
  BY TransportsParts
<1>2. TaskStep /\ b.phase = "sent"
  BY DEF BatchDone, BatchResponse, BatchFails, TaskStep
<1>3. P \in Out
  BY <1>2 DEF Out, BatchesOut
<1>4. /\ P \in Packets /\ P[1] = b.left /\ P[2] = b.attempt /\ b.left \subseteq Requests
      /\ b.attempt < MaxRetries /\ MaxRetries \in Nat /\ b.attempt \in Nat
  <2>1. P[1] = b.left /\ P[2] = b.attempt
    BY DEF BatchPacket
  <2> QED
    BY <1>1, <1>2, <1>3, <2>1, OutForm, BatchFields DEF BatchInv
<1>5. ~IsSingle(P)
  BY <1>4 DEF IsSingle
<1>6. /\ \A x \in batches : x # b => x \in batches'
      /\ groups \subseteq groups'
      /\ \A x \in batches' : ShrinkInv(x)'
  <2>1. CASE batches' = batches \ {b} /\ groups \subseteq groups'
    BY <2>1, OldBatches
  <2>2. CASE \E matched \in SUBSET b.left :
               Becomes(b, Batch(b.left \ matched, {}, b.attempt + 1, "ready")) /\ UNCHANGED groups
    <3>1. PICK matched \in SUBSET b.left :
            Becomes(b, Batch(b.left \ matched, {}, b.attempt + 1, "ready")) /\ UNCHANGED groups
      BY <2>2
    <3> DEFINE b2 == Batch(b.left \ matched, {}, b.attempt + 1, "ready")
    <3>2. b2.left = b.left \ matched /\ b2.phase = "ready"
      BY BatchMade
    <3> HIDE DEF b2
    <3>3. Becomes(b, b2)
      BY <3>1 DEF b2
    <3>4. \A x \in batches' : ShrinkInv(x)'
      BY <3>2, <3>3, SmallerBatch
    <3> QED
      BY <3>1, <3>3, <3>4 DEF Becomes
  <2> QED
    BY <2>1, <2>2 DEF BatchDone, BatchResponse, BatchFails, FallBack
<1> HIDE DEF P
<1>7. ASSUME NEW p \in Out
      PROVE  \/ p \in Out'
             \/ answer[p] = "ok" /\ ~IsSingle(p)
             \/ \A r \in p[1] : reply'[r] # "none"
  <2>1. CASE p = P
    <3>1. CASE answer[P] = "ok"
      BY <1>5, <2>1, <3>1
    <3>2. CASE answer[P] # "ok"
      <4>1. PICK o \in Outcomes : Answer(b.left, o)
        BY <3>2 DEF BatchDone, BatchFails, P
      <4>2. o # "none"
        BY BatchingAssumption
      <4> QED
        BY <1>4, <2>1, <4>1, <4>2 DEF Answer
    <3> QED
      BY <3>1, <3>2
  <2>2. CASE p # P
    BY <1>6, <2>2, StaysOut DEF P
  <2> QED
    BY <2>1, <2>2
<1>8. ASSUME NEW r \in Requests, reply'[r] = "response", reply[r] # "response"
      PROVE  \E p \in Packets : r \in p[1] /\ answer[p] = "ok"
  <2>1. answer[P] = "ok"
    <3>1. ASSUME answer[P] # "ok" PROVE FALSE
      <4>1. PICK o \in Outcomes \ {"response"} : Answer(b.left, o)
        BY <3>1 DEF BatchDone, BatchFails, P
      <4> QED
        BY <1>8, <4>1 DEF Answer
    <3> QED
      BY <3>1
  <2>2. PICK matched \in SUBSET b.left : Answer(matched, "response")
    BY <2>1 DEF BatchDone, BatchResponse, P
  <2>3. r \in b.left
    BY <1>8, <2>2 DEF Answer
  <2> QED
    BY <1>4, <2>1, <2>3
<1> QED
  BY <1>2, <1>6, <1>7, <1>8, TasksKeepPackets

LEMMA SendOneKeepsPackets ==
  ASSUME BatchingInv, TransportsInv, UNCHANGED inner, NEW g \in groups, NEW r \in g.waiting,
         SendOne(g, r)
  PROVE  TransportsInv'
<1> DEFINE g2 == [g EXCEPT !.waiting = @ \ {r}, !.sending = @ \cup {r}]
<1>1. g \in [waiting: SUBSET Requests, sending: SUBSET Requests, retry: BOOLEAN]
  BY GroupFields
<1>2. Regroup(g, g2) /\ batches' = batches /\ reply' = reply /\ TaskStep
  BY DEF SendOne, TaskStep
<1>3. g2.sending = g.sending \cup {r}
  BY <1>1
<1> HIDE DEF g2
<1>4. \A x \in groups : \E h \in groups' : x.sending \subseteq h.sending
  BY <1>2, <1>3 DEF Regroup
<1>5. \A x \in batches' : ShrinkInv(x)'
  BY <1>2, OldBatches
<1>6. \A p \in Out : p \in Out'
  <2> DEFINE none == [phase |-> "spawned"]
  <2>1. none.phase # "sent"
    OBVIOUS
  <2> HIDE DEF none
  <2> QED
    BY <1>2, <1>4, <2>1, StaysOut
<1> QED
  BY <1>2, <1>5, <1>6, TasksKeepPackets

LEMMA SingleDoneKeepsPackets ==
  ASSUME BatchingInv, TransportsInv, UNCHANGED inner, NEW g \in groups, NEW r \in g.sending,
         SingleDone(g, r)
  PROVE  TransportsInv'
<1> DEFINE g2 == [g EXCEPT !.sending = @ \ {r}]
           P == SinglePacket(r)
<1>1. g \in [waiting: SUBSET Requests, sending: SUBSET Requests, retry: BOOLEAN]
  BY GroupFields
<1>2. /\ Regroup(g, g2) /\ batches' = batches /\ TaskStep
      /\ reply'[r] = "response" <=> answer[P] = "ok"
  BY DEF SingleDone, OneReply, TaskStep
<1>3. g2.sending = g.sending \ {r} /\ r \in Requests
  BY <1>1
<1> HIDE DEF g2
<1>4. PICK o \in Outcomes : Answer({r}, o)
  BY DEF SingleDone, OneReply
<1>5. P[1] = {r} /\ P \in Packets
  BY <1>3 DEF SinglePacket, Packets
<1>6. \A q \in Requests : reply'[q] = (IF q = r THEN o ELSE reply[q]) /\ o # "none"
  BY <1>4, BatchingAssumption DEF Answer
<1>7. \A x \in batches' : ShrinkInv(x)'
  BY <1>2, OldBatches
<1>8. ASSUME NEW p \in Out
      PROVE  p \in Out' \/ \A q \in p[1] : reply'[q] # "none"
  <2>1. CASE p \in BatchesOut
    BY <1>2, <2>1 DEF Out, BatchesOut
  <2>2. CASE p \in SinglesOut
    <3>1. PICK x \in groups : \E q \in x.sending : p = SinglePacket(q)
      BY <2>2 DEF SinglesOut
    <3>2. PICK q \in x.sending : p = SinglePacket(q)
      BY <3>1
    <3>3. CASE q = r
      BY <1>3, <1>5, <1>6, <3>2, <3>3
    <3>4. CASE q # r
      <4>1. \E h \in groups' : q \in h.sending
        BY <1>2, <1>3, <3>2, <3>4 DEF Regroup
      <4> QED
        BY <3>2, <4>1 DEF Out, SinglesOut
    <3> QED
      BY <3>3, <3>4
  <2> QED
    BY <2>1, <2>2 DEF Out
<1>9. ASSUME NEW q \in Requests, reply'[q] = "response", reply[q] # "response"
      PROVE  \E p \in Packets : q \in p[1] /\ answer[p] = "ok"
  <2>1. q = r
    BY <1>6, <1>9
  <2> QED
    BY <1>2, <1>5, <1>9, <2>1
<1> QED
  BY <1>2, <1>7, <1>8, <1>9, TasksKeepPackets

-----------------------------------------------------------------------------
(* The steps of the calls and of the flush loop.                             *)

\* A chunk that leaves the list was in no packet before.
LEMMA ListUntouched ==
  ASSUME BatchingInv, TransportsInv, NEW r \in ToSet(remaining), NEW p \in Packets, Touched(p)
  PROVE  r \notin p[1]
<1> SUFFICES ASSUME r \in p[1] PROVE FALSE
  OBVIOUS
<1>1. PacketInv(p) /\ NoneEmpty /\ p[1] \subseteq Requests /\ p[2] \in Nat
  BY TransportsParts, PacketForm
<1>2. RequestInv(r) /\ Held(r) /\ sends[r] = 0
  BY <1>1 DEF BatchingInv, RequestInv, Held
<1>3. IsSingle(p) /\ p \in Out
  BY <1>1, <1>2 DEF PacketInv, RequestInv
<1>4. PICK g \in groups : \E q \in g.sending : SingleOut(p, g, q)
  BY <1>1, <1>3, OutForm DEF BatchOut
<1>5. r \in In(g)
  BY <1>4 DEF SingleOut
<1> QED
  BY <1>2, <1>5 DEF RequestInv, OneHolder

LEMMA OuterKeepsPackets ==
  ASSUME BatchingInv, TransportsInv, OuterStep
  PROVE  TransportsInv'
<1>1. /\ PacketsOK /\ NoneEmpty
      /\ \A p \in Packets : InnerInv(p) /\ PacketInv(p)
      /\ \A b \in batches : ShrinkInv(b)
  BY TransportsParts
<1>2. UNCHANGED <<status, sent, answer, reply, sends>>
  BY DEF OuterStep, inner, CallStep, Create, Push, NotifyOne, Receive, ReceivedAll, Cancel, Close,
         LoopStep, Upgrade, Wake, Drain, SpawnChunk, Stopped, vars, tasks
<1>3. UNCHANGED <<batches, groups>> \/ SpawnChunk
  BY DEF OuterStep, CallStep, Create, Push, NotifyOne, Receive, ReceivedAll, Cancel, Close,
         LoopStep, Upgrade, Wake, Drain, Stopped, vars, tasks
<1>4. batches \subseteq batches' /\ groups \subseteq groups'
  BY <1>3 DEF SpawnChunk
<1>5. \A p \in Out : p \in Out'
  <2> DEFINE none == [phase |-> "spawned"]
  <2>1. none.phase # "sent"
    OBVIOUS
  <2> HIDE DEF none
  <2> QED
    BY <1>4, <2>1, StaysOut
<1>6. \A p \in Packets : InnerInv(p)' /\ PacketInv(p)'
  BY <1>1, <1>2, <1>5 DEF InnerInv, PacketInv, Touched
<1>7. ASSUME NEW x \in batches' PROVE ShrinkInv(x)'
  <2>1. CASE x \in batches
    BY <1>1, <1>2, <2>1 DEF ShrinkInv, Touched
  <2>2. CASE x \notin batches
    <3> DEFINE chunk == FirstChunk(remaining)
               dups  == Duplicates(chunk)
    <3>1. x = Batch(ToSet(chunk) \ dups, dups, 0, "spawned")
      BY <1>3, <2>2 DEF SpawnChunk
    <3> HIDE DEF dups
    <3>2. x.left \subseteq ToSet(chunk) /\ x.phase = "spawned"
      BY <3>1, BatchMade
    <3>3. ToSet(chunk) \subseteq ToSet(remaining)
      BY Chunks DEF BatchingInv, TypeOK
    <3> HIDE DEF chunk
    <3>4. \A p \in Packets : Touched(p) => p[1] \cap x.left = {}
      BY <3>2, <3>3, ListUntouched
    <3> QED
      BY <1>2, <3>2, <3>4 DEF ShrinkInv, Touched
  <2> QED
    BY <2>1, <2>2
<1>8. ASSUME NEW c \in Calls PROVE ReceivedInv(c)'
  <2>1. /\ ReceivedInv(c) /\ next \in [Calls -> Nat \ {0}]
        /\ result \in [Calls -> Outcomes \cup {"pending", "response", "gone", "duplicate"}]
        /\ Len(RequestsOf[c]) \in Nat
    BY CallRequests, InSequence DEF TransportsInv, BatchingInv, TypeOK
  <2>2. CASE UNCHANGED <<next, result>>
    BY <1>2, <2>1, <2>2 DEF ReceivedInv
  <2>3. CASE \E d \in Calls : Receive(d)
    <3>1. PICK d \in Calls : Receive(d)
      BY <2>3
    <3>2. CASE d = c
      <4>1. /\ next[c] <= Len(RequestsOf[c])
            /\ \/ /\ result'[c] # "response" /\ next' = next
               \/ /\ result'[c] = "response" /\ next' = next /\ c \in SingleCalls
                  /\ reply[RequestsOf[c][next[c]]] = "response"
               \/ /\ next'[c] = next[c] + 1 /\ result' = result
                  /\ reply[RequestsOf[c][next[c]]] = "response"
        <5> DEFINE q == RequestsOf[c][next[c]]
        <5>1. Received(q) = "response" => reply[q] = "response"
          BY DEF Received
        <5>2. /\ next[c] <= Len(RequestsOf[c])
              /\ \/ /\ Received(q) # "response" /\ next' = next
                    /\ result' = [result EXCEPT ![c] = Received(q)]
                 \/ /\ Received(q) = "response" /\ next' = next /\ c \in SingleCalls
                    /\ result' = [result EXCEPT ![c] = Received(q)]
                 \/ /\ Received(q) = "response" /\ result' = result
                    /\ next' = [next EXCEPT ![c] = @ + 1]
          BY <3>1, <3>2 DEF Receive, Return
        <5> HIDE DEF q
        <5>3. /\ next[c] <= Len(RequestsOf[c])
              /\ \/ /\ result'[c] # "response" /\ next' = next
                 \/ /\ result'[c] = "response" /\ next' = next /\ c \in SingleCalls
                    /\ reply[q] = "response"
                 \/ /\ next'[c] = next[c] + 1 /\ result' = result
                    /\ reply[q] = "response"
          BY <2>1, <5>1, <5>2
        <5> QED
          BY <5>3 DEF q
      <4>2. c \in SingleCalls => Len(RequestsOf[c]) = 1
        BY BatchingAssumption
      <4>3. next[c] \in Nat \ {0}
        BY <2>1
      <4>4. CASE result'[c] # "response" /\ next' = next
        BY <1>2, <2>1, <4>4 DEF ReceivedInv
      <4>5. CASE /\ result'[c] = "response" /\ next' = next /\ c \in SingleCalls
                 /\ reply[RequestsOf[c][next[c]]] = "response"
        <5> DEFINE n == next[c]
        <5>n. n \in Nat /\ n # 0 /\ n <= 1 /\ Len(RequestsOf[c]) = 1
          BY <4>1, <4>2, <4>3, <4>5
        <5>1. n = 1 /\ \A i \in 1 .. 1 : i = 1
          <6> HIDE DEF n
          <6> QED
            BY <5>n
        <5> QED
          BY <1>2, <2>1, <4>5, <5>n, <5>1 DEF ReceivedInv
      <4>6. CASE /\ next'[c] = next[c] + 1 /\ result' = result
                 /\ reply[RequestsOf[c][next[c]]] = "response"
        <5>1. \A i \in 1 .. Len(RequestsOf[c]) : i < next'[c] => i < next[c] \/ i = next[c]
          BY <2>1, <4>3, <4>6
        <5> QED
          BY <1>2, <2>1, <4>6, <5>1 DEF ReceivedInv
      <4> QED
        BY <4>1, <4>4, <4>5, <4>6
    <3>3. CASE d # c
      <4>1. next'[c] = next[c] /\ result'[c] = result[c]
        BY <2>1, <3>1, <3>3 DEF Receive, Return
      <4> QED
        BY <1>2, <2>1, <4>1 DEF ReceivedInv
    <3> QED
      BY <3>2, <3>3
  <2>4. CASE \E d \in Calls : ReceivedAll(d)
    <3>1. PICK d \in Calls : ReceivedAll(d)
      BY <2>4
    <3>2. next' = next /\ \A e \in Calls : e # d => result'[e] = result[e]
      BY <2>1, <3>1 DEF ReceivedAll, Return
    <3>3. CASE d = c
      <4>1. next[c] > Len(RequestsOf[c]) /\ next[c] \in Nat
        BY <2>1, <3>1, <3>3 DEF ReceivedAll
      <4>2. \A i \in 1 .. Len(RequestsOf[c]) : i < next[c]
        BY <2>1, <4>1
      <4> QED
        BY <1>2, <2>1, <3>2, <4>2 DEF ReceivedInv
    <3>4. CASE d # c
      BY <1>2, <2>1, <3>2, <3>4 DEF ReceivedInv
    <3> QED
      BY <3>3, <3>4
  <2>5. \/ UNCHANGED <<next, result>>
        \/ \E d \in Calls : Receive(d)
        \/ \E d \in Calls : ReceivedAll(d)
    BY DEF OuterStep, CallStep, Create, Push, NotifyOne, Cancel, Close, LoopStep, Upgrade, Wake,
           Drain, SpawnChunk, Stopped, vars, calls
  <2> QED
    BY <2>2, <2>3, <2>4, <2>5
<1>9. PacketsOK' /\ OnePerAttempt' /\ RefusedInv' /\ \A r \in Requests : ResponseInv(r)'
  BY <1>2 DEF TransportsInv, PacketsOK, OnePerAttempt, RefusedInv, ResponseInv, Touched
<1> QED
  BY <1>6, <1>7, <1>8, <1>9 DEF TransportsInv

-----------------------------------------------------------------------------
(* The invariant of the composition.                                         *)

LEMMA StepOfBatching == [ComposedNext]_composed => [Next]_vars
BY DEF ComposedNext, composed, OuterStep, ComposedTaskStep, InnerStep, BatchDone, SingleDone,
       Next, TaskStep

LEMMA ComposedInitHasInv == ComposedInit => BatchingInv /\ TransportsInv
<1> SUFFICES ASSUME ComposedInit PROVE BatchingInv /\ TransportsInv
  OBVIOUS
<1>1. Init /\ Up!Init
  BY DEF ComposedInit
<1>2. BatchingInv
  BY <1>1, InitHasInv
<1>3. \A p \in Packets : status[p] = "new" /\ sent[p] = 0 /\ answer[p] = "pending"
  BY <1>1 DEF Up!Init
<1>4. PacketsOK
  BY <1>1, TransportsAssumption DEF Up!Init, PacketsOK
<1>5. batches = {} /\ \A r \in Requests : reply[r] # "response"
  BY <1>1 DEF Init
<1>6. \A c \in Calls : ReceivedInv(c)
  <2>1. \A c \in Calls : Len(RequestsOf[c]) \in Nat
    BY CallRequests, InSequence
  <2> QED
    BY <1>1, <2>1 DEF Init, ReceivedInv
<1>7. \A p \in Packets : InnerInv(p) /\ PacketInv(p)
  BY <1>3 DEF InnerInv, PacketInv, Touched
<1> QED
  BY <1>2, <1>3, <1>4, <1>5, <1>6, <1>7
     DEF TransportsInv, OnePerAttempt, RefusedInv, ResponseInv, Touched

LEMMA ComposedStepKeepsInv ==
  BatchingInv /\ TransportsInv /\ [ComposedNext]_composed => BatchingInv' /\ TransportsInv'
<1> SUFFICES ASSUME BatchingInv, TransportsInv, [ComposedNext]_composed
             PROVE  BatchingInv' /\ TransportsInv'
  OBVIOUS
<1>1. BatchingInv'
  BY StepOfBatching, StepKeepsInv
<1>2. CASE OuterStep
  BY <1>1, <1>2, OuterKeepsPackets
<1>3. CASE ComposedTaskStep
  BY <1>1, <1>3, StartKeepsPackets, SendBatchKeepsPackets, LastKeepsPackets, BatchDoneKeepsPackets,
     SendOneKeepsPackets, SingleDoneKeepsPackets DEF ComposedTaskStep
<1>4. CASE InnerStep
  BY <1>1, <1>4, InnerStepKeeps
<1>5. CASE UNCHANGED composed
  <2>1. UNCHANGED <<vars, status, sent, answer>>
    BY <1>5 DEF composed, inner
  <2>2. Out' = Out /\ UNCHANGED <<batches, groups, reply, sends, next, result>>
    BY <2>1 DEF vars, tasks, calls, Out, BatchesOut, SinglesOut
  <2> QED
    BY <1>1, <2>1, <2>2 DEF TransportsInv, PacketsOK, InnerInv, PacketInv, ShrinkInv, OnePerAttempt,
                      RefusedInv, ResponseInv, ReceivedInv, Touched
<1> QED
  BY <1>1, <1>2, <1>3, <1>4, <1>5 DEF ComposedNext

LEMMA AlwaysComposedInv == ComposedSpec => [](BatchingInv /\ TransportsInv)
BY ComposedInitHasInv, ComposedStepKeepsInv, PTL DEF ComposedSpec

-----------------------------------------------------------------------------
(* What the invariant says of the wire.                                      *)

LEMMA FinitePackets == IsFiniteSet(Packets)
<1>1. IsFiniteSet(Requests) /\ MaxRetries \in Nat
  BY BatchingAssumption
<1>2. IsFiniteSet((SUBSET Requests) \ {{}})
  BY <1>1, FS_SUBSET, FS_Subset
<1>3. IsFiniteSet(0 .. MaxRetries)
  BY <1>1, FS_Interval
<1>4. IsFiniteSet(((SUBSET Requests) \ {{}}) \X (0 .. MaxRetries))
  BY <1>2, <1>3, FS_Product
<1>5. IsFiniteSet({SinglePacket(r) : r \in Requests})
  <2> DEFINE f == [r \in Requests |-> SinglePacket(r)]
             T == {SinglePacket(r) : r \in Requests}
  <2>1. f \in Surjection(Requests, T)
    BY DEF Surjection
  <2> QED
    BY <1>1, <2>1, FS_Surjection
<1> QED
  BY <1>4, <1>5, FS_Union DEF Packets

PacketsWith(r) == {p \in Packets : r \in p[1]}

LEMMA WireSum ==
  ASSUME PacketsOK, NEW r
  PROVE  /\ WireSends(r) = SumOver(sent, PacketsWith(r)) /\ WireSends(r) \in Nat
         /\ IsFiniteSet(PacketsWith(r)) /\ NatOn(sent, PacketsWith(r))
         /\ WireSends(r) = 0 <=> \A p \in PacketsWith(r) : sent[p] = 0
<1>1. IsFiniteSet(PacketsWith(r))
  BY FinitePackets, FS_Subset DEF PacketsWith
<1>2. NatOn(sent, PacketsWith(r))
  BY TransportsAssumption DEF PacketsOK, NatOn, PacketsWith
<1>3. WireSends(r) = SumOver(sent, PacketsWith(r))
  BY DEF WireSends, SumOver, PacketsWith
<1> QED
  BY <1>1, <1>2, <1>3, SumWithout, SumOfZeros

\* A request is in at most one packet of every attempt.
LEMMA PacketsOfRequest ==
  ASSUME TransportsInv, NEW r \in Requests
  PROVE  LET T == {p \in PacketsWith(r) : Touched(p)}
         IN  IsFiniteSet(T) /\ Cardinality(T) <= MaxRetries + 1
<1> DEFINE T == {p \in PacketsWith(r) : Touched(p)}
           f == [p \in T |-> IF IsSingle(p) THEN MaxRetries ELSE p[2]]
<1>1. MaxRetries \in Nat
  BY BatchingAssumption
<1>2. \A p \in T : /\ p \in Packets /\ r \in p[1] /\ Touched(p)
                   /\ p[2] # MaxRetries /\ p[2] \in Nat
                   /\ ~IsSingle(p) => p[2] <= MaxRetries
  BY PacketForm DEF PacketsWith, TransportsInv, PacketInv
<1>3. f \in [T -> 0 .. MaxRetries]
  BY <1>1, <1>2
<1>4. \A p, q \in T : f[p] = f[q] => p[2] = q[2]
  BY <1>2 DEF IsSingle
<1>5. \A p, q \in T : p[2] = q[2] => p = q
  BY <1>2 DEF TransportsInv, OnePerAttempt, Meet
<1>6. f \in Injection(T, 0 .. MaxRetries)
  BY <1>3, <1>4, <1>5 DEF Injection, IsInjective
<1>7. IsFiniteSet(0 .. MaxRetries) /\ Cardinality(0 .. MaxRetries) = MaxRetries + 1
  BY <1>1, FS_Interval
<1> HIDE DEF T, f
<1>8. IsFiniteSet(T) /\ Cardinality(T) <= Cardinality(0 .. MaxRetries)
  BY <1>6, <1>7, FS_Injection
<1> QED
  BY <1>7, <1>8 DEF T

\* Whatever the inner transport answers, an endpoint sees a request at most
\* max_missing_retries + 1 times as often as one call of the inner transport sends
\* a packet.
THEOREM WireIsBounded == ComposedSpec => []WireBounded
<1>1. TransportsInv => WireBounded
  <2> SUFFICES ASSUME TransportsInv, NEW r \in Requests
               PROVE  WireSends(r) <= (MaxRetries + 1) * InnerSends
    BY DEF WireBounded
  <2> DEFINE T == {p \in PacketsWith(r) : Touched(p)}
  <2>1. PacketsOK /\ InnerSends \in Nat /\ MaxRetries \in Nat
    BY TransportsAssumption, BatchingAssumption DEF TransportsInv
  <2>2. /\ WireSends(r) = SumOver(sent, PacketsWith(r)) /\ WireSends(r) \in Nat
        /\ IsFiniteSet(PacketsWith(r)) /\ NatOn(sent, PacketsWith(r))
    BY <2>1, WireSum
  <2>3. IsFiniteSet(T) /\ Cardinality(T) <= MaxRetries + 1
    BY PacketsOfRequest
  <2>4. T \in SUBSET PacketsWith(r) /\ NatOn(sent, T)
    BY <2>2 DEF NatOn
  <2>5. \A p \in PacketsWith(r) \ T : sent[p] = 0
    BY DEF PacketsWith, TransportsInv, InnerInv, Touched
  <2>6. \A p \in T : sent[p] <= InnerSends
    BY <2>1 DEF PacketsWith, PacketsOK
  <2> HIDE DEF T
  <2>7. WireSends(r) = SumOver(sent, T)
    BY <2>2, <2>4, <2>5, SumOfSupport
  <2>8. SumOver(sent, T) <= InnerSends * Cardinality(T)
    BY <2>1, <2>3, <2>4, <2>6, SumAtMost
  <2>9. Cardinality(T) \in Nat
    BY <2>3, FS_CardinalityType
  <2>10. \A k, m, n \in Nat : m <= n => k * m <= n * k
    OBVIOUS
  <2>11. InnerSends * Cardinality(T) <= (MaxRetries + 1) * InnerSends
    BY <2>1, <2>3, <2>9, <2>10
  <2> QED
    BY <2>1, <2>2, <2>7, <2>8, <2>9, <2>11
<1> QED
  BY <1>1, AlwaysComposedInv, PTL

\* A request is refused for the size of its packet only if no endpoint was or
\* will be sent it: batches are refused whole, first, and shrink from then on.
THEOREM RefusalsAreUnsent == ComposedSpec => []RefusedUnsent
<1>1. TransportsInv => RefusedUnsent
  <2> SUFFICES ASSUME TransportsInv, NEW p \in Packets, answer[p] = "exceeds_every_limit",
                      NEW r \in p[1]
               PROVE  WireSends(r) = 0
    BY DEF RefusedUnsent
  <2>1. \A q \in PacketsWith(r) : sent[q] = 0
    BY DEF PacketsWith, TransportsInv, RefusedInv, Meet
  <2> QED
    BY <2>1, WireSum DEF TransportsInv
<1> QED
  BY <1>1, AlwaysComposedInv, PTL

\* No call returns a response no endpoint gave to a packet with its requests.
THEOREM ResponsesAreOfEndpoints == ComposedSpec => []ResponsesAreReal
<1>1. TransportsInv => ResponsesAreReal
  <2> SUFFICES ASSUME TransportsInv, NEW c \in Calls, result[c] = "response",
                      NEW r \in ToSet(RequestsOf[c])
               PROVE  \E p \in Packets : r \in p[1] /\ answer[p] = "ok"
    BY DEF ResponsesAreReal
  <2>1. PICK i \in 1 .. Len(RequestsOf[c]) : RequestsOf[c][i] = r
    BY CallRequests, InSequence
  <2>2. reply[r] = "response"
    BY <2>1 DEF TransportsInv, ReceivedInv
  <2>3. r \in Requests
    BY CallRequests, InSequence
  <2> QED
    BY <2>2, <2>3 DEF TransportsInv, ResponseInv
<1> QED
  BY <1>1, AlwaysComposedInv, PTL

\* No batch, retry round or individual send puts an answered request on the wire.
THEOREM AnsweredAreNotSent == ComposedSpec => AnsweredLeavesTheWire
<1>1. BatchingInv /\ TransportsInv /\ [ComposedNext]_composed =>
        [sent' # sent => \A p \in Packets : sent'[p] # sent[p] =>
                           \A r \in p[1] : reply[r] = "none"]_composed
  <2> SUFFICES ASSUME BatchingInv, TransportsInv, ComposedNext, sent' # sent,
                      NEW p \in Packets, sent'[p] # sent[p]
               PROVE  \A r \in p[1] : reply[r] = "none"
    BY DEF composed, inner
  <2>1. InnerStep
    BY DEF ComposedNext, OuterStep, ComposedTaskStep, inner
  <2>2. PICK q \in Out : Up!Accept(q) \/ Up!Refuse(q) \/ Up!Transmit(q) \/ Up!Reply(q)
    BY <2>1 DEF InnerStep, Out
  <2>3. NoneEmpty /\ PacketsOK /\ \A u \in Packets : InnerInv(u)
    BY TransportsParts
  <2>4. q \in Packets /\ \A r \in q[1] : reply[r] = "none"
    BY <2>3, OutForm
  <2>5. p = q
    BY <2>2, <2>3, <2>4, InnerEffects
  <2> QED
    BY <2>4, <2>5
<1> QED
  BY <1>1, AlwaysComposedInv, PTL DEF ComposedSpec, AnsweredLeavesTheWire
=============================================================================
