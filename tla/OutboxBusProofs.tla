--------------------------- MODULE OutboxBusProofs ---------------------------
(***************************************************************************)
(* Proofs about OutboxBus, for any deliveries, routes and dispatchers, and *)
(* for overlapping dispatcher processes as well as for a single one.       *)
(***************************************************************************)
EXTENDS OutboxBus, WellFoundedInduction, TLAPS

\* The row a dispatcher is about to mark has had at least the attempts it
\* read, whoever has taken the row over since.
ReadStaysTrue ==
    \A w \in Dispatchers : pc[w] = "failing" => seen[w] <= attempts[Current(w)]

Inv == EffectivelyOnce /\ SendingIsReclaimable /\ DeadIsAccounted /\ ReadStaysTrue

\* The delivery a dispatcher is at depends on its batch alone.
LEMMA SameBatch ==
    ASSUME NEW w \in Dispatchers, batch'[w] = batch[w]
    PROVE  Current(w)' = Current(w)
BY DEF Current

\* A batch that is not empty has a first delivery, as ids are numbers.
LEMMA LeastDelivery ==
    ASSUME NEW B \in SUBSET Deliveries, B # {}
    PROVE  \E d \in B : \A o \in B : d <= o
<1> DEFINE R == OpToRel(<, Nat)
<1>1. B \subseteq Nat
  BY BusAssumption
<1>2. IsWellFoundedOn(R, Nat)
  BY NatLessThanWellFounded
<1>3. \A x, y \in Nat : <<y, x>> \in R <=> y < x
  BY DEF OpToRel
<1> HIDE DEF R
<1>4. \E x \in B : \A y \in B : ~(<<y, x>> \in R)
  BY <1>1, <1>2, WFMin, Zenon
<1>5. QED
  <2>1. PICK x \in B : \A y \in B : ~(<<y, x>> \in R)
    BY <1>4
  <2>2. \A y \in B : ~(y < x)
    BY <1>1, <1>3, <2>1, Zenon
  <2>3. \A y \in B : x <= y
    BY <1>1, <2>2
  <2>4. QED
    BY <2>1, <2>3

\* A dispatcher that is at work is at a delivery of its batch.
LEMMA CurrentInBatch ==
    ASSUME NEW w \in Dispatchers, batch[w] \in SUBSET Deliveries, batch[w] # {}
    PROVE  Current(w) \in batch[w]
BY LeastDelivery DEF Current

\* The route of a dispatcher's current delivery is a sequence of consumers.
LEMMA CurrentRoute ==
    ASSUME ProcessTyped, NEW w \in Dispatchers, pc[w] \in Busy
    PROVE  Current(w) \in Deliveries /\ Route[Current(w)] \in Seq(Consumers)
BY CurrentInBatch, BusAssumption DEF ProcessTyped

\* Going on to the next delivery of the batch, from its first consumer.
LEMMA ProceedTyped ==
    ASSUME TypeOK, NEW w \in Dispatchers, pc[w] \in Busy, Proceed(w)
    PROVE  ProcessTyped'
<1> USE DEF TypeOK, ProcessTyped, Busy, Proceed
<1>1. pc' \in [Dispatchers -> Busy \cup {"new", "poll", "dead"}]
  OBVIOUS
<1>2. batch' \in [Dispatchers -> SUBSET Deliveries]
  OBVIOUS
<1>3. next' \in [Dispatchers -> Nat] /\ seen' \in [Dispatchers -> 0..MaxAttempts]
  OBVIOUS
<1>4. ASSUME NEW p \in Dispatchers
      PROVE  /\ pc'[p] \in Busy <=> batch'[p] # {}
             /\ pc'[p] \in Busy => next'[p] \in 1..(Len(Route[Current(p)']) + 1)
  <2>1. CASE p # w
    BY <2>1, SameBatch
  <2>2. CASE p = w
    <3>1. pc'[w] \in Busy <=> batch'[w] # {}
      OBVIOUS
    <3>2. ASSUME pc'[w] \in Busy PROVE Len(Route[Current(w)']) \in Nat
      <4>1. \E d \in batch'[w] : \A o \in batch'[w] : d <= o
        BY <1>2, <3>1, <3>2, LeastDelivery
      <4>2. Current(w)' \in batch'[w]
        BY <4>1 DEF Current
      <4>3. Current(w)' \in Deliveries
        BY <1>2, <4>2
      <4>4. QED
        BY <4>3, BusAssumption
    <3>3. next'[w] = 1
      OBVIOUS
    <3>4. QED
      BY <2>2, <3>1, <3>2, <3>3
  <2>3. QED
    BY <2>1, <2>2
<1>5. QED
  BY <1>1, <1>2, <1>3, <1>4

\* A step that leaves the batches alone keeps the processes typed when it
\* leaves every dispatcher at work at a consumer of its delivery, or past all.
LEMMA SameBatchesTyped ==
    ASSUME ProcessTyped, batch' = batch,
           pc' \in [Dispatchers -> Busy \cup {"new", "poll", "dead"}],
           next' \in [Dispatchers -> Nat],
           seen' \in [Dispatchers -> 0..MaxAttempts],
           \A p \in Dispatchers :
              /\ pc'[p] \in Busy <=> pc[p] \in Busy
              /\ pc'[p] \in Busy => next'[p] \in 1..(Len(Route[Current(p)]) + 1)
    PROVE  ProcessTyped'
<1>1. \A p \in Dispatchers : Current(p)' = Current(p)
  BY SameBatch
<1>2. QED
  BY <1>1 DEF ProcessTyped

\* A consumer's transaction adds the inbox row and one run of its handler, or
\* it adds nothing.
LEMMA ConsumerStep ==
    ASSUME ConsumersTyped, NEW w, NEW c \in Consumers, NEW e \in Events,
           ConsumeEvent(w, c, e) \/ HandlerRaises(w, c, e)
    PROVE  ConsumersTyped' /\ (EffectivelyOnce => EffectivelyOnce')
<1>1. <<c, e>> \in Consumers \X Events
  OBVIOUS
<1>2. CASE UNCHANGED consumerVars
  BY <1>2 DEF consumerVars, ConsumersTyped, EffectivelyOnce
<1>3. CASE /\ <<c, e>> \notin inbox
           /\ inbox' = inbox \cup {<<c, e>>}
           /\ effects' = [effects EXCEPT ![<<c, e>>] = effects[<<c, e>>] + 1]
  <2>1. ConsumersTyped'
    <3>1. inbox' \subseteq Consumers \X Events
      BY <1>1, <1>3 DEF ConsumersTyped
    <3>2. effects' \in [Consumers \X Events -> Nat]
      BY <1>1, <1>3 DEF ConsumersTyped
    <3>3. QED
      BY <3>1, <3>2 DEF ConsumersTyped
  <2>2. ASSUME EffectivelyOnce, NEW k \in Consumers, NEW f \in Events
        PROVE  effects'[<<k, f>>] = IF <<k, f>> \in inbox' THEN 1 ELSE 0
    <3>1. CASE <<k, f>> = <<c, e>>
      BY <1>1, <1>3, <2>2, <3>1 DEF ConsumersTyped, EffectivelyOnce
    <3>2. CASE <<k, f>> # <<c, e>>
      <4>1. effects'[<<k, f>>] = effects[<<k, f>>]
        BY <1>3, <3>2 DEF ConsumersTyped
      <4>2. <<k, f>> \in inbox' <=> <<k, f>> \in inbox
        BY <1>3, <3>2
      <4>3. QED
        BY <2>2, <4>1, <4>2 DEF EffectivelyOnce
    <3>3. QED
      BY <3>1, <3>2
  <2>3. QED
    BY <2>1, <2>2 DEF EffectivelyOnce
<1>4. QED
  BY <1>2, <1>3 DEF ConsumeEvent, HandlerRaises

\* What a dispatcher read stays a lower bound while no attempt is taken back
\* and it goes on with the same delivery.
LEMMA ReadKept ==
    ASSUME TypeOK, ReadStaysTrue,
           \A d \in Deliveries : attempts'[d] \in Nat /\ attempts[d] <= attempts'[d],
           \A p \in Dispatchers : pc'[p] = "failing" =>
              pc[p] = "failing" /\ batch'[p] = batch[p] /\ seen'[p] = seen[p]
    PROVE  ReadStaysTrue'
<1> SUFFICES ASSUME NEW p \in Dispatchers, pc'[p] = "failing"
             PROVE  seen'[p] <= attempts'[Current(p)']
  BY DEF ReadStaysTrue
<1>1. pc[p] = "failing" /\ Current(p)' = Current(p) /\ seen'[p] = seen[p]
  BY SameBatch
<1>2. Current(p) \in Deliveries
  BY <1>1, CurrentRoute DEF TypeOK, Busy
<1>3. /\ seen[p] \in Nat /\ attempts[Current(p)] \in Nat
      /\ attempts'[Current(p)] \in Nat /\ attempts[Current(p)] <= attempts'[Current(p)]
  <2>1. seen[p] \in 0..MaxAttempts
    BY DEF TypeOK, ProcessTyped
  <2>2. attempts[Current(p)] \in 0..MaxAttempts
    BY <1>2 DEF TypeOK, RowsTyped
  <2>3. MaxAttempts \in Nat
    BY BusAssumption
  <2>4. seen[p] \in Nat /\ attempts[Current(p)] \in Nat
    BY <2>1, <2>2, <2>3
  <2>5. QED
    BY <1>2, <2>4
<1>4. seen[p] <= attempts[Current(p)]
  BY <1>1 DEF ReadStaysTrue
<1>5. QED
  BY <1>1, <1>3, <1>4

\* Every transaction keeps rows, inbox and processes in their domains; in
\* particular a publication never runs past the consumers of its topic.
THEOREM TypeCorrect == Spec => []TypeOK
<1>1. Init => TypeOK
  BY BusAssumption
     DEF Init, TypeOK, RowsTyped, ConsumersTyped, ProcessTyped, Busy
<1>2. ASSUME TypeOK, [Next]_vars PROVE TypeOK'
  <2> USE BusAssumption, <1>2 DEF TypeOK, RowsTyped, ConsumersTyped
  <2>1. ASSUME NEW e \in Events, AppendEvent(e) PROVE TypeOK'
    <3>1. \A p \in Dispatchers : Current(p)' = Current(p)
      BY <2>1, SameBatch DEF AppendEvent, processVars
    <3>2. ProcessTyped'
      BY <2>1, <3>1 DEF AppendEvent, processVars, ProcessTyped
    <3>3. QED
      BY <2>1, <3>2 DEF AppendEvent, consumerVars
  <2>2. ASSUME NEW w \in Dispatchers, ClaimBatch(w) PROVE TypeOK'
    <3>1. NextBatch \subseteq Deliveries /\ NextBatch # {}
      BY <2>2 DEF NextBatch, ClaimBatch
    <3>2. RowsTyped'
      BY <2>2, <3>1 DEF ClaimBatch
    <3>3. /\ pc' \in [Dispatchers -> Busy \cup {"new", "poll", "dead"}]
          /\ batch' \in [Dispatchers -> SUBSET Deliveries]
          /\ next' \in [Dispatchers -> Nat] /\ seen' = seen
      BY <2>2, <3>1 DEF ClaimBatch, ProcessTyped, Busy
    <3>4. ASSUME NEW p \in Dispatchers
          PROVE  /\ pc'[p] \in Busy <=> batch'[p] # {}
                 /\ pc'[p] \in Busy => next'[p] \in 1..(Len(Route[Current(p)']) + 1)
      <4>1. CASE p # w
        BY <2>2, <4>1, SameBatch DEF ClaimBatch, ProcessTyped
      <4>2. CASE p = w
        <5>1. pc'[w] = "publish" /\ batch'[w] = NextBatch /\ next'[w] = 1
          BY <2>2 DEF ClaimBatch, ProcessTyped
        <5>2. \E d \in batch'[w] : \A o \in batch'[w] : d <= o
          BY <3>1, <5>1, LeastDelivery
        <5>3. Current(w)' \in Deliveries
          BY <3>1, <5>1, <5>2 DEF Current
        <5>4. Len(Route[Current(w)']) \in Nat
          BY <5>3
        <5>5. QED
          BY <3>1, <4>2, <5>1, <5>4 DEF Busy
      <4>3. QED
        BY <4>1, <4>2
    <3>5. ProcessTyped'
      BY <3>3, <3>4 DEF ProcessTyped
    <3>6. QED
      BY <2>2, <3>2, <3>5 DEF ClaimBatch, consumerVars
  <2>3. ASSUME NEW w \in Dispatchers, Publish(w) PROVE TypeOK'
    <3> DEFINE c == ConsumerNow(w)
               e == EventOf[Current(w)]
    <3>1. pc[w] \in Busy /\ next[w] \in 1..Len(Route[Current(w)])
      BY <2>3 DEF Publish, Busy, ProcessTyped
    <3>2. Current(w) \in Deliveries /\ Route[Current(w)] \in Seq(Consumers)
      BY <3>1, CurrentRoute
    <3>3. c \in Consumers
      BY <3>1, <3>2 DEF ConsumerNow
    <3>4. e \in Events
      BY <3>2 DEF Events
    <3>5. ConsumersTyped'
      <4>1. ConsumeEvent(w, c, e) \/ HandlerRaises(w, c, e)
        BY <2>3 DEF Publish
      <4>2. QED
        BY <3>3, <3>4, <4>1, ConsumerStep
    <3>6. batch' = batch /\ seen' = seen
      BY <2>3 DEF Publish, ConsumeEvent, HandlerRaises, Advance
    <3>7. \/ pc' = pc /\ next' = [next EXCEPT ![w] = next[w] + 1]
          \/ pc' = [pc EXCEPT ![w] = "raised"] /\ next' = next
      BY <2>3 DEF Publish, ConsumeEvent, HandlerRaises, Advance
    <3>8. Len(Route[Current(w)]) \in Nat
      BY <3>2
    <3>9. /\ pc' \in [Dispatchers -> Busy \cup {"new", "poll", "dead"}]
          /\ next' \in [Dispatchers -> Nat]
      <4>1. next[w] + 1 \in Nat
        BY DEF ProcessTyped
      <4>2. next' \in [Dispatchers -> Nat]
        BY <3>7, <4>1 DEF ProcessTyped
      <4>3. pc' \in [Dispatchers -> Busy \cup {"new", "poll", "dead"}]
        BY <3>7 DEF ProcessTyped, Busy
      <4>4. QED
        BY <4>2, <4>3
    <3>10. ASSUME NEW p \in Dispatchers
           PROVE  /\ pc'[p] \in Busy <=> pc[p] \in Busy
                  /\ pc'[p] \in Busy => next'[p] \in 1..(Len(Route[Current(p)]) + 1)
      <4>1. CASE p = w
        BY <3>1, <3>7, <3>8, <4>1 DEF ProcessTyped, Busy
      <4>2. CASE p # w
        BY <3>7, <4>2 DEF ProcessTyped
      <4>3. QED
        BY <4>1, <4>2
    <3>11. QED
      <4>1. ProcessTyped'
        BY <3>6, <3>9, <3>10, SameBatchesTyped DEF ProcessTyped
      <4>2. QED
        BY <2>3, <3>5, <4>1 DEF Publish, rowVars
  <2>4. ASSUME NEW w \in Dispatchers, NoRoute(w) PROVE TypeOK'
    <3>1. \A p \in Dispatchers : Current(p)' = Current(p)
      BY <2>4, SameBatch DEF NoRoute
    <3>2. ProcessTyped'
      BY <2>4, <3>1 DEF NoRoute, ProcessTyped, Busy
    <3>3. QED
      BY <2>4, <3>2 DEF NoRoute, rowVars, consumerVars
  <2>5. ASSUME NEW w \in Dispatchers, ReadRow(w) PROVE TypeOK'
    <3>1. pc[w] \in Busy
      BY <2>5 DEF ReadRow, Busy
    <3>2. CASE OwnsLease(w)
      <4>1. attempts[Current(w)] \in 0..MaxAttempts
        BY <3>1, CurrentRoute
      <4>2. /\ batch' = batch /\ next' = next
            /\ pc' \in [Dispatchers -> Busy \cup {"new", "poll", "dead"}]
            /\ seen' \in [Dispatchers -> 0..MaxAttempts]
        BY <2>5, <3>2, <4>1 DEF ReadRow, ProcessTyped, Busy
      <4>3. \A p \in Dispatchers : pc'[p] \in Busy <=> pc[p] \in Busy
        BY <2>5, <3>1, <3>2 DEF ReadRow, ProcessTyped, Busy
      <4>4. ProcessTyped'
        BY <4>2, <4>3, SameBatchesTyped DEF ProcessTyped
      <4>5. QED
        BY <2>5, <4>4 DEF ReadRow, rowVars, consumerVars
    <3>3. CASE ~OwnsLease(w)
      BY <2>5, <3>1, <3>3, ProceedTyped DEF ReadRow, rowVars, consumerVars
    <3>4. QED
      BY <3>2, <3>3
  <2>6. ASSUME NEW w \in Dispatchers, MarkSuccess(w) \/ MarkRetry(w) \/ MarkDead(w)
        PROVE  TypeOK'
    <3>1. pc[w] \in Busy /\ Proceed(w)
      BY <2>6 DEF MarkSuccess, MarkRetry, MarkDead, Busy
    <3>2. Current(w) \in Deliveries
      BY <3>1, CurrentRoute
    <3>3. ProcessTyped'
      BY <3>1, ProceedTyped
    <3>4. RowsTyped' /\ ConsumersTyped'
      BY <2>6, <3>2 DEF MarkSuccess, MarkRetry, MarkDead, Mark, consumerVars
    <3>5. QED
      BY <3>3, <3>4
  <2>7. ASSUME NEW w \in Dispatchers, AbortCycle(w) \/ Kill(w) PROVE TypeOK'
    <3>1. \A p \in Dispatchers : p # w => Current(p)' = Current(p)
      BY <2>7, SameBatch DEF AbortCycle, Kill, ProcessTyped
    <3>2. ProcessTyped'
      <4>1. /\ pc'[w] \notin Busy /\ batch'[w] = {} /\ next' = next /\ seen' = seen
            /\ \A p \in Dispatchers : p # w => pc'[p] = pc[p] /\ batch'[p] = batch[p]
        BY <2>7 DEF AbortCycle, Kill, ProcessTyped, Busy
      <4>2. pc' \in [Dispatchers -> Busy \cup {"new", "poll", "dead"}]
        BY <2>7 DEF AbortCycle, Kill, ProcessTyped
      <4>3. batch' \in [Dispatchers -> SUBSET Deliveries]
        BY <2>7 DEF AbortCycle, Kill, ProcessTyped
      <4>4. QED
        BY <3>1, <4>1, <4>2, <4>3 DEF ProcessTyped
    <3>3. QED
      BY <2>7, <3>2 DEF AbortCycle, Kill, rowVars, consumerVars
  <2>8. ASSUME NEW w \in Dispatchers, Start(w) PROVE TypeOK'
    <3>1. \A p \in Dispatchers : Current(p)' = Current(p)
      BY <2>8, SameBatch DEF Start
    <3>2. ProcessTyped'
      BY <2>8, <3>1 DEF Start, ProcessTyped, Busy
    <3>3. QED
      BY <2>8, <3>2 DEF Start, rowVars, consumerVars
  <2>9. ASSUME NEW d \in Deliveries, LeaseLapses(d) \/ BackoffElapses(d) PROVE TypeOK'
    <3>1. \A p \in Dispatchers : Current(p)' = Current(p)
      BY <2>9, SameBatch DEF LeaseLapses, BackoffElapses, processVars
    <3>2. ProcessTyped'
      BY <2>9, <3>1 DEF LeaseLapses, BackoffElapses, processVars, ProcessTyped
    <3>3. QED
      BY <2>9, <3>2 DEF LeaseLapses, BackoffElapses, consumerVars
  <2>10. CASE UNCHANGED vars
    <3>1. \A p \in Dispatchers : Current(p)' = Current(p)
      BY <2>10, SameBatch DEF vars, processVars
    <3>2. ProcessTyped'
      BY <2>10, <3>1 DEF vars, processVars, ProcessTyped
    <3>3. QED
      BY <2>10, <3>2 DEF vars, rowVars, consumerVars
  <2>11. QED
    BY <2>1, <2>2, <2>3, <2>4, <2>5, <2>6, <2>7, <2>8, <2>9, <2>10 DEF Next, Dispatch
<1>3. QED
  BY <1>1, <1>2, PTL DEF Spec

\* Initially nothing has been appended or consumed.
LEMMA BusInit == Init => Inv
BY BusAssumption
   DEF Init, Inv, EffectivelyOnce, SendingIsReclaimable, DeadIsAccounted, ReadStaysTrue

\* One transaction of any dispatcher, consumer or publisher keeps Inv.
LEMMA BusStep ==
    ASSUME TypeOK, Inv, [Next]_vars
    PROVE  Inv'
<1> USE BusAssumption DEF Inv
<1>0. /\ UNCHANGED consumerVars => EffectivelyOnce'
      /\ UNCHANGED rowVars => SendingIsReclaimable' /\ DeadIsAccounted'
      /\ \A d \in Deliveries : attempts[d] \in Nat
      /\ \A p \in Dispatchers : pc[p] \in Busy => Current(p) \in Deliveries
  BY CurrentRoute
     DEF consumerVars, rowVars, EffectivelyOnce, SendingIsReclaimable, DeadIsAccounted,
         TypeOK, RowsTyped
<1>1. ASSUME NEW e \in Events, AppendEvent(e) PROVE Inv'
  <2>1. ReadStaysTrue'
    BY <1>0, <1>1, ReadKept DEF AppendEvent, processVars
  <2>2. \A d \in Deliveries : row'[d] = row[d] \/ (row[d] = "absent" /\ row'[d] = "pending")
    BY <1>1 DEF AppendEvent, TypeOK, RowsTyped
  <2>3. SendingIsReclaimable' /\ DeadIsAccounted'
    BY <1>1, <2>2 DEF AppendEvent, SendingIsReclaimable, DeadIsAccounted
  <2>4. QED
    BY <1>0, <1>1, <2>1, <2>3 DEF AppendEvent
<1>2. ASSUME NEW w \in Dispatchers, ClaimBatch(w) PROVE Inv'
  <2>1. \A d \in NextBatch : d \in Deliveries /\ row[d] \in {"pending", "sending"}
    BY DEF NextBatch, Claimable
  <2>2. \A p \in Dispatchers : pc'[p] = "failing" =>
           pc[p] = "failing" /\ batch'[p] = batch[p] /\ seen'[p] = seen[p]
    BY <1>2 DEF ClaimBatch, TypeOK, ProcessTyped
  <2>3. \A d \in Deliveries : attempts'[d] \in Nat /\ attempts[d] <= attempts'[d]
    BY <1>0, <1>2 DEF ClaimBatch
  <2>4. ReadStaysTrue'
    BY <2>2, <2>3, ReadKept
  <2>5. SendingIsReclaimable'
    BY <1>2 DEF ClaimBatch, SendingIsReclaimable
  <2>6. DeadIsAccounted'
    BY <1>2, <2>1 DEF ClaimBatch, DeadIsAccounted
  <2>7. QED
    BY <1>0, <1>2, <2>4, <2>5, <2>6 DEF ClaimBatch
<1>3. ASSUME NEW w \in Dispatchers, Publish(w) PROVE Inv'
  <2> DEFINE c == ConsumerNow(w)
             e == EventOf[Current(w)]
  <2>1. pc[w] \in Busy /\ next[w] \in 1..Len(Route[Current(w)])
    BY <1>3 DEF Publish, Busy, TypeOK, ProcessTyped
  <2>2. Current(w) \in Deliveries /\ Route[Current(w)] \in Seq(Consumers)
    BY <2>1, CurrentRoute DEF TypeOK
  <2>3. c \in Consumers /\ e \in Events
    BY <2>1, <2>2 DEF ConsumerNow, Events
  <2>4. ConsumeEvent(w, c, e) \/ HandlerRaises(w, c, e)
    BY <1>3 DEF Publish
  <2>5. EffectivelyOnce'
    BY <2>3, <2>4, ConsumerStep DEF TypeOK
  <2>6. \A p \in Dispatchers : pc'[p] = "failing" =>
           pc[p] = "failing" /\ batch'[p] = batch[p] /\ seen'[p] = seen[p]
    BY <2>4 DEF ConsumeEvent, HandlerRaises, Advance, TypeOK, ProcessTyped
  <2>7. ReadStaysTrue'
    BY <1>0, <1>3, <2>6, ReadKept DEF Publish, rowVars
  <2>8. QED
    BY <1>0, <1>3, <2>5, <2>7 DEF Publish
<1>4. ASSUME NEW w \in Dispatchers, NoRoute(w) \/ AbortCycle(w) \/ Kill(w) \/ Start(w)
      PROVE  Inv'
  <2>1. UNCHANGED <<rowVars, consumerVars>>
    BY <1>4 DEF NoRoute, AbortCycle, Kill, Start
  <2>2. \A p \in Dispatchers : pc'[p] = "failing" =>
           pc[p] = "failing" /\ batch'[p] = batch[p] /\ seen'[p] = seen[p]
    BY <1>4 DEF NoRoute, AbortCycle, Kill, Start, TypeOK, ProcessTyped
  <2>3. ReadStaysTrue'
    BY <1>0, <2>1, <2>2, ReadKept DEF rowVars
  <2>4. QED
    BY <1>0, <2>1, <2>3
<1>5. ASSUME NEW w \in Dispatchers, ReadRow(w) PROVE Inv'
  <2>1. UNCHANGED <<rowVars, consumerVars>>
    BY <1>5 DEF ReadRow
  <2>2. \A p \in Dispatchers : p # w /\ pc'[p] = "failing" =>
           pc[p] = "failing" /\ batch'[p] = batch[p] /\ seen'[p] = seen[p]
    BY <1>5 DEF ReadRow, Proceed, TypeOK, ProcessTyped
  <2>3. CASE OwnsLease(w)
    <3>1. \A p \in Dispatchers : Current(p)' = Current(p)
      BY <1>5, <2>3, SameBatch DEF ReadRow
    <3>2. Current(w) \in Deliveries
      BY <1>0, <1>5 DEF ReadRow, Busy
    <3>3. seen'[w] = attempts[Current(w)]
      BY <1>5, <2>3 DEF ReadRow, TypeOK, ProcessTyped
    <3>4. \A p \in Dispatchers : pc'[p] = "failing" => seen'[p] <= attempts[Current(p)]
      <4>1. ASSUME NEW p \in Dispatchers, pc'[p] = "failing", p = w
            PROVE  seen'[p] <= attempts[Current(p)]
        BY <1>0, <3>2, <3>3, <4>1
      <4>2. QED
        BY <2>2, <4>1 DEF ReadStaysTrue
    <3>5. ReadStaysTrue'
      BY <2>1, <3>1, <3>4 DEF ReadStaysTrue, rowVars
    <3>6. QED
      BY <1>0, <2>1, <3>5
  <2>4. CASE ~OwnsLease(w)
    <3>1. pc'[w] # "failing"
      BY <1>5, <2>4 DEF ReadRow, Proceed, TypeOK, ProcessTyped
    <3>2. ReadStaysTrue'
      BY <1>0, <2>1, <2>2, <3>1, ReadKept DEF rowVars
    <3>3. QED
      BY <1>0, <2>1, <3>2
  <2>5. QED
    BY <2>3, <2>4
<1>6. ASSUME NEW w \in Dispatchers, MarkSuccess(w) \/ MarkRetry(w) \/ MarkDead(w)
      PROVE  Inv'
  <2>1. Current(w) \in Deliveries
    BY <1>0, <1>6 DEF MarkSuccess, MarkRetry, MarkDead, Busy
  <2>2. UNCHANGED <<attempts, consumerVars>>
    BY <1>6 DEF MarkSuccess, MarkRetry, MarkDead
  <2>3. \A p \in Dispatchers : pc'[p] = "failing" =>
           pc[p] = "failing" /\ batch'[p] = batch[p] /\ seen'[p] = seen[p]
    BY <1>6 DEF MarkSuccess, MarkRetry, MarkDead, Proceed, TypeOK, ProcessTyped
  <2>4. ReadStaysTrue'
    BY <1>0, <2>2, <2>3, ReadKept
  <2>5. PICK s \in {"dispatched", "pending", "dead"} : Mark(Current(w), s)
    BY <1>6 DEF MarkSuccess, MarkRetry, MarkDead
  <2>6. SendingIsReclaimable'
    BY <2>1, <2>5 DEF Mark, SendingIsReclaimable, TypeOK, RowsTyped
  <2>7. DeadIsAccounted'
    <3>1. CASE MarkDead(w)
      <4>1. seen[w] = MaxAttempts /\ seen[w] <= attempts[Current(w)]
        BY <3>1 DEF MarkDead, ReadStaysTrue
      <4>2. attempts[Current(w)] = MaxAttempts
        BY <2>1, <4>1 DEF TypeOK, RowsTyped
      <4>3. QED
        BY <2>1, <2>2, <3>1, <4>2 DEF MarkDead, Mark, DeadIsAccounted, TypeOK, RowsTyped
    <3>2. CASE MarkSuccess(w)
      BY <2>1, <2>2, <3>2 DEF MarkSuccess, Mark, DeadIsAccounted, TypeOK, RowsTyped
    <3>3. CASE MarkRetry(w)
      BY <2>1, <2>2, <3>3 DEF MarkRetry, Mark, DeadIsAccounted, TypeOK, RowsTyped
    <3>4. QED
      BY <1>6, <3>1, <3>2, <3>3
  <2>8. QED
    BY <1>0, <2>2, <2>4, <2>6, <2>7
<1>7. ASSUME NEW d \in Deliveries, LeaseLapses(d) \/ BackoffElapses(d) PROVE Inv'
  <2>1. UNCHANGED <<row, attempts, lessee, letters, consumerVars, processVars>>
    BY <1>7 DEF LeaseLapses, BackoffElapses
  <2>2. ReadStaysTrue'
    BY <1>0, <2>1, ReadKept DEF processVars
  <2>3. DeadIsAccounted'
    BY <2>1 DEF DeadIsAccounted
  <2>4. SendingIsReclaimable'
    BY <1>7, <2>1 DEF LeaseLapses, BackoffElapses, SendingIsReclaimable, TypeOK, RowsTyped
  <2>5. QED
    BY <1>0, <2>1, <2>2, <2>3, <2>4
<1>8. CASE UNCHANGED vars
  <2>1. ReadStaysTrue'
    BY <1>0, <1>8, ReadKept DEF vars, rowVars, processVars
  <2>2. QED
    BY <1>0, <1>8, <2>1 DEF vars
<1>9. QED
  BY <1>1, <1>2, <1>3, <1>4, <1>5, <1>6, <1>7, <1>8 DEF Next, Dispatch

\* consume_event: each consumer's writes for an event are committed once, for
\* any number of topics, dispatchers, crashes and stale markings.
THEOREM Once == Spec => []EffectivelyOnce
<1>1. Inv => EffectivelyOnce
  BY DEF Inv
<1>2. QED
  BY <1>1, BusInit, BusStep, TypeCorrect, PTL DEF Spec

\* claim_batch, _mark_success and _mark_failure: a row in delivery has a lease
\* that will lapse, so some dispatcher can take it over.
THEOREM Reclaimable == Spec => []SendingIsReclaimable
<1>1. Inv => SendingIsReclaimable
  BY DEF Inv
<1>2. QED
  BY <1>1, BusInit, BusStep, TypeCorrect, PTL DEF Spec

\* _mark_failure: no delivery is given up before its last attempt, and none
\* without a dead letter.
THEOREM DeadAccounted == Spec => []DeadIsAccounted
<1>1. Inv => DeadIsAccounted
  BY DEF Inv
<1>2. QED
  BY <1>1, BusInit, BusStep, TypeCorrect, PTL DEF Spec

-----------------------------------------------------------------------------
(* What dispatched is worth.                                               *)

\* The i-th consumer of a delivery has consumed its event, or is one whose
\* own constraint failure consume_event takes for "already consumed".
Served(d, i) == Route[d][i] \in Conflicting \/ <<Route[d][i], EventOf[d]>> \in inbox

\* A publication has served the consumers it went past, and is marked a
\* success only past the last one.
ServedSoFar(w) ==
    pc[w] \in {"publish", "marking"} =>
        /\ \A i \in DOMAIN Route[Current(w)] : i < next[w] => Served(Current(w), i)
        /\ pc[w] = "marking" => next[w] > Len(Route[Current(w)])

DispatchedWasServed ==
    \A d \in Deliveries : row[d] = "dispatched" => \A i \in DOMAIN Route[d] : Served(d, i)

ServedInv == DispatchedWasServed /\ \A w \in Dispatchers : ServedSoFar(w)

\* A dispatcher that goes on where it is, or starts a delivery from its first
\* consumer, has still served those before.
LEMMA ServedKept ==
    ASSUME TypeOK', NEW w \in Dispatchers, ServedSoFar(w), inbox \subseteq inbox',
           pc'[w] \in {"publish", "marking"} =>
              \/ next'[w] = 1 /\ pc'[w] = "publish"
              \/ pc'[w] = pc[w] /\ next'[w] = next[w] /\ batch'[w] = batch[w]
    PROVE  ServedSoFar(w)'
<1>1. CASE next'[w] = 1 /\ pc'[w] = "publish"
  <2>1. batch'[w] \in SUBSET Deliveries /\ batch'[w] # {}
    BY <1>1 DEF TypeOK, ProcessTyped, Busy
  <2>2. \E d \in batch'[w] : \A o \in batch'[w] : d <= o
    BY <2>1, LeastDelivery
  <2>3. Current(w)' \in Deliveries
    BY <2>1, <2>2 DEF Current
  <2>4. DOMAIN Route[Current(w)'] \subseteq Nat \ {0}
    BY <2>3, BusAssumption
  <2>5. QED
    BY <1>1, <2>4 DEF ServedSoFar
<1>2. CASE pc'[w] = pc[w] /\ next'[w] = next[w] /\ batch'[w] = batch[w]
  BY <1>2, SameBatch DEF ServedSoFar, Served
<1>3. QED
  BY <1>1, <1>2 DEF ServedSoFar

\* No transaction takes an inbox row back, marks a success early or goes past
\* a consumer it has not served.
LEMMA ServedStep ==
    ASSUME TypeOK, TypeOK', ServedInv, [Next]_vars
    PROVE  ServedInv'
<1> USE DEF TypeOK, ProcessTyped
<1>1. inbox \subseteq inbox'
  BY DEF Next, Dispatch, AppendEvent, Start, ClaimBatch, Publish, ConsumeEvent, HandlerRaises, NoRoute,
         ReadRow, MarkSuccess, MarkRetry, MarkDead, AbortCycle, Kill, LeaseLapses, BackoffElapses,
         consumerVars, vars
<1>2. ASSUME \A d \in Deliveries : row'[d] = "dispatched" => row[d] = "dispatched"
      PROVE  DispatchedWasServed'
  BY <1>1, <1>2 DEF ServedInv, DispatchedWasServed, Served
<1>3. ASSUME NEW w \in Dispatchers, \A p \in Dispatchers \ {w} : pc'[p] = pc[p] /\ next'[p] = next[p]
                                                              /\ batch'[p] = batch[p],
             ServedSoFar(w)'
      PROVE  \A p \in Dispatchers : ServedSoFar(p)'
  BY <1>1, <1>3, ServedKept DEF ServedInv
<1>4. ASSUME NEW w \in Dispatchers, ClaimBatch(w) PROVE ServedInv'
  <2>1. \A d \in Deliveries : row'[d] = "dispatched" => row[d] = "dispatched"
    BY <1>4 DEF ClaimBatch
  <2>2. ServedSoFar(w)'
    BY <1>1, <1>4, ServedKept DEF ClaimBatch, ServedInv
  <2>3. QED
    BY <1>2, <1>3, <1>4, <2>1, <2>2 DEF ClaimBatch, ServedInv
<1>5. ASSUME NEW w \in Dispatchers, Publish(w) PROVE ServedInv'
  <2>1. \A d \in Deliveries : row'[d] = row[d]
    BY <1>5 DEF Publish, rowVars
  <2>2. /\ pc[w] = "publish" /\ batch' = batch /\ next[w] \in Nat
        /\ Current(w) \in Deliveries /\ Current(w)' = Current(w)
    BY <1>5, CurrentRoute, SameBatch
       DEF Publish, ConsumeEvent, HandlerRaises, Advance, Busy
  <2>3. CASE HandlerRaises(w, ConsumerNow(w), EventOf[Current(w)])
    BY <1>1, <1>2, <1>3, <2>1, <2>3, ServedKept DEF HandlerRaises, ServedInv
  <2>4. CASE ConsumeEvent(w, ConsumerNow(w), EventOf[Current(w)])
    <3>1. \/ Route[Current(w)][next[w]] \in Conflicting
          \/ <<Route[Current(w)][next[w]], EventOf[Current(w)]>> \in inbox'
      BY <2>2, <2>4 DEF ConsumeEvent, ConsumerNow, consumerVars
    <3>2. pc' = pc /\ next'[w] = next[w] + 1
      BY <2>4 DEF ConsumeEvent, Advance
    <3>3. ASSUME NEW i \in DOMAIN Route[Current(w)], i < next[w] + 1
          PROVE  \/ Route[Current(w)][i] \in Conflicting
                 \/ <<Route[Current(w)][i], EventOf[Current(w)]>> \in inbox'
      <4>1. Route[Current(w)] \in Seq(Consumers)
        BY <2>2, BusAssumption
      <4>2. i \in Nat
        BY <4>1
      <4>3. CASE i = next[w]
        BY <3>1, <4>3
      <4>4. CASE i < next[w]
        BY <1>1, <2>2, <4>4 DEF ServedInv, ServedSoFar, Served
      <4>5. QED
        BY <2>2, <3>3, <4>2, <4>3, <4>4
    <3>4. ServedSoFar(w)'
      BY <2>2, <3>2, <3>3 DEF ServedSoFar, Served
    <3>5. QED
      BY <1>2, <1>3, <2>1, <2>4, <3>4 DEF ConsumeEvent, Advance, ServedInv
  <2>5. QED
    BY <1>5, <2>3, <2>4 DEF Publish
<1>6. ASSUME NEW w \in Dispatchers, ReadRow(w) PROVE ServedInv'
  <2>1. \A d \in Deliveries : row'[d] = row[d]
    BY <1>6 DEF ReadRow, rowVars
  <2>2. CASE OwnsLease(w)
    <3>1. Current(w)' = Current(w) /\ next'[w] = next[w] /\ pc'[w] \in {"failing", "marking"}
          /\ (pc'[w] = "marking" => pc[w] = "publish" /\ Published(w))
      BY <1>6, <2>2, SameBatch DEF ReadRow
    <3>2. ServedSoFar(w)'
      BY <1>1, <3>1 DEF ServedInv, ServedSoFar, Served, Published
    <3>3. QED
      BY <1>2, <1>3, <1>6, <2>1, <2>2, <3>2 DEF ReadRow, ServedInv
  <2>3. CASE ~OwnsLease(w)
    <3>1. ServedSoFar(w)'
      BY <1>1, <1>6, <2>3, ServedKept DEF ReadRow, Proceed, ServedInv
    <3>2. QED
      BY <1>2, <1>3, <1>6, <2>1, <2>3, <3>1 DEF ReadRow, Proceed, ServedInv
  <2>4. QED
    BY <2>2, <2>3
<1>7. ASSUME NEW w \in Dispatchers, MarkSuccess(w) \/ MarkRetry(w) \/ MarkDead(w) PROVE ServedInv'
  <2>1. pc[w] \in Busy /\ Proceed(w)
    BY <1>7 DEF MarkSuccess, MarkRetry, MarkDead, Busy
  <2>2. Current(w) \in Deliveries /\ Len(Route[Current(w)]) \in Nat /\ next[w] \in Nat
        /\ DOMAIN Route[Current(w)] = 1..Len(Route[Current(w)])
    BY <2>1, CurrentRoute
  <2>3. ServedSoFar(w)'
    BY <1>1, <2>1, ServedKept DEF Proceed, ServedInv
  <2>4. \A p \in Dispatchers : ServedSoFar(p)'
    BY <1>3, <2>1, <2>3 DEF Proceed
  <2>5. DispatchedWasServed'
    <3>1. CASE MarkSuccess(w)
      <4>1. \A i \in DOMAIN Route[Current(w)] : i < next[w] /\ Served(Current(w), i)
        BY <2>2, <3>1 DEF MarkSuccess, ServedInv, ServedSoFar
      <4>2. \A d \in Deliveries : d # Current(w) => row'[d] = row[d]
        BY <3>1 DEF MarkSuccess, Mark, RowsTyped
      <4>3. QED
        BY <1>1, <4>1, <4>2 DEF ServedInv, DispatchedWasServed, Served
    <3>2. CASE MarkRetry(w) \/ MarkDead(w)
      BY <1>2, <2>2, <3>2 DEF MarkRetry, MarkDead, Mark, RowsTyped
    <3>3. QED
      BY <1>7, <3>1, <3>2
  <2>6. QED
    BY <2>4, <2>5 DEF ServedInv
<1>8. ASSUME NEW w \in Dispatchers, NoRoute(w) \/ AbortCycle(w) \/ Kill(w) \/ Start(w) PROVE ServedInv'
  <2>1. \A d \in Deliveries : row'[d] = row[d]
    BY <1>8 DEF NoRoute, AbortCycle, Kill, Start, rowVars
  <2>2. pc'[w] \notin {"publish", "marking"}
    BY <1>8 DEF NoRoute, AbortCycle, Kill, Start
  <2>3. \A p \in Dispatchers \ {w} : pc'[p] = pc[p] /\ next'[p] = next[p] /\ batch'[p] = batch[p]
    BY <1>8 DEF NoRoute, AbortCycle, Kill, Start
  <2>4. QED
    BY <1>2, <1>3, <2>1, <2>2, <2>3 DEF ServedInv, ServedSoFar
<1>9. ASSUME \/ \E e \in Events : AppendEvent(e)
             \/ \E d \in Deliveries : LeaseLapses(d) \/ BackoffElapses(d)
             \/ UNCHANGED vars
      PROVE  ServedInv'
  <2>1. \A d \in Deliveries : row'[d] = "dispatched" => row[d] = "dispatched"
    BY <1>9 DEF AppendEvent, LeaseLapses, BackoffElapses, vars, rowVars
  <2>2. UNCHANGED <<pc, next, batch>>
    BY <1>9 DEF AppendEvent, LeaseLapses, BackoffElapses, vars, processVars
  <2>3. \A p \in Dispatchers : ServedSoFar(p)'
    BY <1>1, <2>2, ServedKept DEF ServedInv
  <2>4. QED
    BY <1>2, <2>1, <2>3 DEF ServedInv
<1>10. QED
  BY <1>4, <1>5, <1>6, <1>7, <1>8, <1>9 DEF Next, Dispatch

\* Whichever processes published to which consumers, a delivery counts as
\* dispatched only when each consumer of its topic has consumed the event or
\* is one that can break a constraint of its own.
THEOREM DispatchedIsServed == Spec => []DispatchedWasServed
<1>1. Init => ServedInv
  BY DEF Init, ServedInv, DispatchedWasServed, ServedSoFar
<1>2. ServedInv => DispatchedWasServed
  BY DEF ServedInv
<1>3. QED
  BY <1>1, <1>2, ServedStep, TypeCorrect, PTL DEF Spec

\* Where no consumer's own writes can be refused, dispatched means consumed.
\* The hypothesis is needed: consume_event takes every IntegrityError for a
\* second delivery.
THEOREM DispatchedIsConsumed ==
    ASSUME Conflicting = {}
    PROVE  Spec => []DispatchedWasConsumed
<1>1. DispatchedWasServed => DispatchedWasConsumed
  BY DEF DispatchedWasServed, DispatchedWasConsumed, Served
<1>2. QED
  BY <1>1, DispatchedIsServed, PTL
=============================================================================
