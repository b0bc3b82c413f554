---------------------------- MODULE Kafka_proofs -----------------------------
(***************************************************************************)
(* For any number of workers, partitions and events and any batch size:    *)
(* what the topic holds is in order per worker, a copy is explained by a   *)
(* lost answer, and Stop leaves nothing behind.                            *)
(***************************************************************************)
EXTENDS Kafka, SequenceTheorems, TLAPS

(* All that a writer has yet to send to a partition: the batches in the    *)
(* queue and the open one, which comes last.                               *)
Unsent == [w \in Workers |-> [p \in Partitions |-> Append(queue[w][p], batch[w][p])]]

(* Stop: it passes on from the workers to the writers when all workers     *)
(* have left, and behind it the writers are empty.  Without a signal a     *)
(* worker leaves only a closed and empty channel.                          *)
StopInv ==
  /\ stop = "no" => closing = 1
  /\ stop \in {"wait", "writers"} => closing \in Workers
  /\ stop = "done" => closing = PoolSize + 1
  /\ stop \in {"writers", "done"} \/ closing > 1 => Joined
  /\ stop = "writers" => \A p \in Partitions : batch[closing][p] = <<>>
  /\ \A w \in Workers : w < closing =>
       \A p \in Partitions : batch[w][p] = <<>> /\ queue[w][p] = <<>>
  /\ \A w \in Workers : ev[w] # 0 <=> pc[w] = "write"
  /\ \A w \in Workers : pc[w] = "exit" => MayLeave

(* The channel is in the order of emission, behind everything a worker has *)
(* taken; a worker's events are handed to its writer in that order.        *)
InputInv ==
  /\ \A i \in 1..Len(input) : input[i] <= offered
  /\ \A i, j \in 1..Len(input) : i < j => input[i] < input[j]
  /\ \A w \in Workers : ev[w] # 0 =>
       ev[w] <= offered /\ by[ev[w]] = 0 /\ \A i \in 1..Len(input) : ev[w] < input[i]
  /\ \A v, w \in Workers : v # w /\ ev[w] # 0 => ev[v] # ev[w]
  /\ \A e \in Events : by[e] # 0 =>
       /\ e <= offered /\ \A i \in 1..Len(input) : e < input[i]
       /\ ev[by[e]] # 0 => e < ev[by[e]]

(* Of U, what writer w has yet to send to partition p, of L, the partition,*)
(* of B, who wrote what, and of A, the unanswered: U is the writer's own   *)
(* and in order; ...                                                       *)
Owned(U, B, w, p) ==
  \A k \in 1..Len(U) : \A i \in 1..Len(U[k]) : B[U[k][i]] = w /\ PartitionOf(U[k][i]) = p

Ascends(U) ==
  \A k, l \in 1..Len(U) : \A i \in 1..Len(U[k]), j \in 1..Len(U[l]) :
    k < l \/ (k = l /\ i < j) => U[k][i] < U[l][j]

(* ... an event in the log comes before all its writer has yet to send,    *)
(* unless it is of the batch under way; ...                                *)
Behind(U, L, B, w) ==
  \A n \in 1..Len(L) : B[L[n]] = w =>
    \/ \A k \in 1..Len(U) : \A i \in 1..Len(U[k]) : L[n] < U[k][i]
    \/ Len(U) > 1 /\ \E i \in 1..Len(U[1]) : U[1][i] = L[n]

(* ... then all of that batch is in the log, and its answer was lost.      *)
Whole(U, L, A) ==
  Len(U) > 1 => \A n \in 1..Len(L), i \in 1..Len(U[1]) : L[n] = U[1][i] =>
    L[n] \in A /\ \A j \in 1..Len(U[1]) : \E m \in 1..Len(L) : L[m] = U[1][j]

WriterOK(U, L, B, A, w, p) ==
  Owned(U, B, w, p) /\ Ascends(U) /\ Behind(U, L, B, w) /\ Whole(U, L, A)

(* In the log, a copy is of a batch whose answer was lost, and the first   *)
(* copies of a writer's events are in order.                               *)
LogOwned(L, B, p) == \A n \in 1..Len(L) : B[L[n]] # 0 /\ PartitionOf(L[n]) = p

LogOnce(L, A) == \A m, n \in 1..Len(L) : m # n /\ L[m] = L[n] => L[m] \in A

LogOrdered(L, B) ==
  \A m, n \in 1..Len(L) : B[L[m]] = B[L[n]] /\ L[m] < L[n] =>
    \E i \in 1..Len(L) : i < n /\ L[i] = L[m]

LogOK(L, B, A, p) == LogOwned(L, B, p) /\ LogOnce(L, A) /\ LogOrdered(L, B)

WritersInv ==
  \A w \in Workers, p \in Partitions : WriterOK(Unsent[w][p], log[p], by, unanswered, w, p)

LogInv == \A p \in Partitions : LogOK(log[p], by, unanswered, p)

(* No emitted event gets lost.                                             *)
Has(s, e) == \E i \in 1..Len(s) : s[i] = e

Placed(e) ==
  \/ Has(input, e)
  \/ \E w \in Workers : ev[w] = e
  \/ e \in refused \cup failed
  \/ \E p \in Partitions : Has(log[p], e)
  \/ \E w \in Workers, p \in Partitions : \E k \in 1..Len(Unsent[w][p]) : Has(Unsent[w][p][k], e)

AllPlaced == \A e \in Events : e <= offered => Placed(e)

(* The inductive invariant.                                                *)
ProducerInv ==
  TypeOK /\ StopInv /\ InputInv /\ WritersInv /\ LogInv /\ AllPlaced

-----------------------------------------------------------------------------
(* Facts about the constants and the types.                                *)

LEMMA PoolFacts ==
  /\ PoolSize \in Nat \ {0} /\ Batch \in Nat \ {0} /\ Len(Traffic) \in Nat
  /\ Workers = 1..PoolSize /\ Events = 1..Len(Traffic)
  /\ \A w \in Workers : w \in Nat \ {0}
  /\ \A e \in Events : e \in Nat \ {0} /\ PartitionOf(e) \in Partitions
<1>1. PoolSize \in Nat \ {0} /\ Batch \in Nat \ {0} /\ Len(Traffic) \in Nat
  BY KafkaAssumption DEF PoolSize, Batch
<1>2. \A w \in Workers : w \in Nat \ {0}
  BY <1>1 DEF Workers
<1>3. \A e \in Events : e \in Nat \ {0}
  BY <1>1 DEF Events
<1>4. \A e \in Events : PartitionOf(e) \in Partitions
  <2> TAKE e \in Events
  <2>1. FlowKey(e) \in Endpoints \X Endpoints
    BY DEF FlowKey, Endpoints
  <2> QED BY <2>1, KafkaAssumption DEF PartitionOf
<1> QED BY <1>1, <1>2, <1>3, <1>4 DEF Workers, Events

LEMMA UnsentFacts ==
  ASSUME TypeOK, NEW w \in Workers, NEW p \in Partitions
  PROVE  /\ Unsent[w][p] = Append(queue[w][p], batch[w][p])
         /\ queue[w][p] \in Seq(Batches) /\ batch[w][p] \in Batches
         /\ Unsent[w][p] \in Seq(Batches) /\ Len(Unsent[w][p]) = Len(queue[w][p]) + 1
         /\ Len(queue[w][p]) \in Nat
         /\ \A k \in 1..Len(queue[w][p]) : Unsent[w][p][k] = queue[w][p][k]
         /\ Unsent[w][p][Len(queue[w][p]) + 1] = batch[w][p]
         /\ \A k \in 1..Len(Unsent[w][p]) :
              /\ Unsent[w][p][k] \in Seq(Events) /\ Len(Unsent[w][p][k]) \in Nat
              /\ \A i \in 1..Len(Unsent[w][p][k]) : Unsent[w][p][k][i] \in Events
<1>1. /\ Unsent[w][p] = Append(queue[w][p], batch[w][p])
      /\ queue[w][p] \in Seq(Batches) /\ batch[w][p] \in Batches
  BY DEF TypeOK, Unsent
<1>2. /\ Unsent[w][p] \in Seq(Batches) /\ Len(Unsent[w][p]) = Len(queue[w][p]) + 1
      /\ Len(queue[w][p]) \in Nat
      /\ \A k \in 1..Len(queue[w][p]) : Unsent[w][p][k] = queue[w][p][k]
      /\ Unsent[w][p][Len(queue[w][p]) + 1] = batch[w][p]
  BY <1>1, AppendProperties
<1>3. ASSUME NEW k \in 1..Len(Unsent[w][p])
      PROVE  /\ Unsent[w][p][k] \in Seq(Events) /\ Len(Unsent[w][p][k]) \in Nat
             /\ \A i \in 1..Len(Unsent[w][p][k]) : Unsent[w][p][k][i] \in Events
  <2>1. Unsent[w][p][k] \in Seq(Events)
    BY <1>2, ElementOfSeq DEF Batches
  <2> HIDE DEF Events
  <2> QED BY <2>1, ElementOfSeq, SMTT(40)
<1> QED BY <1>1, <1>2, <1>3

(* An event with its number in the log.                                    *)
LEMMA LogFacts ==
  ASSUME TypeOK, NEW p \in Partitions
  PROVE  /\ log[p] \in Seq(Events) /\ Len(log[p]) \in Nat
         /\ \A i \in 1..Len(log[p]) : log[p][i] \in Events
<1>1. log[p] \in Seq(Events)
  BY DEF TypeOK
<1> HIDE DEF Events
<1> QED BY <1>1, ElementOfSeq

-----------------------------------------------------------------------------
(* Types.                                                                  *)

LEMMA ProducerInit == Init => ProducerInv
<1> SUFFICES ASSUME Init PROVE ProducerInv
  OBVIOUS
<1>1. TypeOK
  <2>1. << >> \in Seq(Events) /\ << >> \in Seq(Batches) /\ Len(<< >>) = 0
    BY EmptySeq
  <2>2. 0 \in 0..MaxAttempts - 1 /\ 0 \in 0..MaxFaults /\ 0 \in 0..Len(Traffic) /\ 1 \in 1..PoolSize + 1
    BY KafkaAssumption, PoolFacts
  <2>3. Len(<< >>) < Batch /\ Len(<< >>) <= InputSize
    BY KafkaAssumption, PoolFacts
  <2>4. \A w \in Workers, p \in Partitions :
          /\ Len(batch[w][p]) < Batch
          /\ \A i \in 1..Len(queue[w][p]) : Len(queue[w][p][i]) \in 1..Batch
    BY <2>1, <2>3 DEF Init
  <2> QED BY <2>1, <2>2, <2>3, <2>4 DEF Init, TypeOK, Batches
<1>2. StopInv
  BY PoolFacts DEF Init, StopInv, Joined
<1>3. \A w \in Workers, p \in Partitions : Len(Unsent[w][p]) = 1 /\ Len(Unsent[w][p][1]) = 0
  <2> TAKE w \in Workers, p \in Partitions
  <2>1. Unsent[w][p] = Append(<< >>, << >>)
    BY DEF Init, Unsent
  <2> QED BY <2>1
<1>4. InputInv
  BY DEF Init, InputInv
<1>5. \A p \in Partitions : Len(log[p]) = 0
  BY DEF Init
<1>6. WritersInv
  BY <1>3, <1>5 DEF WritersInv, WriterOK, Owned, Ascends, Behind, Whole
<1>7. LogInv
  BY <1>5 DEF LogInv, LogOK, LogOwned, LogOnce, LogOrdered
<1>8. AllPlaced
  BY PoolFacts DEF Init, AllPlaced
<1> QED BY <1>1, <1>2, <1>4, <1>6, <1>7, <1>8 DEF ProducerInv

(* A batch that grows by an event fits or is sent.                         *)
LEMMA WriteTypes ==
  ASSUME TypeOK, NEW w \in Workers, NEW p \in Partitions, NEW e \in Events, Enqueue(w, p, e)
  PROVE  /\ batch' \in [Workers -> [Partitions -> Batches]]
         /\ queue' \in [Workers -> [Partitions -> Seq(Batches)]]
         /\ \A v \in Workers, q \in Partitions :
              /\ Len(batch'[v][q]) < Batch
              /\ \A i \in 1..Len(queue'[v][q]) : Len(queue'[v][q][i]) \in 1..Batch
<1> DEFINE b == Append(batch[w][p], e)
<1>1. /\ batch \in [Workers -> [Partitions -> Batches]]
      /\ queue \in [Workers -> [Partitions -> Seq(Batches)]]
      /\ \A v \in Workers, q \in Partitions :
           /\ Len(batch[v][q]) < Batch
           /\ \A i \in 1..Len(queue[v][q]) : Len(queue[v][q][i]) \in 1..Batch
  BY DEF TypeOK
<1>2. b \in Batches /\ Len(b) = Len(batch[w][p]) + 1 /\ Len(batch[w][p]) \in Nat
  BY <1>1, AppendProperties DEF Batches
<1>3. << >> \in Batches /\ Len(<< >>) = 0
  BY DEF Batches
<1>4. CASE Len(b) >= Batch
  <2>1. /\ batch' = [batch EXCEPT ![w][p] = << >>]
        /\ queue' = [queue EXCEPT ![w][p] = Append(queue[w][p], b)]
    BY <1>4 DEF Enqueue
  <2>2. Len(b) \in 1..Batch
    BY <1>1, <1>2, <1>4, PoolFacts, SMTT(40)
  <2> DEFINE s == Append(queue[w][p], b)
  <2> HIDE DEF b
  <2>3. /\ s \in Seq(Batches) /\ Len(s) = Len(queue[w][p]) + 1 /\ Len(queue[w][p]) \in Nat
        /\ \A i \in 1..Len(queue[w][p]) : s[i] = queue[w][p][i]
        /\ s[Len(queue[w][p]) + 1] = b
    BY <1>1, <1>2, AppendProperties
  <2>4. \A i \in 1..Len(s) : Len(s[i]) \in 1..Batch
    <3> TAKE i \in 1..Len(s)
    <3>1. i \in 1..Len(queue[w][p]) \/ i = Len(queue[w][p]) + 1
      BY <2>3
    <3> QED BY <1>1, <2>2, <2>3, <3>1
  <2> HIDE DEF s
  <2>5. queue' = [queue EXCEPT ![w][p] = s]
    BY <2>1 DEF s
  <2>6. /\ batch' \in [Workers -> [Partitions -> Batches]]
        /\ queue' \in [Workers -> [Partitions -> Seq(Batches)]]
    BY <1>1, <1>3, <2>1, <2>3, <2>5
  <2>7. \A v \in Workers, q \in Partitions : Len(batch'[v][q]) < Batch
    <3> TAKE v \in Workers, q \in Partitions
    <3>1. batch'[v][q] = IF v = w /\ q = p THEN << >> ELSE batch[v][q]
      BY <1>1, <2>1
    <3>2. 0 < Batch
      BY PoolFacts
    <3> QED BY <1>1, <1>3, <3>1, <3>2
  <2>8. \A v \in Workers, q \in Partitions :
          \A i \in 1..Len(queue'[v][q]) : Len(queue'[v][q][i]) \in 1..Batch
    <3> TAKE v \in Workers, q \in Partitions
    <3>1. queue'[v][q] = IF v = w /\ q = p THEN s ELSE queue[v][q]
      BY <1>1, <2>5
    <3> QED BY <1>1, <2>4, <3>1
  <2> QED BY <2>6, <2>7, <2>8
<1>5. CASE ~(Len(b) >= Batch)
  <2>1. batch' = [batch EXCEPT ![w][p] = b] /\ queue' = queue
    BY <1>5 DEF Enqueue
  <2>2. Len(b) < Batch
    BY <1>2, <1>5, PoolFacts
  <2> HIDE DEF b
  <2> QED BY <1>1, <1>2, <2>1, <2>2
<1> QED BY <1>4, <1>5

(* A batch leaves the queue, a request is stored, or one more has failed.  *)
LEMMA ProduceTypes ==
  ASSUME TypeOK, NEW w \in Workers, NEW p \in Partitions, Produce(w, p)
  PROVE  TypeOK'
<1> DEFINE b == Head(queue[w][p])
<1>1. /\ queue \in [Workers -> [Partitions -> Seq(Batches)]] /\ log \in [Partitions -> Seq(Events)]
      /\ tries \in [Workers -> [Partitions -> 0..MaxAttempts - 1]] /\ faults \in 0..MaxFaults
      /\ failed \subseteq Events /\ unanswered \subseteq Events
      /\ \A v \in Workers, q \in Partitions :
           \A i \in 1..Len(queue[v][q]) : Len(queue[v][q][i]) \in 1..Batch
  BY DEF TypeOK
<1>2. /\ queue[w][p] # << >> /\ b \in Seq(Events) /\ Tail(queue[w][p]) \in Seq(Batches)
      /\ Len(Tail(queue[w][p])) = Len(queue[w][p]) - 1 /\ Len(queue[w][p]) \in Nat
      /\ \A i \in 1..Len(Tail(queue[w][p])) : Tail(queue[w][p])[i] = queue[w][p][i + 1]
  <2>1. queue[w][p] # << >>
    BY DEF Produce
  <2>2. queue[w][p] \in Seq(Batches)
    BY <1>1
  <2>3. Batches \subseteq Seq(Events)
    BY DEF Batches
  <2> QED BY <2>1, <2>2, <2>3, HeadTailProperties
<1>3. Range(b) \subseteq Events /\ log[p] \o b \in Seq(Events)
  <2>1. DOMAIN b = 1..Len(b) /\ \A i \in 1..Len(b) : b[i] \in Events
    BY <1>2, LenProperties, ElementOfSeq
  <2> QED BY <1>1, <1>2, <2>1, ConcatProperties DEF Range
<1>4. queue' \in {queue, [queue EXCEPT ![w][p] = Tail(queue[w][p])]}
  BY DEF Produce
<1>5. /\ queue' \in [Workers -> [Partitions -> Seq(Batches)]]
      /\ \A v \in Workers, q \in Partitions :
           \A i \in 1..Len(queue'[v][q]) : Len(queue'[v][q][i]) \in 1..Batch
  <2>1. CASE queue' = queue
    BY <1>1, <2>1
  <2>2. CASE queue' = [queue EXCEPT ![w][p] = Tail(queue[w][p])]
    <3> DEFINE t == Tail(queue[w][p])
    <3>1. \A i \in 1..Len(t) : Len(t[i]) \in 1..Batch
      <4> TAKE i \in 1..Len(t)
      <4>1. i + 1 \in 1..Len(queue[w][p])
        BY <1>2
      <4> QED BY <1>1, <1>2, <4>1
    <3>2. t \in Seq(Batches) /\ queue' = [queue EXCEPT ![w][p] = t]
      BY <1>2, <2>2
    <3> HIDE DEF t
    <3>3. queue' \in [Workers -> [Partitions -> Seq(Batches)]]
      BY <1>1, <3>2
    <3>4. \A v \in Workers, q \in Partitions :
            queue'[v][q] = IF v = w /\ q = p THEN t ELSE queue[v][q]
      BY <1>1, <3>2
    <3> QED BY <1>1, <3>1, <3>3, <3>4, ZenonT(60)
  <2> QED BY <1>4, <2>1, <2>2
<1>6. tries' \in [Workers -> [Partitions -> 0..MaxAttempts - 1]]
  <2>1. \/ tries' = [tries EXCEPT ![w][p] = 0]
        \/ tries[w][p] + 1 < MaxAttempts /\ tries' = [tries EXCEPT ![w][p] = tries[w][p] + 1]
    BY DEF Produce
  <2>2. tries[w][p] \in Nat /\ MaxAttempts \in Nat \ {0} /\ 0 \in 0..MaxAttempts - 1
    BY <1>1, KafkaAssumption
  <2>3. tries[w][p] + 1 < MaxAttempts => tries[w][p] + 1 \in 0..MaxAttempts - 1
    BY <2>2
  <2>4. \E x \in 0..MaxAttempts - 1 : tries' = [tries EXCEPT ![w][p] = x]
    BY <2>1, <2>2, <2>3
  <2> QED BY <1>1, <2>4
<1>7. faults' \in 0..MaxFaults
  <2>1. faults' = faults \/ (faults < MaxFaults /\ faults' = faults + 1)
    BY DEF Produce
  <2> QED BY <1>1, <2>1, KafkaAssumption
<1>8. /\ failed' \in {failed, failed \cup Range(b)} /\ unanswered' \in {unanswered, unanswered \cup Range(b)}
      /\ log' \in {log, [log EXCEPT ![p] = log[p] \o b]}
  BY DEF Produce
<1>9. failed' \subseteq Events /\ unanswered' \subseteq Events
  BY <1>1, <1>3, <1>8
<1>10. log' \in [Partitions -> Seq(Events)]
  BY <1>1, <1>3, <1>8
<1>11. UNCHANGED <<ctxDone, offered, input, stop, closing, workerVars, batch>>
  BY DEF Produce
<1> QED BY <1>5, <1>6, <1>7, <1>9, <1>10, <1>11 DEF TypeOK, workerVars

(* The open batches of writer w for the partitions in Q join the queue.    *)
Flushes(w, Q) ==
  /\ Q \subseteq Partitions /\ \A p \in Q : batch[w][p] # <<>>
  /\ batch' = [batch EXCEPT ![w] = [p \in Partitions |-> IF p \in Q THEN <<>> ELSE batch[w][p]]]
  /\ queue' = [queue EXCEPT ![w] = [p \in Partitions |->
                IF p \in Q THEN Append(queue[w][p], batch[w][p]) ELSE queue[w][p]]]

LEMMA TimeoutFlushes ==
  ASSUME TypeOK, NEW w \in Workers, NEW p \in Partitions, BatchTimeout(w, p)
  PROVE  Flushes(w, {p})
<1>1. /\ batch[w][p] # << >> /\ batch' = [batch EXCEPT ![w][p] = << >>]
      /\ queue' = [queue EXCEPT ![w][p] = Append(queue[w][p], batch[w][p])]
      /\ batch \in [Workers -> [Partitions -> Batches]]
      /\ queue \in [Workers -> [Partitions -> Seq(Batches)]]
  BY DEF BatchTimeout, TypeOK
<1>2. [batch[w] EXCEPT ![p] = << >>] = [q \in Partitions |-> IF q \in {p} THEN << >> ELSE batch[w][q]]
  BY <1>1
<1>3. [queue[w] EXCEPT ![p] = Append(queue[w][p], batch[w][p])]
        = [q \in Partitions |-> IF q \in {p} THEN Append(queue[w][q], batch[w][q]) ELSE queue[w][q]]
  BY <1>1
<1>4. /\ batch' = [batch EXCEPT ![w] = [batch[w] EXCEPT ![p] = << >>]]
      /\ queue' = [queue EXCEPT ![w] = [queue[w] EXCEPT ![p] = Append(queue[w][p], batch[w][p])]]
  BY <1>1
<1> QED BY <1>1, <1>2, <1>3, <1>4 DEF Flushes

LEMMA CloseFlushes ==
  ASSUME TypeOK, closing \in Workers, CloseWriter
  PROVE  Flushes(closing, {p \in Partitions : batch[closing][p] # << >>})
<1> DEFINE Q == {p \in Partitions : batch[closing][p] # << >>}
<1>1. /\ batch' = [batch EXCEPT ![closing] = [p \in Partitions |-> << >>]]
      /\ queue' = [queue EXCEPT ![closing] = [p \in Partitions |->
           IF batch[closing][p] = << >> THEN queue[closing][p]
           ELSE Append(queue[closing][p], batch[closing][p])]]
      /\ batch \in [Workers -> [Partitions -> Batches]]
      /\ queue \in [Workers -> [Partitions -> Seq(Batches)]]
  BY DEF CloseWriter, TypeOK
<1>2. [p \in Partitions |-> << >>] = [p \in Partitions |-> IF p \in Q THEN << >> ELSE batch[closing][p]]
  OBVIOUS
<1>3. [p \in Partitions |-> IF batch[closing][p] = << >> THEN queue[closing][p]
                            ELSE Append(queue[closing][p], batch[closing][p])]
        = [p \in Partitions |-> IF p \in Q THEN Append(queue[closing][p], batch[closing][p])
                                ELSE queue[closing][p]]
  OBVIOUS
<1> QED BY <1>1, <1>2, <1>3 DEF Flushes

LEMMA FlushTypes ==
  ASSUME TypeOK, NEW w \in Workers, NEW Q, Flushes(w, Q)
  PROVE  /\ batch' \in [Workers -> [Partitions -> Batches]]
         /\ queue' \in [Workers -> [Partitions -> Seq(Batches)]]
         /\ \A v \in Workers, q \in Partitions :
              /\ Len(batch'[v][q]) < Batch
              /\ \A i \in 1..Len(queue'[v][q]) : Len(queue'[v][q][i]) \in 1..Batch
<1>1. /\ batch \in [Workers -> [Partitions -> Batches]]
      /\ queue \in [Workers -> [Partitions -> Seq(Batches)]]
      /\ \A v \in Workers, q \in Partitions :
           /\ Len(batch[v][q]) < Batch
           /\ \A i \in 1..Len(queue[v][q]) : Len(queue[v][q][i]) \in 1..Batch
  BY DEF TypeOK
<1> USE DEF Flushes
<1>2. << >> \in Batches /\ Len(<< >>) = 0 /\ 0 < Batch
  BY PoolFacts DEF Batches
<1>3. ASSUME NEW p \in Q
      PROVE  /\ Append(queue[w][p], batch[w][p]) \in Seq(Batches)
             /\ \A i \in 1..Len(Append(queue[w][p], batch[w][p])) :
                  Len(Append(queue[w][p], batch[w][p])[i]) \in 1..Batch
  <2> DEFINE s == Append(queue[w][p], batch[w][p])
  <2>1. p \in Partitions /\ batch[w][p] \in Batches /\ queue[w][p] \in Seq(Batches) /\ batch[w][p] # << >>
    BY <1>1
  <2>2. /\ s \in Seq(Batches) /\ Len(s) = Len(queue[w][p]) + 1 /\ Len(queue[w][p]) \in Nat
        /\ \A i \in 1..Len(queue[w][p]) : s[i] = queue[w][p][i]
        /\ s[Len(queue[w][p]) + 1] = batch[w][p]
    BY <2>1, AppendProperties
  <2>3. Len(batch[w][p]) \in 1..Batch
    <3>1. Len(batch[w][p]) \in Nat \ {0}
      BY <2>1, EmptySeq DEF Batches
    <3>2. Len(batch[w][p]) < Batch /\ Batch \in Nat
      BY <1>1, <2>1, PoolFacts
    <3> QED BY <3>1, <3>2
  <2> HIDE DEF s
  <2>4. \A i \in 1..Len(s) : Len(s[i]) \in 1..Batch
    <3> TAKE i \in 1..Len(s)
    <3>1. i \in 1..Len(queue[w][p]) \/ i = Len(queue[w][p]) + 1
      BY <2>2
    <3> QED BY <1>1, <2>1, <2>2, <2>3, <3>1
  <2> QED BY <2>2, <2>4 DEF s
<1>4. batch' \in [Workers -> [Partitions -> Batches]]
  BY <1>1, <1>2
<1>5. queue' \in [Workers -> [Partitions -> Seq(Batches)]]
  <2>1. [p \in Partitions |-> IF p \in Q THEN Append(queue[w][p], batch[w][p]) ELSE queue[w][p]]
          \in [Partitions -> Seq(Batches)]
    BY <1>1, <1>3
  <2> QED BY <1>1, <2>1
<1>6. ASSUME NEW v \in Workers, NEW q \in Partitions
      PROVE  /\ Len(batch'[v][q]) < Batch
             /\ \A i \in 1..Len(queue'[v][q]) : Len(queue'[v][q][i]) \in 1..Batch
  <2>1. /\ batch'[v][q] = IF v = w /\ q \in Q THEN << >> ELSE batch[v][q]
        /\ queue'[v][q] = IF v = w /\ q \in Q THEN Append(queue[w][q], batch[w][q]) ELSE queue[v][q]
    BY <1>1
  <2>2. CASE v = w /\ q \in Q
    BY <1>2, <1>3, <2>1, <2>2
  <2>3. CASE ~(v = w /\ q \in Q)
    BY <1>1, <2>1, <2>3
  <2> QED BY <2>2, <2>3
<1> QED BY <1>4, <1>5, <1>6

LEMMA ProducerTypes ==
  ASSUME TypeOK, StopInv, [Next]_kvars
  PROVE  TypeOK'
<1> USE DEF workerVars, writerVars
<1>1. CASE Emit
  <2>1. /\ input \in Seq(Events) /\ offered \in 0..Len(Traffic) /\ offered < Len(Traffic)
        /\ Len(input) < InputSize /\ offered' = offered + 1 /\ input' = Append(input, offered + 1)
    BY <1>1 DEF Emit, TypeOK
  <2>2. offered + 1 \in Events /\ offered + 1 \in 0..Len(Traffic)
    BY <2>1, PoolFacts
  <2>3. input' \in Seq(Events) /\ Len(input') = Len(input) + 1 /\ Len(input) \in Nat
    BY <2>1, <2>2, AppendProperties
  <2>4. Len(input') <= InputSize
    BY <2>1, <2>3, KafkaAssumption
  <2> QED BY <1>1, <2>1, <2>2, <2>3, <2>4 DEF Emit, TypeOK
<1>2. CASE Signal \/ Start \/ CloseInput
  BY <1>2 DEF Signal, Start, CloseInput, TypeOK
<1>3. ASSUME NEW w \in Workers, Receive(w) PROVE TypeOK'
  <2>1. /\ input \in Seq(Events) /\ input # << >> /\ Len(input) <= InputSize
        /\ input' = Tail(input) /\ ev' = [ev EXCEPT ![w] = Head(input)]
        /\ pc' = [pc EXCEPT ![w] = "write"]
    BY <1>3 DEF Receive, TypeOK
  <2>2. /\ Head(input) \in Events /\ input' \in Seq(Events) /\ Len(input') = Len(input) - 1
        /\ Len(input) \in Nat
    BY <2>1, HeadTailProperties
  <2>3. Len(input') <= InputSize
    BY <2>1, <2>2, KafkaAssumption
  <2>4. ev' \in [Workers -> Events \cup {0}] /\ pc' \in [Workers -> {"idle", "recv", "write", "exit"}]
    BY <2>1, <2>2 DEF TypeOK
  <2> QED BY <1>3, <2>2, <2>3, <2>4 DEF Receive, TypeOK
<1>4. ASSUME NEW w \in Workers, Leave(w) PROVE TypeOK'
  BY <1>4 DEF Leave, TypeOK
<1>5. ASSUME NEW w \in Workers, Write(w) PROVE TypeOK'
  <2>1. /\ ev[w] \in Events /\ ev' = [ev EXCEPT ![w] = 0] /\ pc' = [pc EXCEPT ![w] = "recv"]
        /\ UNCHANGED <<ctxDone, offered, input, stop, closing, tries, faults, log, failed, unanswered>>
    BY <1>5 DEF Write, TypeOK, StopInv
  <2>2. ev' \in [Workers -> Events \cup {0}] /\ pc' \in [Workers -> {"idle", "recv", "write", "exit"}]
    BY <2>1 DEF TypeOK
  <2>3. CASE refused' = refused \cup {ev[w]} /\ UNCHANGED <<batch, queue, by>>
    BY <2>1, <2>2, <2>3 DEF TypeOK
  <2>4. CASE /\ Enqueue(w, PartitionOf(ev[w]), ev[w])
             /\ by' = [by EXCEPT ![ev[w]] = w] /\ UNCHANGED refused
    <3>1. by' \in [Events -> Workers \cup {0}]
      BY <2>1, <2>4 DEF TypeOK
    <3>2. /\ batch' \in [Workers -> [Partitions -> Batches]]
          /\ queue' \in [Workers -> [Partitions -> Seq(Batches)]]
          /\ \A v \in Workers, q \in Partitions :
               /\ Len(batch'[v][q]) < Batch
               /\ \A i \in 1..Len(queue'[v][q]) : Len(queue'[v][q][i]) \in 1..Batch
      BY <2>1, <2>4, PoolFacts, WriteTypes
    <3> QED BY <2>1, <2>2, <2>4, <3>1, <3>2 DEF TypeOK
  <2> QED BY <1>5, <2>3, <2>4 DEF Write, WriterOf
<1>6. ASSUME NEW w \in Workers, NEW p \in Partitions, BatchTimeout(w, p) PROVE TypeOK'
  <2>1. Flushes(w, {p})
    BY <1>6, TimeoutFlushes
  <2>2. /\ batch' \in [Workers -> [Partitions -> Batches]]
        /\ queue' \in [Workers -> [Partitions -> Seq(Batches)]]
        /\ \A v \in Workers, q \in Partitions :
             /\ Len(batch'[v][q]) < Batch
             /\ \A i \in 1..Len(queue'[v][q]) : Len(queue'[v][q][i]) \in 1..Batch
    BY <2>1, FlushTypes
  <2> QED BY <1>6, <2>2 DEF BatchTimeout, TypeOK
<1>7. ASSUME NEW w \in Workers, NEW p \in Partitions, Produce(w, p) PROVE TypeOK'
  BY <1>7, ProduceTypes
<1>8. CASE CloseWriter
  <2>1. closing \in Workers /\ stop' = "writers"
    BY <1>8 DEF CloseWriter, StopInv
  <2> DEFINE Q == {p \in Partitions : batch[closing][p] # << >>}
  <2>2. Flushes(closing, Q)
    BY <1>8, <2>1, CloseFlushes
  <2> HIDE DEF Q
  <2>3. /\ batch' \in [Workers -> [Partitions -> Batches]]
        /\ queue' \in [Workers -> [Partitions -> Seq(Batches)]]
        /\ \A v \in Workers, q \in Partitions :
             /\ Len(batch'[v][q]) < Batch
             /\ \A i \in 1..Len(queue'[v][q]) : Len(queue'[v][q][i]) \in 1..Batch
    BY <2>1, <2>2, FlushTypes
  <2> QED BY <1>8, <2>1, <2>3 DEF CloseWriter, TypeOK
<1>9. CASE WriterClosed
  <2>1. closing' \in 1..PoolSize + 1 /\ stop' \in {"wait", "done"}
    BY <1>9, PoolFacts DEF WriterClosed, StopInv
  <2> QED BY <1>9, <2>1 DEF WriterClosed, TypeOK
<1>10. CASE UNCHANGED kvars
  BY <1>10 DEF kvars, TypeOK
<1> QED BY <1>1, <1>2, <1>3, <1>4, <1>5, <1>6, <1>7, <1>8, <1>9, <1>10 DEF Next, Stop, Worker

-----------------------------------------------------------------------------
(* Stop.                                                                   *)

LEMMA StopStep ==
  ASSUME TypeOK, StopInv, [Next]_kvars
  PROVE  StopInv'
<1> USE DEF workerVars, writerVars
<1>0. /\ pc \in [Workers -> {"idle", "recv", "write", "exit"}] /\ ev \in [Workers -> Events \cup {0}]
      /\ closing \in 1..PoolSize + 1 /\ stop \in {"no", "wait", "writers", "done"}
      /\ batch \in [Workers -> [Partitions -> Batches]]
      /\ queue \in [Workers -> [Partitions -> Seq(Batches)]] /\ input \in Seq(Events)
  BY DEF TypeOK
<1>1. CASE Emit
  BY <1>1 DEF Emit, StopInv, Joined, MayLeave
<1>2. CASE Signal
  BY <1>2 DEF Signal, StopInv, Joined, MayLeave
<1>3. CASE Start
  BY <1>0, <1>3 DEF Start, StopInv, Joined, MayLeave
<1>4. CASE CloseInput
  <2>1. closing = 1 /\ 1 \in Workers
    BY <1>4, PoolFacts DEF CloseInput, StopInv
  <2> QED BY <1>4, <2>1 DEF CloseInput, StopInv, Joined, MayLeave
<1>5. ASSUME NEW w \in Workers, Receive(w) PROVE StopInv'
  <2>1. /\ pc[w] = "recv" /\ Head(input) \in Events /\ input # << >> /\ input' = Tail(input)
        /\ ev' = [ev EXCEPT ![w] = Head(input)] /\ pc' = [pc EXCEPT ![w] = "write"]
        /\ UNCHANGED <<ctxDone, stop, closing, batch, queue>>
    BY <1>0, <1>5, HeadTailProperties DEF Receive
  <2>2. Head(input) # 0
    BY <2>1, PoolFacts
  <2>3. ~Joined /\ closing = 1 /\ stop \in {"no", "wait"}
    BY <1>0, <2>1 DEF StopInv, Joined
  <2>4. \A v \in Workers : ev'[v] # 0 <=> pc'[v] = "write"
    BY <1>0, <2>1, <2>2 DEF StopInv
  <2>5. \A v \in Workers : pc'[v] = "exit" => MayLeave'
    BY <1>0, <2>1 DEF StopInv, MayLeave
  <2> QED BY <2>1, <2>3, <2>4, <2>5, PoolFacts, SMTT(40) DEF StopInv, Joined
<1>6. ASSUME NEW w \in Workers, Leave(w) PROVE StopInv'
  <2>1. /\ pc[w] = "recv" /\ MayLeave /\ pc' = [pc EXCEPT ![w] = "exit"]
        /\ UNCHANGED <<ctxDone, input, stop, closing, ev, batch, queue>>
    BY <1>6 DEF Leave
  <2>2. ~Joined /\ closing = 1 /\ stop \in {"no", "wait"}
    BY <1>0, <2>1 DEF StopInv, Joined
  <2>3. \A v \in Workers : (ev'[v] # 0 <=> pc'[v] = "write") /\ (pc'[v] = "exit" => MayLeave')
    BY <1>0, <2>1 DEF StopInv, MayLeave
  <2> QED BY <2>1, <2>2, <2>3, PoolFacts DEF StopInv, Joined
<1>7. ASSUME NEW w \in Workers, Write(w) PROVE StopInv'
  <2>1. /\ pc[w] = "write" /\ ev' = [ev EXCEPT ![w] = 0] /\ pc' = [pc EXCEPT ![w] = "recv"]
        /\ UNCHANGED <<ctxDone, input, stop, closing>>
    BY <1>7 DEF Write
  <2>2. ~Joined /\ closing = 1 /\ stop \in {"no", "wait"}
    BY <1>0, <2>1 DEF StopInv, Joined
  <2>3. \A v \in Workers : (ev'[v] # 0 <=> pc'[v] = "write") /\ (pc'[v] = "exit" => MayLeave')
    BY <1>0, <2>1 DEF StopInv, MayLeave
  <2> QED BY <2>1, <2>2, <2>3, PoolFacts DEF StopInv, Joined
<1>8. ASSUME NEW w \in Workers, NEW p \in Partitions, BatchTimeout(w, p) PROVE StopInv'
  <2>1. /\ batch[w][p] # << >> /\ batch' = [batch EXCEPT ![w][p] = << >>]
        /\ queue' = [queue EXCEPT ![w][p] = Append(queue[w][p], batch[w][p])]
        /\ UNCHANGED <<ctxDone, input, stop, closing, pc, ev>>
    BY <1>8 DEF BatchTimeout
  <2>2. ~(w < closing)
    BY <2>1 DEF StopInv
  <2>3. /\ \A v \in Workers, q \in Partitions : batch[v][q] = << >> => batch'[v][q] = << >>
        /\ \A v \in Workers, q \in Partitions : v < closing => queue'[v][q] = queue[v][q]
    BY <1>0, <2>1, <2>2
  <2>4. stop = "writers" => closing \in Workers
    BY DEF StopInv
  <2> QED BY <2>1, <2>3, <2>4 DEF StopInv, Joined, MayLeave
<1>9. ASSUME NEW w \in Workers, NEW p \in Partitions, Produce(w, p) PROVE StopInv'
  <2>1. /\ queue[w][p] # << >> /\ queue' \in {queue, [queue EXCEPT ![w][p] = Tail(queue[w][p])]}
        /\ UNCHANGED <<ctxDone, input, stop, closing, pc, ev, batch>>
    BY <1>9 DEF Produce
  <2>2. ~(w < closing)
    BY <2>1 DEF StopInv
  <2>3. \A v \in Workers, q \in Partitions : v < closing => queue'[v][q] = queue[v][q]
    BY <1>0, <2>1, <2>2
  <2> QED BY <2>1, <2>3 DEF StopInv, Joined, MayLeave
<1>10. CASE CloseWriter
  <2>1. /\ stop = "wait" /\ Joined /\ stop' = "writers"
        /\ batch' = [batch EXCEPT ![closing] = [p \in Partitions |-> << >>]]
        /\ queue' = [queue EXCEPT ![closing] = [p \in Partitions |->
             IF batch[closing][p] = << >> THEN queue[closing][p]
             ELSE Append(queue[closing][p], batch[closing][p])]]
        /\ UNCHANGED <<ctxDone, input, closing, pc, ev>>
    BY <1>10 DEF CloseWriter
  <2>2. closing \in Workers
    BY <2>1 DEF StopInv
  <2>3. /\ \A p \in Partitions : batch'[closing][p] = << >>
        /\ \A v \in Workers : v < closing => batch'[v] = batch[v] /\ queue'[v] = queue[v]
    BY <1>0, <2>1, <2>2, PoolFacts
  <2> QED BY <2>1, <2>2, <2>3 DEF StopInv, Joined, MayLeave
<1>11. CASE WriterClosed
  <2>1. /\ stop = "writers" /\ \A p \in Partitions : queue[closing][p] = << >>
        /\ closing' = closing + 1 /\ stop' = IF closing + 1 \in Workers THEN "wait" ELSE "done"
        /\ UNCHANGED <<ctxDone, input, pc, ev, batch, queue>>
    BY <1>11 DEF WriterClosed
  <2>2. closing \in Workers /\ Joined /\ \A p \in Partitions : batch[closing][p] = << >>
    BY <2>1 DEF StopInv
  <2>3. \A v \in Workers : v < closing + 1 =>
          \A p \in Partitions : batch[v][p] = << >> /\ queue[v][p] = << >>
    <3> TAKE v \in Workers
    <3>1. v < closing + 1 => v < closing \/ v = closing
      BY <1>0, PoolFacts
    <3> QED BY <2>1, <2>2, <3>1 DEF StopInv
  <2>4. /\ closing + 1 \notin Workers => closing + 1 = PoolSize + 1
        /\ closing + 1 # 1 /\ closing \in Nat
    BY <2>2, PoolFacts
  <2>5. stop' \in {"wait", "done"} /\ (stop' = "wait" => closing' \in Workers)
        /\ (stop' = "done" => closing' = PoolSize + 1)
    BY <2>1, <2>4
  <2>6. MayLeave' = MayLeave
    BY <2>1, <2>5 DEF MayLeave
  <2> QED BY <2>1, <2>2, <2>3, <2>5, <2>6 DEF StopInv, Joined
<1>12. CASE UNCHANGED kvars
  BY <1>12 DEF kvars, StopInv, Joined, MayLeave
<1> QED BY <1>1, <1>2, <1>3, <1>4, <1>5, <1>6, <1>7, <1>8, <1>9, <1>10, <1>11, <1>12
        DEF Next, Stop, Worker

-----------------------------------------------------------------------------
(* The channel and the workers.                                            *)

LEMMA InputStep ==
  ASSUME TypeOK, StopInv, InputInv, [Next]_kvars
  PROVE  InputInv'
<1> USE DEF workerVars, writerVars
<1>0. /\ ev \in [Workers -> Events \cup {0}] /\ input \in Seq(Events) /\ Len(input) \in Nat
      /\ offered \in Nat /\ by \in [Events -> Workers \cup {0}]
      /\ \A i \in 1..Len(input) : input[i] \in Nat /\ input[i] \in Events
  <2>1. \A i \in 1..Len(input) : input[i] \in Events
    BY ElementOfSeq DEF TypeOK
  <2> QED BY <2>1, PoolFacts DEF TypeOK
<1>1. CASE Emit
  <2>1. /\ offered' = offered + 1 /\ input' = Append(input, offered + 1) /\ UNCHANGED <<ev, by>>
        /\ offered + 1 \in Events
    BY <1>1, <1>0, PoolFacts DEF Emit
  <2>2. /\ Len(input') = Len(input) + 1 /\ \A i \in 1..Len(input) : input'[i] = input[i]
        /\ input'[Len(input) + 1] = offered + 1
    BY <1>0, <2>1, AppendProperties
  <2>3. \A i \in 1..Len(input') :
          \/ i \in 1..Len(input) /\ input'[i] = input[i]
          \/ i = Len(input) + 1 /\ input'[i] = offered + 1
    BY <1>0, <2>2
  <2>4. \A i \in 1..Len(input') : input'[i] <= offered'
    BY <1>0, <2>1, <2>3 DEF InputInv
  <2>5. \A i, j \in 1..Len(input') : i < j => input'[i] < input'[j]
    BY <1>0, <2>1, <2>3 DEF InputInv
  <2>6. ASSUME NEW n \in Nat, n <= offered, \A i \in 1..Len(input) : n < input[i]
        PROVE  n <= offered' /\ \A i \in 1..Len(input') : n < input'[i]
    BY <1>0, <2>1, <2>3, <2>6
  <2>7. ASSUME NEW w \in Workers, ev[w] # 0
        PROVE  ev[w] <= offered' /\ by[ev[w]] = 0 /\ \A i \in 1..Len(input') : ev[w] < input'[i]
    <3>1. ev[w] \in Nat
      BY <1>0, <2>7, PoolFacts
    <3> QED BY <2>6, <2>7, <3>1 DEF InputInv
  <2>8. ASSUME NEW e \in Events, by[e] # 0
        PROVE  e <= offered' /\ \A i \in 1..Len(input') : e < input'[i]
    <3>1. e \in Nat
      BY PoolFacts
    <3> QED BY <2>6, <2>8, <3>1 DEF InputInv
  <2> QED BY <2>1, <2>4, <2>5, <2>7, <2>8 DEF InputInv
<1>2. ASSUME NEW w \in Workers, Receive(w) PROVE InputInv'
  <2> DEFINE h == Head(input)
  <2>1. /\ input # << >> /\ input' = Tail(input) /\ ev' = [ev EXCEPT ![w] = h]
        /\ UNCHANGED <<offered, by>> /\ pc[w] = "recv"
    BY <1>2 DEF Receive
  <2>2. /\ h \in Events /\ h = input[1] /\ Len(input) > 0 /\ Len(input') = Len(input) - 1
        /\ \A i \in 1..Len(input') : input'[i] = input[i + 1]
    BY <1>0, <2>1, HeadTailProperties
  <2> HIDE DEF h
  <2>3. 1 \in 1..Len(input) /\ \A i \in 1..Len(input') : i + 1 \in 1..Len(input) /\ 1 < i + 1 /\ i \in Nat
    BY <1>0, <2>2
  <2>4. /\ h <= offered /\ \A i \in 1..Len(input') : h < input'[i] /\ input'[i] <= offered
        /\ \A i, j \in 1..Len(input') : i < j => input'[i] < input'[j]
    <3>1. \A i \in 1..Len(input') : h < input'[i] /\ input'[i] <= offered
      BY <2>2, <2>3 DEF InputInv
    <3>2. ASSUME NEW i \in 1..Len(input'), NEW j \in 1..Len(input'), i < j
          PROVE  input'[i] < input'[j]
      <4>1. i + 1 < j + 1 /\ i + 1 \in 1..Len(input) /\ j + 1 \in 1..Len(input)
        BY <1>0, <2>2, <2>3, <3>2
      <4> QED BY <2>2, <4>1 DEF InputInv
    <3> QED BY <2>2, <2>3, <3>1, <3>2 DEF InputInv
  <2>5. by[h] = 0
    <3>1. ~(h < h)
      BY <2>2, PoolFacts
    <3> QED BY <2>2, <2>3, <3>1 DEF InputInv
  <2>6. \A v \in Workers : ev'[v] = IF v = w THEN h ELSE ev[v]
    BY <1>0, <2>1
  <2>7. \A v \in Workers : ev'[v] # 0 =>
          ev'[v] <= offered /\ by[ev'[v]] = 0 /\ \A i \in 1..Len(input') : ev'[v] < input'[i]
    BY <2>2, <2>3, <2>4, <2>5, <2>6 DEF InputInv
  <2>8. \A v \in Workers : ev[v] # h
    <3>1. ~(h < h) /\ h # 0
      BY <2>2, PoolFacts
    <3> QED BY <2>2, <2>3, <3>1 DEF InputInv
  <2>9. \A v, u \in Workers : v # u /\ ev'[u] # 0 => ev'[v] # ev'[u]
    BY <2>6, <2>8 DEF InputInv
  <2>10. ASSUME NEW e \in Events, by[e] # 0
         PROVE  /\ e <= offered /\ \A i \in 1..Len(input') : e < input'[i]
                /\ ev'[by[e]] # 0 => e < ev'[by[e]]
    <3>1. e < h
      BY <2>2, <2>3, <2>10 DEF InputInv
    <3>2. by[e] \in Workers
      BY <1>0, <2>10
    <3> QED BY <2>2, <2>3, <2>6, <2>10, <3>1, <3>2 DEF InputInv
  <2> QED BY <2>1, <2>4, <2>7, <2>9, <2>10 DEF InputInv
<1>3. ASSUME NEW w \in Workers, Write(w) PROVE InputInv'
  <2>1. /\ pc[w] = "write" /\ ev' = [ev EXCEPT ![w] = 0] /\ UNCHANGED <<offered, input>>
        /\ by' = by \/ by' = [by EXCEPT ![ev[w]] = w]
    BY <1>3 DEF Write
  <2>2. ev[w] # 0 /\ ev[w] \in Events /\ by[ev[w]] = 0 /\ ev[w] <= offered
        /\ \A i \in 1..Len(input) : ev[w] < input[i]
    BY <1>0, <2>1 DEF StopInv, InputInv
  <2>3. \A v \in Workers : ev'[v] = IF v = w THEN 0 ELSE ev[v]
    BY <1>0, <2>1
  <2>4. \A e \in Events : by'[e] = by[e] \/ (e = ev[w] /\ by'[e] = w)
    BY <1>0, <2>1
  <2>5. \A v \in Workers : ev'[v] # 0 => ev'[v] = ev[v] /\ ev[v] # ev[w] /\ by'[ev[v]] = by[ev[v]]
    BY <1>0, <2>2, <2>3, <2>4 DEF InputInv
  <2>6. ASSUME NEW e \in Events, by'[e] # 0
        PROVE  /\ e <= offered /\ \A i \in 1..Len(input) : e < input[i]
               /\ ev'[by'[e]] # 0 => e < ev'[by'[e]]
    <3>1. CASE by'[e] = by[e]
      <4>1. by[e] \in Workers
        BY <1>0, <2>6, <3>1
      <4> QED BY <2>3, <2>6, <3>1, <4>1 DEF InputInv
    <3>2. CASE e = ev[w] /\ by'[e] = w
      BY <2>2, <2>3, <3>2
    <3> QED BY <2>4, <3>1, <3>2
  <2>7. \A v, u \in Workers : v # u /\ ev'[u] # 0 => ev'[v] # ev'[u]
    BY <2>3 DEF InputInv
  <2> QED BY <2>1, <2>5, <2>6, <2>7 DEF InputInv
<1>4. CASE UNCHANGED <<offered, input, ev, by>>
  BY <1>4 DEF InputInv
<1> QED BY <1>1, <1>2, <1>3, <1>4
        DEF Next, Stop, Worker, Signal, Start, CloseInput, Leave, BatchTimeout, Produce, CloseWriter,
            WriterClosed, kvars

-----------------------------------------------------------------------------
(* What the steps of the writers do to Unsent.                             *)

(* V has what U has, in the same places, and the same first batch unless   *)
(* that is still open.                                                     *)
SameSlots(U, V) ==
  /\ Len(V) >= Len(U) /\ (Len(U) > 1 => V[1] = U[1])
  /\ \A k \in 1..Len(U) : \A i \in 1..Len(U[k]) :
       k \in 1..Len(V) /\ i \in 1..Len(V[k]) /\ V[k][i] = U[k][i]

NoNewSlot(U, V) ==
  \A k \in 1..Len(V) : \A i \in 1..Len(V[k]) : k \in 1..Len(U) /\ i \in 1..Len(U[k])

(* V has e besides, in place n of batch m, behind all the others.          *)
NewSlot(U, V, m, n, e) ==
  /\ m \in 1..Len(V) /\ n \in 1..Len(V[m]) /\ V[m][n] = e
  /\ \A k \in 1..Len(V) : \A i \in 1..Len(V[k]) :
       \/ k \in 1..Len(U) /\ i \in 1..Len(U[k]) /\ (k < m \/ (k = m /\ i < n))
       \/ k = m /\ i = n

LEMMA ChunkFacts ==
  ASSUME NEW s \in Seq(Batches), NEW b \in Batches
  PROVE  /\ Append(s, b) \in Seq(Batches)
         /\ Len(s) \in Nat /\ Len(b) \in Nat /\ Len(Append(s, b)) = Len(s) + 1
         /\ \A k \in 1..Len(s) : Append(s, b)[k] = s[k]
         /\ Append(s, b)[Len(s) + 1] = b
  BY AppendProperties DEF Batches

(* A batch at the end of the queue, and an empty one open.                 *)
LEMMA SentSlots ==
  ASSUME NEW s \in Seq(Batches), NEW b \in Batches
  PROVE  SameSlots(Append(s, b), Append(Append(s, b), << >>))
         /\ NoNewSlot(Append(s, b), Append(Append(s, b), << >>))
<1> DEFINE U == Append(s, b)
           V == Append(U, << >>)
<1>1. U \in Seq(Batches) /\ Len(U) = Len(s) + 1 /\ Len(s) \in Nat
  BY ChunkFacts
<1>2. << >> \in Batches /\ Len(<< >>) = 0
  BY DEF Batches
<1> HIDE DEF U
<1>3. Len(V) = Len(U) + 1 /\ (\A k \in 1..Len(U) : V[k] = U[k]) /\ V[Len(U) + 1] = << >>
  BY <1>1, <1>2, ChunkFacts
<1> HIDE DEF V
<1>4. SameSlots(U, V)
  BY <1>1, <1>3 DEF SameSlots
<1>5. NoNewSlot(U, V)
  <2> SUFFICES ASSUME NEW k \in 1..Len(V), NEW i \in 1..Len(V[k])
               PROVE  k \in 1..Len(U) /\ i \in 1..Len(U[k])
    BY DEF NoNewSlot
  <2>1. k \in 1..Len(U) \/ k = Len(U) + 1
    BY <1>1, <1>3
  <2>2. k # Len(U) + 1
    BY <1>2, <1>3
  <2> QED BY <1>3, <2>1, <2>2
<1> QED BY <1>4, <1>5 DEF U, V

(* An event at the end of the open batch.                                  *)
LEMMA JoinedSlots ==
  ASSUME NEW s \in Seq(Batches), NEW b \in Batches, NEW e \in Events
  PROVE  /\ SameSlots(Append(s, b), Append(s, Append(b, e)))
         /\ NewSlot(Append(s, b), Append(s, Append(b, e)), Len(s) + 1, Len(b) + 1, e)
<1> DEFINE c == Append(b, e)
           U == Append(s, b)
           V == Append(s, c)
<1>1. /\ c \in Batches /\ Len(c) = Len(b) + 1 /\ Len(b) \in Nat
      /\ (\A i \in 1..Len(b) : c[i] = b[i]) /\ c[Len(b) + 1] = e
  BY AppendProperties DEF Batches
<1> HIDE DEF c
<1>2. /\ Len(s) \in Nat /\ Len(U) = Len(s) + 1 /\ Len(V) = Len(s) + 1
      /\ (\A k \in 1..Len(s) : U[k] = s[k] /\ V[k] = s[k])
      /\ U[Len(s) + 1] = b /\ V[Len(s) + 1] = c
  BY <1>1, ChunkFacts
<1> HIDE DEF U, V
<1>3. \A k \in 1..Len(U) : k \in 1..Len(s) \/ k = Len(s) + 1
  BY <1>2
<1>4. ASSUME NEW k \in 1..Len(U), NEW i \in 1..Len(U[k])
      PROVE  k \in 1..Len(V) /\ i \in 1..Len(V[k]) /\ V[k][i] = U[k][i]
  <2>1. CASE k \in 1..Len(s)
    BY <1>2, <2>1
  <2>2. CASE k = Len(s) + 1
    BY <1>1, <1>2, <2>2
  <2> QED BY <1>3, <2>1, <2>2
<1>5. Len(U) > 1 => V[1] = U[1]
  BY <1>2
<1>6. SameSlots(U, V)
  BY <1>2, <1>4, <1>5 DEF SameSlots
<1>7. ASSUME NEW k \in 1..Len(V), NEW i \in 1..Len(V[k])
      PROVE  \/ /\ k \in 1..Len(U) /\ i \in 1..Len(U[k])
                /\ k < Len(s) + 1 \/ (k = Len(s) + 1 /\ i < Len(b) + 1)
             \/ k = Len(s) + 1 /\ i = Len(b) + 1
  <2>1. CASE k \in 1..Len(s)
    BY <1>2, <2>1
  <2>2. CASE k = Len(s) + 1
    BY <1>1, <1>2, <2>2
  <2> QED BY <1>2, <1>3, <2>1, <2>2
<1>8. /\ Len(s) + 1 \in 1..Len(V) /\ Len(b) + 1 \in 1..Len(V[Len(s) + 1])
      /\ V[Len(s) + 1][Len(b) + 1] = e
  BY <1>1, <1>2
<1>9. NewSlot(U, V, Len(s) + 1, Len(b) + 1, e)
  BY <1>7, <1>8 DEF NewSlot
<1> QED BY <1>6, <1>9 DEF U, V, c

LEMMA EnqueueUnsent ==
  ASSUME TypeOK, NEW w \in Workers, NEW p \in Partitions, NEW e \in Events, Enqueue(w, p, e)
  PROVE  /\ \A v \in Workers, q \in Partitions : v # w \/ q # p => Unsent'[v][q] = Unsent[v][q]
         /\ SameSlots(Unsent[w][p], Unsent'[w][p])
         /\ \E m, n \in Nat : NewSlot(Unsent[w][p], Unsent'[w][p], m, n, e)
<1> DEFINE s == queue[w][p]
           b == batch[w][p]
           c == Append(b, e)
<1>1. /\ batch \in [Workers -> [Partitions -> Batches]]
      /\ queue \in [Workers -> [Partitions -> Seq(Batches)]] /\ s \in Seq(Batches) /\ b \in Batches
  BY DEF TypeOK
<1>2. c \in Batches /\ Len(b) \in Nat /\ Len(s) \in Nat /\ Len(c) = Len(b) + 1
  BY <1>1, AppendProperties DEF Batches
<1>3. \A v \in Workers, q \in Partitions :
        /\ Unsent[v][q] = Append(queue[v][q], batch[v][q])
        /\ Unsent'[v][q] = Append(queue'[v][q], batch'[v][q])
  BY DEF Unsent
<1>4. SameSlots(Append(s, b), Append(s, c)) /\ NewSlot(Append(s, b), Append(s, c), Len(s) + 1, Len(b) + 1, e)
  BY <1>1, JoinedSlots
<1>5. CASE Len(c) >= Batch
  <2>1. batch' = [batch EXCEPT ![w][p] = << >>] /\ queue' = [queue EXCEPT ![w][p] = Append(s, c)]
    BY <1>5 DEF Enqueue
  <2> DEFINE U == Append(s, b)
             W == Append(s, c)
             V == Append(W, << >>)
  <2>2. SameSlots(W, V) /\ NoNewSlot(W, V)
    BY <1>1, <1>2, SentSlots
  <2>3. Unsent[w][p] = U /\ Unsent'[w][p] = V
    BY <1>1, <1>3, <2>1
  <2>4. /\ U \in Seq(Batches) /\ W \in Seq(Batches) /\ Len(U) = Len(s) + 1 /\ Len(W) = Len(s) + 1
        /\ V[1] = W[1]
    <3>1. W \in Seq(Batches) /\ Len(W) = Len(s) + 1 /\ U \in Seq(Batches) /\ Len(U) = Len(s) + 1
      BY <1>1, <1>2, ChunkFacts
    <3>2. << >> \in Batches /\ 1 \in 1..Len(W)
      BY <1>2, <3>1 DEF Batches
    <3> HIDE DEF W
    <3>3. V[1] = W[1]
      BY <3>1, <3>2, ChunkFacts
    <3> QED BY <3>1, <3>3
  <2>5. SameSlots(U, W) /\ NewSlot(U, W, Len(s) + 1, Len(b) + 1, e)
    BY <1>4
  <2> HIDE DEF U, V, W
  <2>6. SameSlots(U, V)
    <3>1. Len(V) >= Len(U) /\ (Len(U) > 1 => V[1] = U[1])
      BY <1>2, <2>2, <2>4, <2>5 DEF SameSlots
    <3> QED BY <2>2, <2>5, <3>1 DEF SameSlots
  <2>7. NewSlot(U, V, Len(s) + 1, Len(b) + 1, e)
    <3> DEFINE m == Len(s) + 1
               n == Len(b) + 1
    <3>1. m \in 1..Len(W) /\ n \in 1..Len(W[m]) /\ W[m][n] = e
      BY <2>5 DEF NewSlot
    <3> HIDE DEF m, n
    <3>2. m \in 1..Len(V) /\ n \in 1..Len(V[m]) /\ V[m][n] = e
      BY <2>2, <3>1 DEF SameSlots
    <3>3. ASSUME NEW k \in 1..Len(V), NEW i \in 1..Len(V[k])
          PROVE  \/ k \in 1..Len(U) /\ i \in 1..Len(U[k]) /\ (k < m \/ (k = m /\ i < n))
                 \/ k = m /\ i = n
      <4>1. k \in 1..Len(W) /\ i \in 1..Len(W[k])
        BY <2>2 DEF NoNewSlot
      <4>2. NewSlot(U, W, m, n, e)
        BY <2>5 DEF m, n
      <4> QED BY <4>1, <4>2 DEF NewSlot
    <3>4. NewSlot(U, V, m, n, e)
      BY <3>2, <3>3 DEF NewSlot
    <3> QED BY <3>4 DEF m, n
  <2>8. \A v \in Workers, q \in Partitions : v # w \/ q # p =>
          queue'[v][q] = queue[v][q] /\ batch'[v][q] = batch[v][q]
    BY <1>1, <2>1
  <2>9. \E m, n \in Nat : NewSlot(U, V, m, n, e)
    <3>1. Len(s) + 1 \in Nat /\ Len(b) + 1 \in Nat
      BY <1>2
    <3> HIDE DEF s, b
    <3> QED BY <2>7, <3>1
  <2>10. \A v \in Workers, q \in Partitions : v # w \/ q # p => Unsent'[v][q] = Unsent[v][q]
    BY <2>8 DEF Unsent
  <2> QED BY <2>3, <2>6, <2>9, <2>10
<1>6. CASE ~(Len(c) >= Batch)
  <2>1. batch' = [batch EXCEPT ![w][p] = c] /\ queue' = queue
    BY <1>6 DEF Enqueue
  <2>2. Unsent[w][p] = Append(s, b) /\ Unsent'[w][p] = Append(s, c)
    BY <1>1, <1>3, <2>1
  <2>3. \A v \in Workers, q \in Partitions : v # w \/ q # p => batch'[v][q] = batch[v][q]
    BY <1>1, <2>1
  <2>4. \E m, n \in Nat : NewSlot(Append(s, b), Append(s, c), m, n, e)
    <3>1. Len(s) + 1 \in Nat /\ Len(b) + 1 \in Nat
      BY <1>2
    <3> HIDE DEF s, b, c
    <3> QED BY <1>4, <3>1
  <2>5. \A v \in Workers, q \in Partitions : v # w \/ q # p => Unsent'[v][q] = Unsent[v][q]
    BY <2>1, <2>3 DEF Unsent
  <2> QED BY <1>4, <2>2, <2>4, <2>5
<1> QED BY <1>5, <1>6

LEMMA FlushUnsent ==
  ASSUME TypeOK, NEW w \in Workers, NEW Q, Flushes(w, Q)
  PROVE  \A v \in Workers, q \in Partitions :
           SameSlots(Unsent[v][q], Unsent'[v][q]) /\ NoNewSlot(Unsent[v][q], Unsent'[v][q])
<1> TAKE v \in Workers, q \in Partitions
<1>1. /\ batch \in [Workers -> [Partitions -> Batches]]
      /\ queue \in [Workers -> [Partitions -> Seq(Batches)]]
  BY DEF TypeOK
<1>2. /\ Unsent[v][q] = Append(queue[v][q], batch[v][q])
      /\ Unsent'[v][q] = Append(queue'[v][q], batch'[v][q])
  BY DEF Unsent
<1>3. CASE v = w /\ q \in Q
  <2>1. batch'[v][q] = << >> /\ queue'[v][q] = Append(queue[v][q], batch[v][q])
    BY <1>1, <1>3 DEF Flushes
  <2> QED BY <1>1, <1>2, <2>1, SentSlots
<1>4. CASE ~(v = w /\ q \in Q)
  <2>1. batch'[v][q] = batch[v][q] /\ queue'[v][q] = queue[v][q]
    BY <1>1, <1>4 DEF Flushes
  <2>2. Unsent'[v][q] = Unsent[v][q] /\ Len(Unsent[v][q]) \in Nat
    BY <1>2, <2>1, UnsentFacts
  <2> QED BY <2>2 DEF SameSlots, NoNewSlot
<1> QED BY <1>3, <1>4

LEMMA PopUnsent ==
  ASSUME TypeOK, NEW w \in Workers, NEW p \in Partitions, queue[w][p] # << >>,
         queue' = [queue EXCEPT ![w][p] = Tail(queue[w][p])], batch' = batch
  PROVE  /\ Len(Unsent[w][p]) > 1 /\ Head(queue[w][p]) = Unsent[w][p][1]
         /\ Len(Unsent'[w][p]) = Len(Unsent[w][p]) - 1
         /\ \A k \in 1..Len(Unsent'[w][p]) : Unsent'[w][p][k] = Unsent[w][p][k + 1]
         /\ \A v \in Workers, q \in Partitions : v # w \/ q # p => Unsent'[v][q] = Unsent[v][q]
<1> DEFINE s == queue[w][p]
           t == Tail(s)
           b == batch[w][p]
<1>1. /\ batch \in [Workers -> [Partitions -> Batches]]
      /\ queue \in [Workers -> [Partitions -> Seq(Batches)]] /\ s \in Seq(Batches) /\ b \in Batches
  BY DEF TypeOK
<1>2. \A v \in Workers, q \in Partitions :
        /\ Unsent[v][q] = Append(queue[v][q], batch[v][q])
        /\ Unsent'[v][q] = Append(queue'[v][q], batch[v][q])
  BY DEF Unsent
<1>3. /\ t \in Seq(Batches) /\ Len(t) = Len(s) - 1 /\ Len(s) \in Nat \ {0} /\ Head(s) = s[1]
      /\ \A k \in 1..Len(t) : t[k] = s[k + 1]
  BY <1>1, HeadTailProperties, EmptySeq
<1>4. Unsent[w][p] = Append(s, b) /\ Unsent'[w][p] = Append(t, b)
  BY <1>1, <1>2
<1>5. \A v \in Workers, q \in Partitions : v # w \/ q # p => Unsent'[v][q] = Unsent[v][q]
  <2> SUFFICES ASSUME NEW v \in Workers, NEW q \in Partitions, v # w \/ q # p
               PROVE  Unsent'[v][q] = Unsent[v][q]
    OBVIOUS
  <2>1. queue'[v][q] = queue[v][q]
    BY <1>1
  <2> QED BY <2>1 DEF Unsent
<1> HIDE DEF s, t, b
<1>6. /\ Len(Append(s, b)) = Len(s) + 1 /\ Append(s, b)[Len(s) + 1] = b
      /\ \A k \in 1..Len(s) : Append(s, b)[k] = s[k]
  BY <1>1, ChunkFacts
<1>7. /\ Len(Append(t, b)) = Len(t) + 1 /\ Append(t, b)[Len(t) + 1] = b
      /\ \A k \in 1..Len(t) : Append(t, b)[k] = t[k]
  BY <1>1, <1>3, ChunkFacts
<1>8. ASSUME NEW k \in 1..Len(t) + 1 PROVE Append(t, b)[k] = Append(s, b)[k + 1]
  <2>1. CASE k \in 1..Len(t)
    <3>1. k + 1 \in 1..Len(s)
      BY <1>3, <2>1
    <3> QED BY <1>3, <1>6, <1>7, <2>1, <3>1
  <2>2. CASE k = Len(t) + 1
    <3>1. k + 1 = Len(s) + 1
      BY <1>3, <2>2
    <3> QED BY <1>6, <1>7, <2>2, <3>1
  <2> QED BY <1>3, <2>1, <2>2
<1>9. Head(queue[w][p]) = Append(s, b)[1] /\ Len(Append(s, b)) > 1
  BY <1>3, <1>6 DEF s
<1> QED BY <1>3, <1>4, <1>5, <1>6, <1>7, <1>8, <1>9

-----------------------------------------------------------------------------
(* The log and what is yet to be sent.                                     *)

(* Numbers in batches, the last of which is open.                          *)
Numbers(U) ==
  /\ Len(U) \in Nat \ {0}
  /\ \A k \in 1..Len(U) : Len(U[k]) \in Nat /\ \A i \in 1..Len(U[k]) : U[k][i] \in Nat

LEMMA UnsentNumbers ==
  ASSUME TypeOK, NEW w \in Workers, NEW p \in Partitions
  PROVE  Numbers(Unsent[w][p])
<1> DEFINE U == Unsent[w][p]
<1>1. Len(U) \in Nat \ {0}
  BY UnsentFacts
<1>2. \A k \in 1..Len(U) : Len(U[k]) \in Nat /\ \A i \in 1..Len(U[k]) : U[k][i] \in Events
  BY UnsentFacts
<1> HIDE DEF U
<1>3. \A k \in 1..Len(U) : Len(U[k]) \in Nat /\ \A i \in 1..Len(U[k]) : U[k][i] \in Nat
  BY <1>2, PoolFacts
<1>4. Numbers(U)
  BY <1>1, <1>3 DEF Numbers
<1> QED BY <1>4 DEF U

(* Of what is yet to be sent, only the batch under way may be in the log.  *)
LEMMA LoggedIsFirst ==
  ASSUME NEW U, NEW L, NEW B, NEW w, NEW p, Numbers(U),
         Owned(U, B, w, p), Ascends(U), Behind(U, L, B, w),
         NEW n \in 1..Len(L), NEW k \in 1..Len(U), NEW i \in 1..Len(U[k]), L[n] = U[k][i]
  PROVE  Len(U) > 1 /\ k = 1
<1>1. /\ Len(U) \in Nat /\ L[n] \in Nat /\ B[L[n]] = w
  BY DEF Owned, Numbers
<1>2. PICK j \in 1..Len(U[1]) : Len(U) > 1 /\ U[1][j] = L[n]
  BY <1>1, SMTT(40) DEF Behind
<1>3. k = 1
  <2> SUFFICES ASSUME k # 1 PROVE FALSE
    OBVIOUS
  <2>1. 1 < k /\ 1 \in 1..Len(U)
    BY <1>1
  <2>2. U[1][j] < U[k][i]
    BY <1>2, <2>1 DEF Ascends
  <2> QED BY <1>1, <1>2, <2>2
<1> QED BY <1>2, <1>3

(* A batch joins the queue.                                                *)
LEMMA FlushedOK ==
  ASSUME NEW U, NEW V, NEW L, NEW B, NEW A, NEW w, NEW p, Numbers(U),
         SameSlots(U, V), NoNewSlot(U, V), WriterOK(U, L, B, A, w, p)
  PROVE  WriterOK(V, L, B, A, w, p)
<1>1. /\ \A k \in 1..Len(V) : \A i \in 1..Len(V[k]) :
           k \in 1..Len(U) /\ i \in 1..Len(U[k]) /\ V[k][i] = U[k][i]
      /\ Len(V) >= Len(U) /\ (Len(U) > 1 => V[1] = U[1]) /\ Len(U) \in Nat \ {0}
  BY DEF SameSlots, NoNewSlot, Numbers
<1>2. Owned(V, B, w, p)
  BY <1>1 DEF WriterOK, Owned
<1>3. Ascends(V)
  BY <1>1, SMTT(40) DEF WriterOK, Ascends
<1>4. Behind(V, L, B, w)
  BY <1>1, SMTT(40) DEF WriterOK, Behind
<1>5. Whole(V, L, A)
  <2> SUFFICES ASSUME Len(V) > 1, NEW n \in 1..Len(L), NEW i \in 1..Len(V[1]), L[n] = V[1][i]
               PROVE  L[n] \in A /\ \A j \in 1..Len(V[1]) : \E m \in 1..Len(L) : L[m] = V[1][j]
    BY DEF Whole
  <2>1. 1 \in 1..Len(U) /\ 1 \in 1..Len(V)
    BY <1>1
  <2>2. i \in 1..Len(U[1]) /\ L[n] = U[1][i]
    BY <1>1, <2>1
  <2>3. Len(U) > 1
    BY <2>1, <2>2, LoggedIsFirst DEF WriterOK
  <2> QED BY <1>1, <2>2, <2>3 DEF WriterOK, Whole
<1> QED BY <1>2, <1>3, <1>4, <1>5 DEF WriterOK

(* Event e, which nobody has written and which comes after all that w has, *)
(* joins the last batch.                                                   *)
LEMMA HandedOK ==
  ASSUME NEW U, NEW V, NEW L, NEW B, NEW C, NEW A, NEW w \in Nat \ {0}, NEW p, NEW e \in Nat,
         NEW x \in Nat, NEW y \in Nat, Numbers(U), SameSlots(U, V), NewSlot(U, V, x, y, e),
         WriterOK(U, L, B, A, w, p), LogOwned(L, B, p),
         \A k \in 1..Len(U) : \A i \in 1..Len(U[k]) : C[U[k][i]] = B[U[k][i]] /\ U[k][i] < e,
         \A n \in 1..Len(L) : C[L[n]] = B[L[n]] /\ L[n] # e /\ (B[L[n]] = w => L[n] < e),
         C[e] = w, PartitionOf(e) = p
  PROVE  WriterOK(V, L, C, A, w, p)
<1>1. /\ \A k \in 1..Len(V) : \A i \in 1..Len(V[k]) :
           \/ /\ k \in 1..Len(U) /\ i \in 1..Len(U[k]) /\ V[k][i] = U[k][i]
              /\ k < x \/ (k = x /\ i < y)
           \/ k = x /\ i = y /\ V[k][i] = e
      /\ Len(V) >= Len(U) /\ (Len(U) > 1 => V[1] = U[1]) /\ Len(U) \in Nat \ {0}
  BY DEF SameSlots, NewSlot, Numbers
<1>2. Owned(V, C, w, p)
  <2> SUFFICES ASSUME NEW k \in 1..Len(V), NEW i \in 1..Len(V[k])
               PROVE  C[V[k][i]] = w /\ PartitionOf(V[k][i]) = p
    BY DEF Owned
  <2>1. CASE k \in 1..Len(U) /\ i \in 1..Len(U[k]) /\ V[k][i] = U[k][i]
    <3>1. B[U[k][i]] = w /\ PartitionOf(U[k][i]) = p
      BY <2>1 DEF WriterOK, Owned
    <3> QED BY <2>1, <3>1
  <2>2. CASE V[k][i] = e
    BY <2>2
  <2> QED BY <1>1, <2>1, <2>2
<1>3. Ascends(V)
  <2> SUFFICES ASSUME NEW k \in 1..Len(V), NEW l \in 1..Len(V), NEW i \in 1..Len(V[k]),
                      NEW j \in 1..Len(V[l]), k < l \/ (k = l /\ i < j)
               PROVE  V[k][i] < V[l][j]
    BY DEF Ascends
  <2>1. CASE l = x /\ j = y /\ V[l][j] = e
    <3>1. ~(k = x /\ i = y)
      BY <2>1
    <3>2. k \in 1..Len(U) /\ i \in 1..Len(U[k]) /\ V[k][i] = U[k][i]
      BY <1>1, <3>1, ZenonT(60)
    <3>3. U[k][i] < e
      BY <3>2
    <3> QED BY <2>1, <3>2, <3>3
  <2>2. CASE /\ l \in 1..Len(U) /\ j \in 1..Len(U[l]) /\ V[l][j] = U[l][j]
             /\ l < x \/ (l = x /\ j < y)
    <3>1. ~(k = x /\ i = y)
      BY <2>2
    <3>2. k \in 1..Len(U) /\ i \in 1..Len(U[k]) /\ V[k][i] = U[k][i]
      BY <1>1, <3>1, ZenonT(60)
    <3> QED BY <2>2, <3>2 DEF WriterOK, Ascends
  <2> QED BY <1>1, <2>1, <2>2
<1>4. Behind(V, L, C, w)
  <2> SUFFICES ASSUME NEW n \in 1..Len(L), C[L[n]] = w
               PROVE  \/ \A k \in 1..Len(V) : \A i \in 1..Len(V[k]) : L[n] < V[k][i]
                      \/ Len(V) > 1 /\ \E i \in 1..Len(V[1]) : V[1][i] = L[n]
    BY DEF Behind
  <2>1. B[L[n]] = w /\ L[n] < e
    OBVIOUS
  <2>2. CASE \A k \in 1..Len(U) : \A i \in 1..Len(U[k]) : L[n] < U[k][i]
    BY <1>1, <2>1, <2>2
  <2>3. CASE Len(U) > 1 /\ \E i \in 1..Len(U[1]) : U[1][i] = L[n]
    BY <1>1, <2>3, SMTT(40)
  <2> QED BY <2>1, <2>2, <2>3 DEF WriterOK, Behind
<1>5. Whole(V, L, A)
  <2> SUFFICES ASSUME Len(V) > 1, NEW n \in 1..Len(L), NEW i \in 1..Len(V[1]), L[n] = V[1][i]
               PROVE  L[n] \in A /\ \A j \in 1..Len(V[1]) : \E m \in 1..Len(L) : L[m] = V[1][j]
    BY DEF Whole
  <2>1. 1 \in 1..Len(U) /\ 1 \in 1..Len(V)
    BY <1>1
  <2>2. i \in 1..Len(U[1]) /\ L[n] = U[1][i]
    BY <1>1, <2>1
  <2>3. Len(U) > 1
    BY <2>1, <2>2, LoggedIsFirst DEF WriterOK
  <2>4. Whole(U, L, A) /\ V[1] = U[1]
    BY <1>1, <2>3 DEF WriterOK
  <2> QED BY <2>2, <2>3, <2>4 DEF Whole
<1> QED BY <1>2, <1>3, <1>4, <1>5 DEF WriterOK

(* The others do not notice.                                               *)
LEMMA UntouchedOK ==
  ASSUME NEW U, NEW L, NEW B, NEW C, NEW A, NEW w, NEW p, WriterOK(U, L, B, A, w, p),
         \A k \in 1..Len(U) : \A i \in 1..Len(U[k]) : C[U[k][i]] = B[U[k][i]],
         \A n \in 1..Len(L) : C[L[n]] = B[L[n]]
  PROVE  WriterOK(U, L, C, A, w, p)
<1>1. Owned(U, C, w, p)
  BY DEF WriterOK, Owned
<1>2. Behind(U, L, C, w)
  BY DEF WriterOK, Behind
<1> QED BY <1>1, <1>2 DEF WriterOK

LEMMA LogUntouchedOK ==
  ASSUME NEW L, NEW B, NEW C, NEW A, NEW p, LogOK(L, B, A, p), \A n \in 1..Len(L) : C[L[n]] = B[L[n]]
  PROVE  LogOK(L, C, A, p)
<1>1. LogOwned(L, C, p)
  BY DEF LogOK, LogOwned
<1>2. LogOrdered(L, C)
  BY DEF LogOK, LogOrdered
<1> QED BY <1>1, <1>2 DEF LogOK

(* The batch under way is appended to the log, once more or for the first  *)
(* time.                                                                   *)
LEMMA StoredOK ==
  ASSUME NEW U, NEW L, NEW M, NEW B, NEW A, NEW D, NEW w \in Nat \ {0}, NEW p,
         Numbers(U), Len(U) > 1, WriterOK(U, L, B, A, w, p), LogOK(L, B, A, p), A \subseteq D,
         Len(L) \in Nat, \A n \in 1..Len(L) : L[n] \in Nat, Len(M) = Len(L) + Len(U[1]),
         \A n \in 1..Len(L) : M[n] = L[n], \A i \in 1..Len(U[1]) : M[Len(L) + i] = U[1][i]
  PROVE  /\ LogOK(M, B, D, p) /\ Behind(U, M, B, w)
         /\ \A j \in 1..Len(U[1]) : \E m \in 1..Len(M) : M[m] = U[1][j]
<1> DEFINE b == U[1]
<1>1. /\ 1 \in 1..Len(U) /\ Len(b) \in Nat /\ \A i \in 1..Len(b) : b[i] \in Nat /\ B[b[i]] = w
      /\ \A i \in 1..Len(b) : PartitionOf(b[i]) = p
  <2>1. 1 \in 1..Len(U)
    BY DEF Numbers
  <2> QED BY <2>1 DEF Numbers, WriterOK, Owned
<1>2. \A i, j \in 1..Len(b) : i < j => b[i] < b[j]
  BY <1>1 DEF WriterOK, Ascends
<1>3. \A n \in 1..Len(M) :
        \/ n \in 1..Len(L) /\ M[n] = L[n]
        \/ \E i \in 1..Len(b) : n = Len(L) + i /\ M[n] = b[i]
  <2> SUFFICES ASSUME NEW n \in 1..Len(M), n \notin 1..Len(L)
               PROVE  \E i \in 1..Len(b) : n = Len(L) + i /\ M[n] = b[i]
    OBVIOUS
  <2>1. n - Len(L) \in 1..Len(b) /\ n = Len(L) + (n - Len(L))
    BY <1>1
  <2>2. M[Len(L) + (n - Len(L))] = b[n - Len(L)]
    BY <2>1
  <2> QED BY <2>1, <2>2
<1>4. \A i \in 1..Len(b) : Len(L) + i \in 1..Len(M) /\ M[Len(L) + i] = b[i]
  BY <1>1
<1>5. \A n \in 1..Len(L) : n \in 1..Len(M) /\ M[n] = L[n]
  BY <1>1
<1>6. \A n \in 1..Len(L), i \in 1..Len(b) : L[n] = b[i] =>
        L[n] \in A /\ \A j \in 1..Len(b) : \E m \in 1..Len(L) : L[m] = b[j]
  BY DEF WriterOK, Whole
<1>7. LogOwned(L, B, p) /\ LogOnce(L, A) /\ LogOrdered(L, B)
  BY DEF LogOK
<1>8. \A n \in 1..Len(L) : B[L[n]] = w =>
        (\A i \in 1..Len(b) : L[n] < b[i]) \/ (\E i \in 1..Len(b) : b[i] = L[n])
  BY <1>1 DEF WriterOK, Behind
<1>9. Behind(U, M, B, w)
  <2>1. \A n \in 1..Len(L) : B[L[n]] = w =>
          \/ \A k \in 1..Len(U) : \A i \in 1..Len(U[k]) : L[n] < U[k][i]
          \/ Len(U) > 1 /\ \E i \in 1..Len(b) : b[i] = L[n]
    BY DEF WriterOK, Behind
  <2> QED BY <1>3, <2>1 DEF Behind
<1> HIDE DEF b
<1>10. LogOwned(M, B, p)
  <2> SUFFICES ASSUME NEW n \in 1..Len(M) PROVE B[M[n]] # 0 /\ PartitionOf(M[n]) = p
    BY DEF LogOwned
  <2>1. CASE n \in 1..Len(L) /\ M[n] = L[n]
    BY <1>7, <2>1 DEF LogOwned
  <2>2. ASSUME NEW i \in 1..Len(b), M[n] = b[i] PROVE B[M[n]] # 0 /\ PartitionOf(M[n]) = p
    BY <1>1, <2>2
  <2> QED BY <1>3, <2>1, <2>2
<1>11. LogOnce(M, D)
  <2> SUFFICES ASSUME NEW m \in 1..Len(M), NEW n \in 1..Len(M), m # n, M[m] = M[n] PROVE M[m] \in A
    BY DEF LogOnce
  <2>1. CASE m \in 1..Len(L) /\ M[m] = L[m] /\ n \in 1..Len(L) /\ M[n] = L[n]
    BY <1>7, <2>1 DEF LogOnce
  <2>2. ASSUME m \in 1..Len(L), M[m] = L[m], NEW i \in 1..Len(b), M[n] = b[i] PROVE M[m] \in A
    BY <1>6, <2>2
  <2>3. ASSUME n \in 1..Len(L), M[n] = L[n], NEW i \in 1..Len(b), M[m] = b[i] PROVE M[m] \in A
    BY <1>6, <2>3
  <2>4. ASSUME NEW i \in 1..Len(b), NEW j \in 1..Len(b), m = Len(L) + i, n = Len(L) + j,
               M[m] = b[i], M[n] = b[j]
        PROVE  FALSE
    <3>1. i < j \/ j < i
      BY <2>4
    <3> QED BY <1>1, <1>2, <2>4, <3>1
  <2> QED BY <1>3, <2>1, <2>2, <2>3, <2>4
<1>12. LogOrdered(M, B)
  <2> SUFFICES ASSUME NEW m \in 1..Len(M), NEW n \in 1..Len(M), B[M[m]] = B[M[n]], M[m] < M[n]
               PROVE  \E i \in 1..Len(M) : i < n /\ M[i] = M[m]
    BY DEF LogOrdered
  <2>1. CASE m \in 1..Len(L) /\ M[m] = L[m] /\ n \in 1..Len(L) /\ M[n] = L[n]
    <3>1. PICK i \in 1..Len(L) : i < n /\ L[i] = L[m]
      BY <1>7, <2>1 DEF LogOrdered
    <3> QED BY <1>5, <2>1, <3>1
  <2>2. ASSUME m \in 1..Len(L), NEW i \in 1..Len(b), n = Len(L) + i
        PROVE  \E l \in 1..Len(M) : l < n /\ M[l] = M[m]
    <3>1. m < n
      BY <2>2
    <3> QED BY <3>1
  <2>3. ASSUME n \in 1..Len(L), M[n] = L[n], NEW i \in 1..Len(b), M[m] = b[i]
        PROVE  \E l \in 1..Len(M) : l < n /\ M[l] = M[m]
    <3>1. B[L[n]] = w /\ b[i] < L[n] /\ b[i] \in Nat /\ L[n] \in Nat
      BY <1>1, <2>3
    <3>2. ~(L[n] < b[i])
      BY <3>1
    <3>3. PICK j \in 1..Len(b) : b[j] = L[n]
      BY <1>8, <2>3, <3>1, <3>2
    <3>4. PICK l \in 1..Len(L) : L[l] = b[i]
      BY <1>6, <2>3, <3>3
    <3>5. PICK k \in 1..Len(L) : k < n /\ L[k] = L[l]
      <4>1. B[L[l]] = B[L[n]] /\ L[l] < L[n]
        BY <1>1, <3>1, <3>4
      <4> QED BY <1>7, <2>3, <4>1 DEF LogOrdered
    <3> QED BY <1>5, <2>3, <3>4, <3>5
  <2>4. ASSUME NEW i \in 1..Len(b), NEW j \in 1..Len(b), m = Len(L) + i, n = Len(L) + j,
               M[m] = b[i], M[n] = b[j]
        PROVE  \E l \in 1..Len(M) : l < n /\ M[l] = M[m]
    <3>1. b[i] < b[j] /\ b[i] \in Nat /\ b[j] \in Nat
      BY <1>1, <2>4
    <3>2. ~(j < i) /\ i # j
      BY <1>2, <3>1
    <3>3. m < n
      BY <2>4, <3>2
    <3> QED BY <3>3
  <2> QED BY <1>3, <2>1, <2>2, <2>3, <2>4
<1>13. \A j \in 1..Len(b) : \E m \in 1..Len(M) : M[m] = b[j]
  BY <1>4
<1> QED BY <1>9, <1>10, <1>11, <1>12, <1>13 DEF LogOK, b

(* The batch under way is done with.                                       *)
LEMMA PoppedOK ==
  ASSUME NEW U, NEW V, NEW M, NEW B, NEW A, NEW w, NEW p, Numbers(U), Len(U) > 1,
         Owned(U, B, w, p), Ascends(U), Behind(U, M, B, w),
         \A n \in 1..Len(M) : M[n] \in Nat,
         Len(V) = Len(U) - 1, \A k \in 1..Len(V) : V[k] = U[k + 1]
  PROVE  WriterOK(V, M, B, A, w, p)
<1>1. \A k \in 1..Len(V) : k + 1 \in 1..Len(U) /\ 1 < k + 1 /\ V[k] = U[k + 1] /\ 1 \in 1..Len(U)
  BY DEF Numbers
<1>2. Owned(V, B, w, p)
  <2> SUFFICES ASSUME NEW k \in 1..Len(V), NEW i \in 1..Len(V[k])
               PROVE  B[V[k][i]] = w /\ PartitionOf(V[k][i]) = p
    BY DEF Owned
  <2>1. k + 1 \in 1..Len(U) /\ i \in 1..Len(U[k + 1]) /\ V[k][i] = U[k + 1][i]
    BY <1>1
  <2>2. B[U[k + 1][i]] = w /\ PartitionOf(U[k + 1][i]) = p
    BY <2>1 DEF Owned
  <2> QED BY <2>1, <2>2
<1>3. Ascends(V)
  <2> SUFFICES ASSUME NEW k \in 1..Len(V), NEW l \in 1..Len(V), NEW i \in 1..Len(V[k]),
                      NEW j \in 1..Len(V[l]), k < l \/ (k = l /\ i < j)
               PROVE  V[k][i] < V[l][j]
    BY DEF Ascends
  <2>1. k + 1 < l + 1 \/ (k + 1 = l + 1 /\ i < j)
    BY DEF Numbers
  <2>2. i \in 1..Len(U[k + 1]) /\ j \in 1..Len(U[l + 1])
    BY <1>1
  <2>3. U[k + 1][i] < U[l + 1][j]
    BY <1>1, <2>1, <2>2 DEF Ascends
  <2> QED BY <1>1, <2>3
<1>4. ASSUME NEW n \in 1..Len(M), B[M[n]] = w, NEW k \in 1..Len(V), NEW i \in 1..Len(V[k])
      PROVE  M[n] < V[k][i]
  <2>1. k + 1 \in 1..Len(U) /\ i \in 1..Len(U[k + 1]) /\ V[k][i] = U[k + 1][i]
    BY <1>1
  <2>2. ASSUME NEW j \in 1..Len(U[1]), U[1][j] = M[n] PROVE M[n] < U[k + 1][i]
    BY <1>1, <2>1, <2>2 DEF Ascends
  <2> QED BY <1>4, <2>1, <2>2 DEF Behind
<1>5. Behind(V, M, B, w)
  BY <1>4 DEF Behind
<1>6. Whole(V, M, A)
  <2> SUFFICES ASSUME Len(V) > 1, NEW n \in 1..Len(M), NEW i \in 1..Len(V[1]), M[n] = V[1][i]
               PROVE  FALSE
    BY DEF Whole
  <2>1. 1 \in 1..Len(V)
    BY DEF Numbers
  <2>2. B[M[n]] = w
    BY <1>2, <2>1 DEF Owned
  <2>3. M[n] < M[n]
    BY <1>4, <2>1, <2>2
  <2> QED BY <2>3
<1> QED BY <1>2, <1>3, <1>5, <1>6 DEF WriterOK

(* For another writer the log has grown by events that are not its own.    *)
LEMMA BystanderOK ==
  ASSUME NEW U, NEW L, NEW M, NEW B, NEW A, NEW D, NEW v, NEW p, Numbers(U),
         WriterOK(U, L, B, A, v, p), A \subseteq D,
         \A n \in 1..Len(L) : n \in 1..Len(M) /\ M[n] = L[n],
         \A n \in 1..Len(M) : (n \in 1..Len(L) /\ M[n] = L[n]) \/ B[M[n]] # v
  PROVE  WriterOK(U, M, B, D, v, p)
<1>1. Behind(U, M, B, v)
  BY DEF WriterOK, Behind
<1>2. Whole(U, M, D)
  <2> SUFFICES ASSUME Len(U) > 1, NEW n \in 1..Len(M), NEW i \in 1..Len(U[1]), M[n] = U[1][i]
               PROVE  M[n] \in D /\ \A j \in 1..Len(U[1]) : \E m \in 1..Len(M) : M[m] = U[1][j]
    BY DEF Whole
  <2>1. 1 \in 1..Len(U)
    BY DEF Numbers
  <2>2. B[M[n]] = v
    BY <2>1 DEF WriterOK, Owned
  <2>3. n \in 1..Len(L) /\ M[n] = L[n]
    BY <2>2
  <2>4. L[n] \in A /\ \A j \in 1..Len(U[1]) : \E m \in 1..Len(L) : L[m] = U[1][j]
    BY <2>3 DEF WriterOK, Whole
  <2> QED BY <2>3, <2>4, ZenonT(60)
<1> QED BY <1>1, <1>2 DEF WriterOK

-----------------------------------------------------------------------------
(* The steps, with regard to the log and what is yet to be sent.           *)

LEMMA QuietWriters ==
  ASSUME WritersInv, LogInv, UNCHANGED <<batch, queue, log, by, unanswered>>
  PROVE  WritersInv' /\ LogInv'
<1>1. Unsent' = Unsent
  BY DEF Unsent
<1>2. WritersInv'
  BY <1>1 DEF WritersInv
<1>3. LogInv'
  BY DEF LogInv
<1> QED BY <1>2, <1>3

LEMMA FlushStep ==
  ASSUME TypeOK, WritersInv, LogInv, UNCHANGED <<log, by, unanswered>>,
         NEW w \in Workers, NEW Q, Flushes(w, Q)
  PROVE  WritersInv' /\ LogInv'
<1>1. LogInv'
  BY DEF LogInv
<1>2. ASSUME NEW v \in Workers, NEW q \in Partitions
      PROVE  WriterOK(Unsent'[v][q], log[q], by, unanswered, v, q)
  <2>1. /\ SameSlots(Unsent[v][q], Unsent'[v][q]) /\ NoNewSlot(Unsent[v][q], Unsent'[v][q])
        /\ Numbers(Unsent[v][q]) /\ WriterOK(Unsent[v][q], log[q], by, unanswered, v, q)
    BY FlushUnsent, UnsentNumbers DEF WritersInv
  <2> QED BY <2>1, FlushedOK
<1>3. WritersInv'
  BY <1>2 DEF WritersInv
<1> QED BY <1>1, <1>3

LEMMA WriteStep ==
  ASSUME TypeOK, StopInv, InputInv, WritersInv, LogInv, NEW w \in Workers, Write(w)
  PROVE  WritersInv' /\ LogInv'
<1> DEFINE e == ev[w]
           p == PartitionOf(e)
<1>1. /\ pc[w] = "write" /\ UNCHANGED <<log, unanswered>>
      /\ \/ UNCHANGED <<batch, queue, by>>
         \/ Enqueue(w, p, e) /\ by' = [by EXCEPT ![e] = w]
  BY DEF Write, WriterOf
<1>2. /\ e # 0 /\ e \in Events /\ by[e] = 0 /\ by \in [Events -> Workers \cup {0}]
      /\ \A d \in Events : by[d] = w => d < e
  <2>1. e # 0 /\ e \in Events /\ by \in [Events -> Workers \cup {0}]
    BY <1>1 DEF TypeOK, StopInv
  <2>2. by[e] = 0
    BY <2>1 DEF InputInv
  <2>3. ASSUME NEW d \in Events, by[d] = w PROVE d < e
    <3>1. w # 0
      BY PoolFacts
    <3> QED BY <2>1, <2>3, <3>1 DEF InputInv
  <2> QED BY <2>1, <2>2, <2>3
<1>3. p \in Partitions /\ e \in Nat /\ w \in Nat \ {0}
  BY <1>2, PoolFacts
<1>4. CASE UNCHANGED <<batch, queue, by>>
  BY <1>1, <1>4, QuietWriters
<1>5. CASE Enqueue(w, p, e) /\ by' = [by EXCEPT ![e] = w]
  <2>1. by'[e] = w /\ \A d \in Events : d # e => by'[d] = by[d]
    BY <1>2, <1>5
  <2>2. \A q \in Partitions : \A n \in 1..Len(log[q]) : log[q][n] \in Events /\ by[log[q][n]] # 0
    BY LogFacts DEF LogInv, LogOK, LogOwned
  <2>3. \A q \in Partitions : \A n \in 1..Len(log[q]) :
          by'[log[q][n]] = by[log[q][n]] /\ log[q][n] # e /\ (by[log[q][n]] = w => log[q][n] < e)
    BY <1>2, <2>1, <2>2
  <2>4. LogInv'
    <3>1. ASSUME NEW q \in Partitions PROVE LogOK(log[q], by', unanswered, q)
      BY <2>3, LogUntouchedOK DEF LogInv
    <3> QED BY <1>1, <3>1 DEF LogInv
  <2>5. ASSUME NEW v \in Workers, NEW q \in Partitions
        PROVE  /\ WriterOK(Unsent[v][q], log[q], by, unanswered, v, q) /\ Numbers(Unsent[v][q])
               /\ \A k \in 1..Len(Unsent[v][q]) : \A i \in 1..Len(Unsent[v][q][k]) :
                    /\ by'[Unsent[v][q][k][i]] = by[Unsent[v][q][k][i]]
                    /\ v = w => Unsent[v][q][k][i] < e
    <3> DEFINE U == Unsent[v][q]
    <3>1. WriterOK(U, log[q], by, unanswered, v, q) /\ Numbers(U)
      BY UnsentNumbers DEF WritersInv
    <3>2. \A k \in 1..Len(U) : \A i \in 1..Len(U[k]) : U[k][i] \in Events
      BY UnsentFacts
    <3> HIDE DEF U, e
    <3>3. \A k \in 1..Len(U) : \A i \in 1..Len(U[k]) : by[U[k][i]] = v
      BY <3>1 DEF WriterOK, Owned
    <3>4. v # 0
      BY PoolFacts
    <3>5. \A k \in 1..Len(U) : \A i \in 1..Len(U[k]) :
            by'[U[k][i]] = by[U[k][i]] /\ (v = w => U[k][i] < e)
      BY <1>2, <2>1, <3>2, <3>3, <3>4
    <3> QED BY <3>1, <3>5 DEF U
  <2>6. /\ \A v \in Workers, q \in Partitions : v # w \/ q # p => Unsent'[v][q] = Unsent[v][q]
        /\ SameSlots(Unsent[w][p], Unsent'[w][p])
        /\ \E m, n \in Nat : NewSlot(Unsent[w][p], Unsent'[w][p], m, n, e)
    BY <1>2, <1>3, <1>5, EnqueueUnsent
  <2>7. ASSUME NEW v \in Workers, NEW q \in Partitions
        PROVE  WriterOK(Unsent'[v][q], log[q], by', unanswered, v, q)
    <3>1. CASE v # w \/ q # p
      <4> DEFINE U == Unsent[v][q]
                 L == log[q]
                 C == by'
      <4>1. /\ WriterOK(U, L, by, unanswered, v, q)
            /\ \A k \in 1..Len(U) : \A i \in 1..Len(U[k]) : C[U[k][i]] = by[U[k][i]]
            /\ \A n \in 1..Len(L) : C[L[n]] = by[L[n]]
        BY <2>3, <2>5
      <4>2. Unsent'[v][q] = U
        BY <2>6, <3>1
      <4> HIDE DEF U, L, C
      <4>3. WriterOK(U, L, C, unanswered, v, q)
        BY <4>1, UntouchedOK
      <4> QED BY <4>2, <4>3 DEF L, C
    <3>2. CASE v = w /\ q = p
      <4> DEFINE U == Unsent[w][p]
                 V == Unsent'[w][p]
                 L == log[p]
                 C == by'
      <4>1. PICK x \in Nat, y \in Nat : NewSlot(U, V, x, y, e)
        BY <2>6
      <4>2. SameSlots(U, V)
        BY <2>6
      <4>3. /\ WriterOK(U, L, by, unanswered, w, p) /\ Numbers(U) /\ LogOwned(L, by, p)
            /\ \A k \in 1..Len(U) : \A i \in 1..Len(U[k]) : C[U[k][i]] = by[U[k][i]] /\ U[k][i] < e
            /\ \A n \in 1..Len(L) : C[L[n]] = by[L[n]] /\ L[n] # e /\ (by[L[n]] = w => L[n] < e)
        BY <1>3, <2>3, <2>5, ZenonT(60) DEF LogInv, LogOK
      <4>4. C[e] = w /\ PartitionOf(e) = p
        BY <2>1
      <4> HIDE DEF U, V, L, C, e, p
      <4>5. WriterOK(V, L, C, unanswered, w, p)
        BY <1>3, <4>1, <4>2, <4>3, <4>4, HandedOK
      <4> QED BY <3>2, <4>5 DEF V, L, C
    <3> QED BY <3>1, <3>2
  <2>8. WritersInv'
    BY <1>1, <2>7 DEF WritersInv
  <2> QED BY <2>4, <2>8
<1> QED BY <1>1, <1>4, <1>5

(* What Produce may do: the batch under way is stored or not, and kept or  *)
(* done with; acknowledged, it is both stored and done with.               *)
Stores(w, p) == log' = [log EXCEPT ![p] = log[p] \o Unsent[w][p][1]]

Keeps == UNCHANGED <<queue, batch>>

Drops(w, p) ==
  /\ queue[w][p] # <<>> /\ queue' = [queue EXCEPT ![w][p] = Tail(queue[w][p])] /\ batch' = batch

LEMMA ProduceCases ==
  ASSUME TypeOK, NEW w \in Workers, NEW p \in Partitions, Produce(w, p)
  PROVE  /\ Len(Unsent[w][p]) > 1 /\ UNCHANGED <<ctxDone, offered, input, ev, by, refused>>
         /\ \/ Stores(w, p) /\ Drops(w, p) /\ UNCHANGED <<failed, unanswered>>
            \/ Keeps /\ UNCHANGED <<log, failed, unanswered>>
            \/ Drops(w, p) /\ failed' = failed \cup Range(Unsent[w][p][1])
               /\ UNCHANGED <<log, unanswered>>
            \/ Stores(w, p) /\ Keeps /\ unanswered' = unanswered \cup Range(Unsent[w][p][1])
               /\ failed' = failed
            \/ Stores(w, p) /\ Drops(w, p) /\ failed' = failed \cup Range(Unsent[w][p][1])
               /\ unanswered' = unanswered \cup Range(Unsent[w][p][1])
<1>1. queue[w][p] # << >> /\ queue[w][p] \in Seq(Batches)
  <2>1. queue[w][p] # << >>
    BY DEF Produce
  <2>2. queue \in [Workers -> [Partitions -> Seq(Batches)]]
    BY DEF TypeOK
  <2> QED BY <2>1, <2>2
<1>2. Head(queue[w][p]) = Unsent[w][p][1] /\ Len(Unsent[w][p]) > 1
  <2>1. Len(queue[w][p]) \in Nat \ {0} /\ Head(queue[w][p]) = queue[w][p][1]
    BY <1>1, EmptySeq
  <2> QED BY <2>1, UnsentFacts
<1> QED BY <1>1, <1>2 DEF Produce, Stores, Keeps, Drops, workerVars

LEMMA StoreFacts ==
  ASSUME TypeOK, NEW w \in Workers, NEW p \in Partitions, Len(Unsent[w][p]) > 1, Stores(w, p)
  PROVE  /\ Len(log'[p]) = Len(log[p]) + Len(Unsent[w][p][1])
         /\ \A n \in 1..Len(log[p]) : log'[p][n] = log[p][n]
         /\ \A i \in 1..Len(Unsent[w][p][1]) : log'[p][Len(log[p]) + i] = Unsent[w][p][1][i]
         /\ \A q \in Partitions : q # p => log'[q] = log[q]
<1> DEFINE b == Unsent[w][p][1]
           L == log[p]
<1>1. b \in Seq(Events) /\ L \in Seq(Events) /\ log \in [Partitions -> Seq(Events)]
  <2>1. 1 \in 1..Len(Unsent[w][p])
    BY UnsentFacts
  <2>2. b \in Seq(Events)
    BY <2>1, UnsentFacts
  <2> QED BY <2>2 DEF TypeOK
<1>2. log'[p] = L \o b /\ \A q \in Partitions : q # p => log'[q] = log[q]
  BY <1>1 DEF Stores
<1> HIDE DEF b, L
<1>3. /\ Len(L \o b) = Len(L) + Len(b) /\ Len(L) \in Nat /\ Len(b) \in Nat
      /\ \A n \in 1..Len(L) + Len(b) : (L \o b)[n] = IF n <= Len(L) THEN L[n] ELSE b[n - Len(L)]
  BY <1>1, ConcatProperties
<1>4. \A n \in 1..Len(L) : (L \o b)[n] = L[n]
  BY <1>3
<1>5. ASSUME NEW i \in 1..Len(b) PROVE (L \o b)[Len(L) + i] = b[i]
  <2>1. Len(L) + i \in 1..Len(L) + Len(b) /\ ~(Len(L) + i <= Len(L)) /\ (Len(L) + i) - Len(L) = i
    BY <1>3
  <2> QED BY <1>3, <2>1
<1> QED BY <1>2, <1>3, <1>4, <1>5 DEF b, L

LEMMA ProduceStep ==
  ASSUME TypeOK, TypeOK', WritersInv, LogInv, NEW w \in Workers, NEW p \in Partitions, Produce(w, p)
  PROVE  WritersInv' /\ LogInv'
<1> DEFINE U == Unsent[w][p]
           V == Unsent'[w][p]
           L == log[p]
           M == log'[p]
           A == unanswered
           D == unanswered'
<1>1. /\ Len(U) > 1 /\ by' = by /\ A \subseteq D /\ Numbers(U) /\ w \in Nat \ {0}
      /\ WriterOK(U, L, by, A, w, p) /\ LogOK(L, by, A, p)
  <2>1. Len(U) > 1 /\ by' = by /\ A \subseteq D
    BY ProduceCases
  <2>2. Numbers(U) /\ w \in Nat \ {0}
    BY UnsentNumbers, PoolFacts
  <2> QED BY <2>1, <2>2 DEF WritersInv, LogInv
<1>2. \/ Keeps /\ UNCHANGED <<log, unanswered>>
      \/ /\ M = L \/ Stores(w, p)
         /\ Drops(w, p) \/ (Keeps /\ Stores(w, p) /\ D = A \cup Range(U[1]))
         /\ \A q \in Partitions : q # p => log'[q] = log[q]
  BY ProduceCases, StoreFacts
<1>3. CASE Keeps /\ UNCHANGED <<log, unanswered>>
  BY <1>1, <1>3, QuietWriters DEF Keeps
<1>4. CASE /\ M = L \/ Stores(w, p)
           /\ Drops(w, p) \/ (Keeps /\ Stores(w, p) /\ D = A \cup Range(U[1]))
           /\ \A q \in Partitions : q # p => log'[q] = log[q]
  <2>1. Len(L) \in Nat /\ \A n \in 1..Len(L) : L[n] \in Nat
    BY LogFacts, PoolFacts
  <2>2. \A n \in 1..Len(M) : M[n] \in Nat
    <3>1. M \in Seq(Events)
      BY DEF TypeOK
    <3>2. \A n \in 1..Len(M) : M[n] \in Events
      BY <3>1, ElementOfSeq
    <3> QED BY <3>2, PoolFacts
  <2>3. /\ LogOK(M, by, D, p) /\ Behind(U, M, by, w)
        /\ Stores(w, p) => \A j \in 1..Len(U[1]) : \E m \in 1..Len(M) : M[m] = U[1][j]
    <3>1. CASE Stores(w, p)
      <4>1. /\ Len(M) = Len(L) + Len(U[1]) /\ \A n \in 1..Len(L) : M[n] = L[n]
            /\ \A i \in 1..Len(U[1]) : M[Len(L) + i] = U[1][i]
        BY <1>1, <3>1, StoreFacts
      <4> HIDE DEF U, V, L, M, A, D
      <4> QED BY <1>1, <2>1, <4>1, StoredOK
    <3>2. CASE M = L /\ ~Stores(w, p)
      <4> HIDE DEF U, V, L, M, A, D
      <4>1. LogOwned(L, by, p) /\ LogOnce(L, A) /\ LogOrdered(L, by) /\ Behind(U, L, by, w)
        BY <1>1 DEF LogOK, WriterOK
      <4>2. LogOnce(L, D)
        BY <1>1, <4>1 DEF LogOnce
      <4> QED BY <3>2, <4>1, <4>2 DEF LogOK
    <3> QED BY <1>4, <3>1, <3>2
  <2>4. WriterOK(V, M, by, D, w, p)
    <3>1. CASE Drops(w, p)
      <4>1. Len(V) = Len(U) - 1 /\ \A k \in 1..Len(V) : V[k] = U[k + 1]
        BY <3>1, PopUnsent DEF Drops
      <4> HIDE DEF U, V, L, M, A, D
      <4> QED BY <1>1, <2>2, <2>3, <4>1, PoppedOK DEF WriterOK
    <3>2. CASE Keeps /\ Stores(w, p) /\ D = A \cup Range(U[1])
      <4>1. V = U
        BY <3>2 DEF Keeps, Unsent
      <4>2. U[1] \in Seq(Events) /\ 1 \in 1..Len(U)
        <5>1. Len(queue[w][p]) \in Nat /\ Len(U) = Len(queue[w][p]) + 1
          BY UnsentFacts
        <5>2. 1 \in 1..Len(U)
          BY <5>1
        <5>3. \A k \in 1..Len(U) : U[k] \in Seq(Events)
          BY UnsentFacts
        <5> QED BY <5>2, <5>3
      <4> HIDE DEF U, V, L, M, A, D
      <4>3. \A i \in 1..Len(U[1]) : U[1][i] \in D
        <5>1. DOMAIN U[1] = 1..Len(U[1])
          BY <4>2
        <5> QED BY <3>2, <5>1 DEF Range
      <4>4. Whole(U, M, D)
        BY <2>3, <3>2, <4>3 DEF Whole
      <4> QED BY <1>1, <2>3, <4>1, <4>4 DEF WriterOK
    <3> QED BY <1>4, <3>1, <3>2
  <2>5. ASSUME NEW v \in Workers, NEW q \in Partitions, v # w \/ q # p
        PROVE  WriterOK(Unsent'[v][q], log'[q], by, D, v, q)
    <3>1. Unsent'[v][q] = Unsent[v][q]
      <4>1. CASE Drops(w, p)
        BY <2>5, <4>1, PopUnsent DEF Drops
      <4>2. CASE Keeps
        BY <4>2 DEF Keeps, Unsent
      <4> QED BY <1>4, <4>1, <4>2
    <3> DEFINE X == Unsent[v][q]
               K == log[q]
               N == log'[q]
    <3>2. Numbers(X) /\ WriterOK(X, K, by, A, v, q)
      BY UnsentNumbers DEF WritersInv
    <3>3. /\ \A n \in 1..Len(K) : n \in 1..Len(N) /\ N[n] = K[n]
          /\ \A n \in 1..Len(N) : (n \in 1..Len(K) /\ N[n] = K[n]) \/ by[N[n]] # v
      <4>1. CASE N = K
        BY <4>1
      <4>2. CASE q = p /\ v # w /\ Stores(w, p)
        <5>1. /\ Len(M) = Len(L) + Len(U[1]) /\ \A n \in 1..Len(L) : M[n] = L[n]
              /\ \A i \in 1..Len(U[1]) : M[Len(L) + i] = U[1][i]
          BY <1>1, <4>2, StoreFacts
        <5>2. Len(U[1]) \in Nat /\ \A i \in 1..Len(U[1]) : by[U[1][i]] = w
          <6> HIDE DEF U, L, A
          <6>1. 1 \in 1..Len(U)
            BY <1>1 DEF Numbers
          <6> QED BY <1>1, <6>1 DEF WriterOK, Owned, Numbers
        <5>3. N = M /\ K = L
          BY <4>2
        <5> HIDE DEF U, L, M, N, K
        <5>4. \A n \in 1..Len(L) : n \in 1..Len(M) /\ M[n] = L[n]
          BY <2>1, <5>1, <5>2
        <5>5. ASSUME NEW n \in 1..Len(M), n \notin 1..Len(L) PROVE by[M[n]] # v
          <6>1. n - Len(L) \in 1..Len(U[1]) /\ n = Len(L) + (n - Len(L))
            BY <2>1, <5>1, <5>2, <5>5
          <6>2. M[Len(L) + (n - Len(L))] = U[1][n - Len(L)]
            BY <5>1, <6>1
          <6>3. by[M[n]] = w
            BY <5>2, <6>1, <6>2
          <6> QED BY <4>2, <6>3
        <5> QED BY <5>3, <5>4, <5>5
      <4> QED BY <1>4, <2>5, <4>1, <4>2
    <3> HIDE DEF X, K, N, A, D
    <3>4. WriterOK(X, N, by, D, v, q)
      BY <1>1, <3>2, <3>3, BystanderOK
    <3> QED BY <3>1, <3>4 DEF X, N
  <2>6. WritersInv'
    <3>1. ASSUME NEW v \in Workers, NEW q \in Partitions
          PROVE  WriterOK(Unsent'[v][q], log'[q], by', unanswered', v, q)
      BY <1>1, <2>4, <2>5
    <3> QED BY <3>1 DEF WritersInv
  <2>7. LogInv'
    <3>1. ASSUME NEW q \in Partitions PROVE LogOK(log'[q], by', unanswered', q)
      <4>1. CASE q = p
        BY <1>1, <2>3, <4>1
      <4>2. CASE q # p
        <5>1. LogOK(log[q], by, A, q) /\ log'[q] = log[q]
          BY <1>4, <4>2 DEF LogInv
        <5>2. LogOnce(log[q], D)
          BY <1>1, <5>1 DEF LogOK, LogOnce
        <5> QED BY <1>1, <5>1, <5>2 DEF LogOK
      <4> QED BY <4>1, <4>2
    <3> QED BY <3>1 DEF LogInv
  <2> QED BY <2>6, <2>7
<1> QED BY <1>2, <1>3, <1>4

-----------------------------------------------------------------------------
(* No event gets lost.                                                     *)

LEMMA SlotsKept ==
  ASSUME NEW U, NEW V, NEW e, SameSlots(U, V), \E k \in 1..Len(U) : Has(U[k], e)
  PROVE  \E k \in 1..Len(V) : Has(V[k], e)
<1>0. PICK k \in 1..Len(U) : Has(U[k], e)
  OBVIOUS
<1>1. PICK i \in 1..Len(U[k]) : U[k][i] = e
  BY <1>0 DEF Has
<1>2. k \in 1..Len(V) /\ i \in 1..Len(V[k]) /\ V[k][i] = e
  BY <1>1 DEF SameSlots
<1> QED BY <1>2 DEF Has

LEMMA PlacedInWriter ==
  ASSUME TypeOK, AllPlaced, UNCHANGED <<offered, input, ev, refused, failed, log>>,
         \A v \in Workers, q \in Partitions : SameSlots(Unsent[v][q], Unsent'[v][q])
  PROVE  AllPlaced'
<1> SUFFICES ASSUME NEW e \in Events, e <= offered PROVE Placed(e)'
  BY DEF AllPlaced
<1>1. Placed(e)
  BY DEF AllPlaced
<1>2. ASSUME NEW w \in Workers, NEW p \in Partitions, \E k \in 1..Len(Unsent[w][p]) : Has(Unsent[w][p][k], e)
      PROVE  \E k \in 1..Len(Unsent'[w][p]) : Has(Unsent'[w][p][k], e)
  BY <1>2, SlotsKept
<1> QED BY <1>1, <1>2 DEF Placed

LEMMA PlacedWhenWritten ==
  ASSUME TypeOK, StopInv, AllPlaced, NEW w \in Workers, Write(w)
  PROVE  AllPlaced'
<1> DEFINE h == ev[w]
           q == PartitionOf(h)
<1>1. /\ pc[w] = "write" /\ ev' = [ev EXCEPT ![w] = 0] /\ UNCHANGED <<offered, input, failed, log>>
      /\ \/ refused' = refused \cup {h} /\ UNCHANGED <<batch, queue>>
         \/ Enqueue(w, q, h) /\ refused' = refused
  BY DEF Write, WriterOf
<1>2. h \in Events /\ ev \in [Workers -> Events \cup {0}]
  BY <1>1 DEF TypeOK, StopInv
<1>3. q \in Partitions
  BY <1>2, PoolFacts
<1>4. \A v \in Workers, p \in Partitions : SameSlots(Unsent[v][p], Unsent'[v][p])
  <2>1. \A v \in Workers, p \in Partitions : SameSlots(Unsent[v][p], Unsent[v][p])
    <3> TAKE v \in Workers, p \in Partitions
    <3>1. Len(Unsent[v][p]) \in Nat
      BY UnsentFacts
    <3> QED BY <3>1 DEF SameSlots
  <2>2. CASE UNCHANGED <<batch, queue>>
    <3>1. Unsent' = Unsent
      BY <2>2 DEF Unsent
    <3> QED BY <2>1, <3>1
  <2>3. CASE Enqueue(w, q, h)
    <3>1. /\ \A v \in Workers, p \in Partitions : v # w \/ p # q => Unsent'[v][p] = Unsent[v][p]
          /\ SameSlots(Unsent[w][q], Unsent'[w][q])
      BY <1>2, <1>3, <2>3, EnqueueUnsent
    <3> TAKE v \in Workers, p \in Partitions
    <3>2. CASE v = w /\ p = q
      BY <3>1, <3>2
    <3>3. CASE v # w \/ p # q
      BY <2>1, <3>1, <3>3
    <3> QED BY <3>2, <3>3
  <2> QED BY <1>1, <2>2, <2>3
<1> SUFFICES ASSUME NEW e \in Events, e <= offered PROVE Placed(e)'
  BY <1>1 DEF AllPlaced
<1>5. Placed(e)
  BY DEF AllPlaced
<1>6. ASSUME NEW v \in Workers, NEW p \in Partitions, \E k \in 1..Len(Unsent[v][p]) : Has(Unsent[v][p][k], e)
      PROVE  Placed(e)'
  <2>1. \E k \in 1..Len(Unsent'[v][p]) : Has(Unsent'[v][p][k], e)
    BY <1>4, <1>6, SlotsKept
  <2> QED BY <2>1 DEF Placed
<1>7. ASSUME NEW v \in Workers, ev[v] = e PROVE Placed(e)'
  <2>1. CASE v # w
    <3>1. ev'[v] = e
      BY <1>1, <1>2, <1>7, <2>1
    <3> QED BY <3>1 DEF Placed
  <2>2. CASE e = h /\ refused' = refused \cup {h}
    <3>1. e \in refused'
      BY <2>2
    <3> QED BY <3>1 DEF Placed
  <2>3. CASE e = h /\ Enqueue(w, q, h)
    <3>1. PICK m \in Nat, n \in Nat : NewSlot(Unsent[w][q], Unsent'[w][q], m, n, h)
      BY <1>2, <1>3, <2>3, EnqueueUnsent
    <3>2. m \in 1..Len(Unsent'[w][q]) /\ n \in 1..Len(Unsent'[w][q][m]) /\ Unsent'[w][q][m][n] = e
      BY <2>3, <3>1 DEF NewSlot
    <3>3. Has(Unsent'[w][q][m], e)
      BY <3>2 DEF Has
    <3> HIDE DEF q
    <3> QED BY <1>3, <3>2, <3>3 DEF Placed
  <2> QED BY <1>1, <1>7, <2>1, <2>2, <2>3
<1> QED BY <1>1, <1>5, <1>6, <1>7 DEF Placed

LEMMA PlacedWhenProduced ==
  ASSUME TypeOK, AllPlaced, NEW w \in Workers, NEW p \in Partitions, Produce(w, p)
  PROVE  AllPlaced'
<1> DEFINE b == Unsent[w][p][1]
<1>1. /\ Len(Unsent[w][p]) > 1 /\ UNCHANGED <<offered, input, ev, refused>>
      /\ failed \subseteq failed' /\ (log' = log \/ Stores(w, p))
      /\ Keeps \/ (Drops(w, p) /\ (Stores(w, p) \/ failed' = failed \cup Range(b)))
  BY ProduceCases
<1>2. \A q \in Partitions, e \in Events : Has(log[q], e) => Has(log'[q], e)
  <2>1. CASE log' = log
    BY <2>1
  <2>2. CASE Stores(w, p)
    <3>1. /\ Len(log'[p]) = Len(log[p]) + Len(b) /\ Len(log[p]) \in Nat /\ Len(b) \in Nat
          /\ \A n \in 1..Len(log[p]) : log'[p][n] = log[p][n]
          /\ \A q \in Partitions : q # p => log'[q] = log[q]
      <4>1. 1 \in 1..Len(Unsent[w][p])
        BY <1>1, UnsentFacts
      <4>2. Len(b) \in Nat /\ Len(log[p]) \in Nat
        BY <4>1, UnsentFacts, LogFacts
      <4> QED BY <1>1, <2>2, <4>2, StoreFacts
    <3> TAKE q \in Partitions, e \in Events
    <3>2. CASE q # p
      BY <3>1, <3>2
    <3>3. CASE q = p
      <4>1. ASSUME NEW n \in 1..Len(log[p]) PROVE n \in 1..Len(log'[p])
        <5>1. ASSUME NEW x \in Nat, NEW y \in Nat, n \in 1..x PROVE n \in 1..x + y
          BY <5>1
        <5> HIDE DEF b
        <5> QED BY <3>1, <5>1
      <4> QED BY <3>1, <3>3, <4>1 DEF Has
    <3> QED BY <3>2, <3>3
  <2> QED BY <1>1, <2>1, <2>2
<1> SUFFICES ASSUME NEW e \in Events, e <= offered PROVE Placed(e)'
  BY <1>1 DEF AllPlaced
<1>3. Placed(e)
  BY DEF AllPlaced
<1>4. ASSUME NEW v \in Workers, NEW q \in Partitions, NEW k \in 1..Len(Unsent[v][q]), Has(Unsent[v][q][k], e)
      PROVE  Placed(e)'
  <2>1. CASE Unsent'[v][q] = Unsent[v][q]
    BY <1>4, <2>1 DEF Placed
  <2>2. CASE v = w /\ q = p /\ Drops(w, p) /\ (Stores(w, p) \/ failed' = failed \cup Range(b))
    <3>1. /\ Len(Unsent'[w][p]) = Len(Unsent[w][p]) - 1 /\ Len(Unsent[w][p]) \in Nat
          /\ \A l \in 1..Len(Unsent'[w][p]) : Unsent'[w][p][l] = Unsent[w][p][l + 1]
      <4>1. Len(Unsent[w][p]) \in Nat
        BY UnsentFacts
      <4> QED BY <2>2, <4>1, PopUnsent DEF Drops
    <3>2. CASE k # 1
      <4>1. k - 1 \in 1..Len(Unsent'[w][p]) /\ (k - 1) + 1 = k
        BY <2>2, <3>1, <3>2
      <4>2. Unsent'[w][p][k - 1] = Unsent[w][p][k]
        BY <3>1, <4>1
      <4> QED BY <1>4, <2>2, <4>1, <4>2 DEF Placed
    <3>3. CASE k = 1
      <4>1. PICK i \in 1..Len(b) : b[i] = e
        BY <1>4, <2>2, <3>3 DEF Has
      <4>2. b \in Seq(Events)
        BY <2>2, <3>3, UnsentFacts
      <4>3. CASE failed' = failed \cup Range(b)
        <5>1. DOMAIN b = 1..Len(b)
          BY <4>2, LenProperties
        <5>2. e \in Range(b)
          BY <4>1, <5>1 DEF Range
        <5> QED BY <4>3, <5>2 DEF Placed
      <4>4. CASE Stores(w, p)
        <5>1. /\ Len(log'[p]) = Len(log[p]) + Len(b) /\ log'[p][Len(log[p]) + i] = b[i]
          BY <1>1, <4>4, StoreFacts
        <5>2. Len(log[p]) \in Nat /\ Len(b) \in Nat
          BY <4>2, LogFacts
        <5>3. Len(log[p]) + i \in 1..Len(log'[p])
          <6>1. ASSUME NEW x \in Nat, NEW y \in Nat, i \in 1..y PROVE x + i \in 1..x + y
            BY <6>1
          <6> HIDE DEF b
          <6> QED BY <5>1, <5>2, <6>1
        <5>4. Has(log'[p], e)
          BY <4>1, <5>1, <5>3 DEF Has
        <5> QED BY <5>4 DEF Placed
      <4> QED BY <2>2, <4>3, <4>4
    <3> QED BY <3>2, <3>3
  <2>3. CASE Keeps
    <3>1. Unsent' = Unsent
      BY <2>3 DEF Keeps, Unsent
    <3> QED BY <2>1, <3>1
  <2>4. CASE Drops(w, p) /\ (v # w \/ q # p)
    BY <2>1, <2>4, PopUnsent DEF Drops
  <2> QED BY <1>1, <2>2, <2>3, <2>4
<1> QED BY <1>1, <1>2, <1>3, <1>4 DEF Placed

(* Emission and reception.                                                 *)
LEMMA PlacedInChannel ==
  ASSUME TypeOK, StopInv, AllPlaced, Emit \/ \E w \in Workers : Receive(w)
  PROVE  AllPlaced'
<1> USE DEF workerVars, writerVars
<1>0. input \in Seq(Events) /\ Len(input) \in Nat /\ offered \in Nat /\ ev \in [Workers -> Events \cup {0}]
  BY PoolFacts DEF TypeOK
<1>1. CASE Emit
  <2>1. /\ offered' = offered + 1 /\ input' = Append(input, offered + 1) /\ offered + 1 \in Events
        /\ UNCHANGED <<ev, refused, failed, log, batch, queue>>
    BY <1>0, <1>1, PoolFacts DEF Emit
  <2>2. /\ Len(input') = Len(input) + 1 /\ input'[Len(input) + 1] = offered + 1
        /\ \A i \in 1..Len(input) : input'[i] = input[i]
    BY <1>0, <2>1, AppendProperties
  <2>3. Unsent' = Unsent
    BY <2>1 DEF Unsent
  <2> SUFFICES ASSUME NEW e \in Events, e <= offered' PROVE Placed(e)'
    BY DEF AllPlaced
  <2>4. CASE e = offered + 1
    <3>1. Len(input) + 1 \in 1..Len(input')
      BY <1>0, <2>2
    <3>2. Has(input', e)
      BY <2>2, <2>4, <3>1 DEF Has
    <3> QED BY <3>2 DEF Placed
  <2>5. CASE e # offered + 1
    <3>1. Placed(e)
      <4>1. e <= offered
        BY <1>0, <2>1, <2>5, PoolFacts
      <4> QED BY <4>1 DEF AllPlaced
    <3>2. Has(input, e) => Has(input', e)
      BY <1>0, <2>2 DEF Has
    <3> QED BY <2>1, <2>3, <3>1, <3>2 DEF Placed
  <2> QED BY <2>4, <2>5
<1>2. ASSUME NEW w \in Workers, Receive(w) PROVE AllPlaced'
  <2>1. /\ pc[w] = "recv" /\ input # << >> /\ input' = Tail(input) /\ ev' = [ev EXCEPT ![w] = Head(input)]
        /\ UNCHANGED <<offered, refused, failed, log, batch, queue>>
    BY <1>2 DEF Receive
  <2>2. /\ Head(input) = input[1] /\ Len(input') = Len(input) - 1
        /\ \A i \in 1..Len(input') : input'[i] = input[i + 1]
    BY <1>0, <2>1, HeadTailProperties
  <2>3. Unsent' = Unsent
    BY <2>1 DEF Unsent
  <2>4. ev[w] = 0 /\ \A v \in Workers : v # w => ev'[v] = ev[v]
    BY <1>0, <2>1 DEF StopInv
  <2> SUFFICES ASSUME NEW e \in Events, e <= offered PROVE Placed(e)'
    BY <2>1 DEF AllPlaced
  <2>5. Placed(e) /\ e # 0
    BY PoolFacts DEF AllPlaced
  <2>6. ASSUME NEW i \in 1..Len(input), input[i] = e PROVE Placed(e)'
    <3>1. CASE i = 1
      <4>1. ev'[w] = e
        BY <1>0, <2>1, <2>2, <2>6, <3>1
      <4> QED BY <4>1 DEF Placed
    <3>2. CASE i # 1
      <4>1. i - 1 \in 1..Len(input') /\ (i - 1) + 1 = i
        BY <1>0, <2>2, <3>2
      <4>2. input'[i - 1] = e
        BY <2>2, <2>6, <4>1
      <4>3. Has(input', e)
        BY <4>1, <4>2 DEF Has
      <4> QED BY <4>3 DEF Placed
    <3> QED BY <3>1, <3>2
  <2>7. Has(input, e) => Placed(e)'
    BY <2>6 DEF Has
  <2>8. (\E v \in Workers : ev[v] = e) => Placed(e)'
    BY <2>4, <2>5 DEF Placed
  <2> QED BY <2>1, <2>3, <2>5, <2>7, <2>8 DEF Placed
<1> QED BY <1>1, <1>2

(* The steps that move no event.                                           *)
LEMMA QuietPlaced ==
  ASSUME AllPlaced, UNCHANGED <<offered, input, ev, refused, failed, log, batch, queue>>
  PROVE  AllPlaced'
<1>1. Unsent' = Unsent
  BY DEF Unsent
<1> QED BY <1>1 DEF AllPlaced, Placed

-----------------------------------------------------------------------------
LEMMA ProducerStep ==
  ASSUME ProducerInv, [Next]_kvars
  PROVE  ProducerInv'
<1> USE DEF workerVars, writerVars
<1>1. TypeOK /\ StopInv /\ InputInv /\ WritersInv /\ LogInv /\ AllPlaced
  BY DEF ProducerInv
<1>2. TypeOK' /\ StopInv' /\ InputInv'
  BY <1>1, ProducerTypes, StopStep, InputStep
<1>3. CASE Emit \/ \E w \in Workers : Receive(w)
  <2>1. UNCHANGED <<batch, queue, log, by, unanswered>>
    BY <1>3 DEF Emit, Receive
  <2>2. AllPlaced'
    BY <1>1, <1>3, PlacedInChannel
  <2> QED BY <1>1, <1>2, <2>1, <2>2, QuietWriters DEF ProducerInv
<1>4. CASE UNCHANGED <<offered, input, ev, by, refused, writerVars>>
  <2>1. AllPlaced'
    BY <1>1, <1>4, QuietPlaced
  <2>2. WritersInv' /\ LogInv'
    BY <1>1, <1>4, QuietWriters
  <2> QED BY <1>2, <2>1, <2>2 DEF ProducerInv
<1>5. ASSUME NEW w \in Workers, Write(w) PROVE ProducerInv'
  BY <1>1, <1>2, <1>5, WriteStep, PlacedWhenWritten DEF ProducerInv
<1>6. ASSUME NEW w \in Workers, NEW p \in Partitions, Produce(w, p) PROVE ProducerInv'
  BY <1>1, <1>2, <1>6, ProduceStep, PlacedWhenProduced DEF ProducerInv
<1>7. ASSUME NEW w \in Workers, NEW Q, Flushes(w, Q),
             UNCHANGED <<offered, input, ev, by, refused, failed, log, unanswered>>
      PROVE  ProducerInv'
  <2>1. WritersInv' /\ LogInv'
    BY <1>1, <1>7, FlushStep
  <2>2. AllPlaced'
    BY <1>1, <1>7, FlushUnsent, PlacedInWriter
  <2> QED BY <1>2, <2>1, <2>2 DEF ProducerInv
<1>8. ASSUME NEW w \in Workers, NEW p \in Partitions, BatchTimeout(w, p) PROVE ProducerInv'
  <2>1. Flushes(w, {p})
    BY <1>1, <1>8, TimeoutFlushes
  <2>2. UNCHANGED <<offered, input, ev, by, refused, failed, log, unanswered>>
    BY <1>8 DEF BatchTimeout
  <2> QED BY <1>7, <2>1, <2>2
<1>9. CASE CloseWriter
  <2>1. closing \in Workers /\ UNCHANGED <<offered, input, ev, by, refused, failed, log, unanswered>>
    BY <1>1, <1>9 DEF CloseWriter, StopInv
  <2>2. Flushes(closing, {p \in Partitions : batch[closing][p] # << >>})
    BY <1>1, <1>9, <2>1, CloseFlushes
  <2> QED BY <1>7, <2>1, <2>2
<1>10. CASE Signal \/ Start \/ CloseInput \/ WriterClosed \/ (\E w \in Workers : Leave(w)) \/ UNCHANGED kvars
  <2>1. UNCHANGED <<offered, input, ev, by, refused, writerVars>>
    BY <1>10 DEF Signal, Start, CloseInput, WriterClosed, Leave, kvars
  <2> QED BY <1>4, <2>1
<1> QED BY <1>3, <1>5, <1>6, <1>8, <1>9, <1>10 DEF Next, Stop, Worker

(* ProducerInv is inductive.                                               *)
THEOREM ProducerSafety == Spec => []ProducerInv
<1>1. Init => ProducerInv
  BY ProducerInit
<1>2. ProducerInv /\ [Next]_kvars => ProducerInv'
  BY ProducerStep
<1> QED BY <1>1, <1>2, PTL DEF Spec

(* Types; the channel and every batch stay within their size.              *)
THEOREM ProducerTypeCorrect == Spec => []TypeOK
BY ProducerSafety, PTL DEF ProducerInv

(* What LogInv says of one partition.                                      *)
LEMMA InPartition ==
  ASSUME ProducerInv, NEW e \in Events
  PROVE  PartitionOf(e) \in Partitions /\ LogOK(log[PartitionOf(e)], by, unanswered, PartitionOf(e))
BY PoolFacts DEF ProducerInv, LogInv

(* Events of a flow that one worker took lie in their partition in the     *)
(* order of emission (kafka.go:156-157), whatever is retried or lost.      *)
THEOREM FlowsInOrder == Spec => []OrderedPerWorker
<1>1. ProducerInv => OrderedPerWorker
  <2> SUFFICES ASSUME ProducerInv, NEW d \in Events, NEW e \in Events, d < e, FlowKey(d) = FlowKey(e),
                      by[d] = by[e], Positions(d) # {}, NEW j \in Positions(e)
               PROVE  \E i \in Positions(d) : i < j
    BY DEF OrderedPerWorker
  <2> DEFINE L == log[PartitionOf(e)]
  <2>1. PartitionOf(d) = PartitionOf(e)
    BY DEF PartitionOf
  <2>2. PICK m \in Positions(d) : TRUE
    OBVIOUS
  <2>3. m \in 1..Len(L) /\ L[m] = d /\ j \in 1..Len(L) /\ L[j] = e
    BY <2>1, <2>2 DEF Positions
  <2>4. LogOrdered(L, by)
    BY InPartition DEF LogOK
  <2> HIDE DEF L
  <2>5. PICK i \in 1..Len(L) : i < j /\ L[i] = L[m]
    BY <2>3, <2>4 DEF LogOrdered
  <2>6. i \in Positions(d)
    BY <2>1, <2>3, <2>5 DEF Positions, L
  <2> QED BY <2>5, <2>6
<1> QED BY <1>1, ProducerSafety, PTL

(* An event is in the topic twice only if an answer was lost.              *)
THEOREM CopiesExplained == Spec => []TwiceOnlyUnanswered
<1>1. ProducerInv => TwiceOnlyUnanswered
  <2> SUFFICES ASSUME ProducerInv, NEW e \in Events, NEW i \in Positions(e), NEW j \in Positions(e), i # j
               PROVE  e \in unanswered
    BY DEF TwiceOnlyUnanswered
  <2> DEFINE L == log[PartitionOf(e)]
  <2>1. i \in 1..Len(L) /\ L[i] = e /\ j \in 1..Len(L) /\ L[j] = e
    BY DEF Positions
  <2>2. LogOnce(L, unanswered)
    BY InPartition DEF LogOK
  <2> HIDE DEF L
  <2> QED BY <2>1, <2>2 DEF LogOnce
<1> QED BY <1>1, ProducerSafety, PTL

(* When Stop returns no event is left in a worker or in a batch, and only  *)
(* a signal leaves events in the channel.                                  *)
THEOREM StopLeavesNothing == Spec => []StopDrains
<1>1. ProducerInv => StopDrains
  <2> SUFFICES ASSUME ProducerInv, stop = "done"
               PROVE  /\ \A e \in 1..offered :
                           e \in Range(input) \cup refused \cup failed \/ Positions(e) # {}
                      /\ input # << >> => ctxDone
    BY DEF StopDrains
  <2>1. TypeOK /\ StopInv /\ AllPlaced /\ LogInv
    BY DEF ProducerInv
  <2>2. Joined /\ closing = PoolSize + 1
    BY <2>1 DEF StopInv
  <2>3. input # << >> => ctxDone
    <3>1. 1 \in Workers
      BY PoolFacts
    <3>2. MayLeave
      BY <2>1, <2>2, <3>1 DEF StopInv, Joined
    <3> QED BY <3>2 DEF MayLeave
  <2>4. \A w \in Workers : ev[w] = 0
    BY <2>1, <2>2 DEF StopInv, Joined
  <2>5. \A w \in Workers, p \in Partitions : \A k \in 1..Len(Unsent[w][p]) : Len(Unsent[w][p][k]) = 0
    <3> TAKE w \in Workers, p \in Partitions
    <3>1. w < closing
      BY <2>2, PoolFacts
    <3>2. batch[w][p] = << >> /\ queue[w][p] = << >>
      BY <2>1, <3>1 DEF StopInv
    <3>3. Unsent[w][p] = Append(<< >>, << >>)
      BY <3>2 DEF Unsent
    <3> QED BY <3>3
  <2>6. ASSUME NEW e \in 1..offered
        PROVE  e \in Range(input) \cup refused \cup failed \/ Positions(e) # {}
    <3>1. e \in Events /\ e <= offered /\ e # 0
      BY <2>1, PoolFacts DEF TypeOK
    <3>2. Placed(e)
      BY <2>1, <3>1 DEF AllPlaced
    <3>3. ASSUME Has(input, e) PROVE e \in Range(input)
      <4>1. DOMAIN input = 1..Len(input)
        BY <2>1 DEF TypeOK
      <4> QED BY <3>3, <4>1 DEF Has, Range
    <3>4. ASSUME NEW p \in Partitions, Has(log[p], e) PROVE Positions(e) # {}
      <4>1. PICK n \in 1..Len(log[p]) : log[p][n] = e
        BY <3>4 DEF Has
      <4>2. PartitionOf(e) = p
        BY <2>1, <4>1 DEF LogInv, LogOK, LogOwned
      <4>3. n \in Positions(e)
        BY <4>1, <4>2 DEF Positions
      <4> QED BY <4>3
    <3>5. ~ \E w \in Workers, p \in Partitions : \E k \in 1..Len(Unsent[w][p]) : Has(Unsent[w][p][k], e)
      BY <2>5 DEF Has
    <3> QED BY <2>4, <3>1, <3>2, <3>3, <3>4, <3>5 DEF Placed
  <2> QED BY <2>3, <2>6
<1> QED BY <1>1, ProducerSafety, PTL
=============================================================================
