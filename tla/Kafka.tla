-------------------------------- MODULE Kafka --------------------------------
(***************************************************************************)
(* The Kafka producer (internal/output/kafka.go): NumWorkers goroutines    *)
(* take events from one input channel and write each through a writer of   *)
(* their own; Stop closes the channel, waits for the workers and closes    *)
(* the writers.                                                            *)
(*                                                                         *)
(* kafka-go's Writer is external.  As the producer uses it (Async, no      *)
(* Completion callback, MaxAttempts) it gathers messages in a batch per    *)
(* partition, sends the batches of a partition one after the other, tries  *)
(* a batch MaxAttempts times and then forgets it; an attempt whose answer  *)
(* is lost has reached the log all the same.  Close sends what is left.    *)
(*                                                                         *)
(* An event is its position in Traffic, the order in which the dispatcher  *)
(* emits.                                                                  *)
(***************************************************************************)
EXTENDS Integers, Sequences, SequencesExt

CONSTANTS
  NumWorkers, BatchSize,  \* of the configuration, before NewProducer's defaults
  InputSize,    \* capacity of the input channel
  MaxAttempts,  \* 3 in the code
  Traffic,      \* the events: a sequence of records [src, dst], the endpoints
  Partitions,   \* of the topic
  Balance,      \* FNV-64a of the key and ReferenceHash: Balance[key] is a partition
  MaxFaults     \* bound: failed or unanswered produce requests in a behaviour

Events == 1..Len(Traffic)

Endpoints == {Traffic[e].src : e \in Events} \cup {Traffic[e].dst : e \in Events}

ASSUME KafkaAssumption ==
  /\ NumWorkers \in Int /\ BatchSize \in Int
  /\ InputSize \in Nat \ {0} /\ MaxAttempts \in Nat \ {0} /\ MaxFaults \in Nat
  /\ Len(Traffic) \in Nat
  /\ Balance \in [Endpoints \X Endpoints -> Partitions]

(* NewProducer's defaults.                                                 *)
PoolSize == IF NumWorkers <= 0 THEN 1 ELSE NumWorkers
Batch    == IF BatchSize <= 0 THEN 100 ELSE BatchSize

Workers == 1..PoolSize

(* The key is computed from the oriented 4-tuple of the event.             *)
FlowKey(e) == <<Traffic[e].src, Traffic[e].dst>>

PartitionOf(e) == Balance[FlowKey(e)]

VARIABLES
  ctxDone,  \* the signal context is cancelled
  offered,  \* events the dispatcher has sent
  input,    \* the channel
  stop,     \* "no", "wait" (channel closed, wg.Wait), "writers", "done"
  closing,  \* the writer Stop is closing
  pc, ev,   \* each worker: "idle", "recv", "write", "exit", and the event it holds
  batch,    \* batch[w][p]: the open batch of writer w for partition p
  queue,    \* queue[w][p]: the batches waiting to be sent
  tries,    \* tries[w][p]: failed attempts at the first of them
  faults,   \* failed attempts so far
  log,      \* log[p]: the partition
  by, refused, failed, unanswered  \* history: who wrote an event; what became of it

workerVars == <<pc, ev, by, refused>>
writerVars == <<batch, queue, tries, faults, log, failed, unanswered>>
kvars == <<ctxDone, offered, input, stop, closing, workerVars, writerVars>>

Batches == Seq(Events)

(* Types; and the channel and every batch stay within their size.          *)
TypeOK ==
  /\ ctxDone \in BOOLEAN /\ offered \in 0..Len(Traffic)
  /\ input \in Seq(Events) /\ Len(input) <= InputSize
  /\ stop \in {"no", "wait", "writers", "done"}
  /\ closing \in 1..PoolSize + 1
  /\ pc \in [Workers -> {"idle", "recv", "write", "exit"}]
  /\ ev \in [Workers -> Events \cup {0}]
  /\ batch \in [Workers -> [Partitions -> Batches]]
  /\ queue \in [Workers -> [Partitions -> Seq(Batches)]]
  /\ \A w \in Workers, p \in Partitions :
       /\ Len(batch[w][p]) < Batch
       /\ \A i \in 1..Len(queue[w][p]) : Len(queue[w][p][i]) \in 1..Batch
  /\ tries \in [Workers -> [Partitions -> 0..MaxAttempts - 1]] /\ faults \in 0..MaxFaults
  /\ log \in [Partitions -> Seq(Events)]
  /\ by \in [Events -> Workers \cup {0}]
  /\ refused \subseteq Events /\ failed \subseteq Events /\ unanswered \subseteq Events

Init ==
  /\ ctxDone = FALSE /\ offered = 0 /\ input = <<>>
  /\ stop = "no" /\ closing = 1
  /\ pc = [w \in Workers |-> "idle"] /\ ev = [w \in Workers |-> 0]
  /\ batch = [w \in Workers |-> [p \in Partitions |-> <<>>]]
  /\ queue = [w \in Workers |-> [p \in Partitions |-> <<>>]]
  /\ tries = [w \in Workers |-> [p \in Partitions |-> 0]]
  /\ faults = 0 /\ log = [p \in Partitions |-> <<>>]
  /\ by = [e \in Events |-> 0]
  /\ refused = {} /\ failed = {} /\ unanswered = {}

-----------------------------------------------------------------------------
(* The dispatcher sends the next event; it does so only between Start and  *)
(* Stop (see Pipeline).                                                    *)
Emit ==
  /\ stop = "no" /\ offered < Len(Traffic) /\ Len(input) < InputSize
  /\ offered' = offered + 1 /\ input' = Append(input, offered + 1)
  /\ UNCHANGED <<ctxDone, stop, closing, workerVars, writerVars>>

Signal ==
  /\ ~ctxDone /\ ctxDone' = TRUE
  /\ UNCHANGED <<offered, input, stop, closing, workerVars, writerVars>>

(* Start launches one goroutine per writer.                                *)
Start ==
  /\ stop = "no" /\ \A w \in Workers : pc[w] = "idle"
  /\ pc' = [w \in Workers |-> "recv"]
  /\ UNCHANGED <<ctxDone, offered, input, stop, closing, ev, by, refused, writerVars>>

-----------------------------------------------------------------------------
(* worker.                                                                 *)

Receive(w) ==
  /\ pc[w] = "recv" /\ input # <<>>
  /\ ev' = [ev EXCEPT ![w] = Head(input)] /\ input' = Tail(input)
  /\ pc' = [pc EXCEPT ![w] = "write"]
  /\ UNCHANGED <<ctxDone, offered, stop, closing, by, refused, writerVars>>

(* Mutant of MayLeave: a closed channel does not end the loop.             *)
LeavesOnCtx == ctxDone

(* The select's ctx.Done case, or the channel is closed and empty.         *)
MayLeave == ctxDone \/ (stop # "no" /\ input = <<>>)

Leave(w) ==
  /\ pc[w] = "recv" /\ MayLeave
  /\ pc' = [pc EXCEPT ![w] = "exit"]
  /\ UNCHANGED <<ctxDone, offered, input, stop, closing, ev, by, refused, writerVars>>

(* Mutant of WriterOf: the workers share the writers.                      *)
AnyWriter(w) == Workers

(* p.writers[idx].                                                         *)
WriterOf(w) == {w}

(* Mutant of Enqueue: the message is handed over twice.                    *)
EnqueueTwice(v, p, e) ==
  /\ batch' = [batch EXCEPT ![v][p] = <<>>]
  /\ queue' = [queue EXCEPT ![v][p] = Append(@, batch[v][p] \o <<e, e>>)]

(* Mutant of Enqueue: a batch that is already full is not sent first.      *)
EnqueueLate(v, p, e) ==
  LET b == Append(batch[v][p], e) IN
    IF Len(b) > Batch
    THEN /\ batch' = [batch EXCEPT ![v][p] = <<>>]
         /\ queue' = [queue EXCEPT ![v][p] = Append(@, b)]
    ELSE batch' = [batch EXCEPT ![v][p] = b] /\ UNCHANGED queue

(* Writer.WriteMessages: the message joins its partition's batch; a full   *)
(* batch goes to the queue.                                                *)
Enqueue(v, p, e) ==
  LET b == Append(batch[v][p], e) IN
    IF Len(b) >= Batch
    THEN /\ batch' = [batch EXCEPT ![v][p] = <<>>]
         /\ queue' = [queue EXCEPT ![v][p] = Append(@, b)]
    ELSE batch' = [batch EXCEPT ![v][p] = b] /\ UNCHANGED queue

(* Marshal, flowKey and WriteMessages; or Marshal or WriteMessages fails   *)
(* (no metadata, message too large, ctx cancelled), which is only logged.  *)
Write(w) ==
  /\ pc[w] = "write"
  /\ \/ /\ \E v \in WriterOf(w) : Enqueue(v, PartitionOf(ev[w]), ev[w])
        /\ by' = [by EXCEPT ![ev[w]] = w] /\ UNCHANGED refused
     \/ refused' = refused \cup {ev[w]} /\ UNCHANGED <<batch, queue, by>>
  /\ ev' = [ev EXCEPT ![w] = 0] /\ pc' = [pc EXCEPT ![w] = "recv"]
  /\ UNCHANGED <<ctxDone, offered, input, stop, closing, tries, faults, log, failed, unanswered>>

-----------------------------------------------------------------------------
(* kafka-go's Writer.                                                      *)

(* BatchTimeout: an open batch is sent though it is not full.              *)
BatchTimeout(w, p) ==
  /\ batch[w][p] # <<>>
  /\ batch' = [batch EXCEPT ![w][p] = <<>>]
  /\ queue' = [queue EXCEPT ![w][p] = Append(@, batch[w][p])]
  /\ UNCHANGED <<ctxDone, offered, input, stop, closing, workerVars, tries, faults, log,
                 failed, unanswered>>

(* A produce request for the first batch: acknowledged; or it fails before *)
(* or after the broker appended the batch, and is tried again, or given up *)
(* after MaxAttempts.                                                      *)
Produce(w, p) ==
  LET b     == Range(Head(queue[w][p]))
      store == log' = [log EXCEPT ![p] = @ \o Head(queue[w][p])]
      next  == /\ queue' = [queue EXCEPT ![w][p] = Tail(@)]
               /\ tries' = [tries EXCEPT ![w][p] = 0]
      again == /\ faults < MaxFaults /\ faults' = faults + 1
               /\ IF tries[w][p] + 1 < MaxAttempts
                  THEN /\ tries' = [tries EXCEPT ![w][p] = @ + 1]
                       /\ UNCHANGED <<queue, failed>>
                  ELSE next /\ failed' = failed \cup b
  IN  /\ queue[w][p] # <<>>
      /\ \/ store /\ next /\ UNCHANGED <<faults, failed, unanswered>>
         \/ again /\ UNCHANGED <<log, unanswered>>
         \/ again /\ store /\ unanswered' = unanswered \cup b
      /\ UNCHANGED <<ctxDone, offered, input, stop, closing, workerVars, batch>>

-----------------------------------------------------------------------------
(* Stop, once, for a producer that was started: close(p.input).            *)
CloseInput ==
  /\ stop = "no" /\ \A w \in Workers : pc[w] # "idle"
  /\ stop' = "wait"
  /\ UNCHANGED <<ctxDone, offered, input, closing, workerVars, writerVars>>

(* Mutant of Joined: Stop does not wait for the workers.                   *)
JoinedAtOnce == TRUE

(* p.wg.Wait().                                                            *)
Joined == \A w \in Workers : pc[w] = "exit"

(* w.Close for the next writer: its open batches are sent ...              *)
CloseWriter ==
  /\ stop = "wait" /\ Joined
  /\ stop' = "writers"
  /\ batch' = [batch EXCEPT ![closing] = [p \in Partitions |-> <<>>]]
  /\ queue' = [queue EXCEPT ![closing] = [p \in Partitions |->
                 IF batch[closing][p] = <<>> THEN @[p] ELSE Append(@[p], batch[closing][p])]]
  /\ UNCHANGED <<ctxDone, offered, input, closing, workerVars, tries, faults, log, failed,
                 unanswered>>

(* ... and Close returns when the last of them is done.                    *)
WriterClosed ==
  /\ stop = "writers" /\ \A p \in Partitions : queue[closing][p] = <<>>
  /\ closing' = closing + 1
  /\ stop' = IF closing + 1 \in Workers THEN "wait" ELSE "done"
  /\ UNCHANGED <<ctxDone, offered, input, workerVars, writerVars>>

Worker(w) == Receive(w) \/ Leave(w) \/ Write(w)

Stop == CloseInput \/ CloseWriter \/ WriterClosed

Next ==
  \/ Emit \/ Signal \/ Start \/ Stop
  \/ \E w \in Workers : Worker(w)
  \/ \E w \in Workers, p \in Partitions : BatchTimeout(w, p) \/ Produce(w, p)

(* The scheduler runs every goroutine that can proceed, main's among them; *)
(* every produce request ends, if only by its timeout.  Of the broker and  *)
(* of the select's choices nothing is assumed.                             *)
Fairness ==
  /\ \A w \in Workers : WF_kvars(Worker(w))
  /\ \A w \in Workers, p \in Partitions : WF_kvars(Produce(w, p))
  /\ WF_kvars(CloseWriter \/ WriterClosed)

Spec == Init /\ [][Next]_kvars /\ Fairness

-----------------------------------------------------------------------------
Positions(e) == {i \in 1..Len(log[PartitionOf(e)]) : log[PartitionOf(e)][i] = e}

(* kafka.go:156-157, docs/user-guide.md:145: the events of a flow lie in   *)
(* its partition in the order they were emitted, batches, retries and      *)
(* lost ones notwithstanding -- except that two events taken by different  *)
(* workers may change places (with one worker, never).  The first copy     *)
(* counts: of an event that is in the log, one lies before every copy of a *)
(* later event.                                                            *)
OrderedPerWorker ==
  \A d, e \in Events :
    d < e /\ FlowKey(d) = FlowKey(e) /\ by[d] = by[e] /\ Positions(d) # {}
      => \A j \in Positions(e) : \E i \in Positions(d) : i < j

(* An event is in the topic twice only if the answer to a request that     *)
(* stored it was lost: neither the workers nor the batches of two writers  *)
(* repeat one.                                                             *)
TwiceOnlyUnanswered ==
  \A e \in Events : (\E i, j \in Positions(e) : i # j) => e \in unanswered

(* When Stop returns, every event taken from the channel is in the topic,  *)
(* refused by WriteMessages or given up after MaxAttempts: none is left in *)
(* a worker or in a batch.  Only a signal lets Stop leave events in the    *)
(* channel; without one (the rollback in Pipeline.Run) it drains it.       *)
StopDrains ==
  stop = "done" =>
    /\ \A e \in 1..offered :
         e \in Range(input) \cup refused \cup failed \/ Positions(e) # {}
    /\ input # <<>> => ctxDone

(* Stop returns, whatever the broker does: the workers leave and every     *)
(* batch is sent or given up.                                              *)
StopReturns == (stop = "wait") ~> (stop = "done")
=============================================================================
