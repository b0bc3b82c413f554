--------------------------- MODULE Pipeline_proofs ---------------------------
(***************************************************************************)
(* For any number of packets, queues and workers, any channel capacity and *)
(* any order of the stages in which Kafka is added before the dispatcher:  *)
(* the types are preserved, no goroutine ever sends on a closed channel,   *)
(* no channel is closed twice, a stage whose Stop has returned has no      *)
(* running goroutine, a packet is always in exactly one place, and the     *)
(* pipeline implements Delivery.                                           *)
(***************************************************************************)
EXTENDS Pipeline, FiniteSetTheorems, TLAPS

USE DEF Procs, Singles, Loops, Chans

(* stopInReverse has stopped the i-th stage.                               *)
StoppedAt(i) ==
  \/ mpc \in {"stop", "rollback"} /\ i > k
  \/ mpc \in {"closing", "exited"}

(* Run has not reached the i-th stage: its goroutines do not exist.        *)
NotStarted ==
  mpc = "start" =>
    \A i \in 1..Len(Stages) : i >= k => \A g \in Goroutines[Stages[i]] : pc[g] = "idle"

(* Stop returned, so the goroutines are gone: StopContract, by StoppedAt.  *)
StoppedQuiet ==
  \A i \in 1..Len(Stages) : StoppedAt(i) => Exited(Goroutines[Stages[i]])

(* Between the two halves of a Stop.                                       *)
WaitInv ==
  waiting => /\ mpc \in {"stop", "rollback"} /\ k > 0
             /\ Stages[k] \in {"kafka", "reassembler"}
             /\ Stages[k] = "reassembler" => Exited({"reassembler"})

(* Who has finished when a channel is closed.                              *)
ClosedInv ==
  /\ "pkt" \in closed => pc["closer"] = "exit" /\ Exited(Queues)
  /\ "dec" \in closed => /\ mpc \notin {"start", "run"} /\ Exited(DecodeWorkers)
                         /\ \A i \in 1..Len(Stages) : Stages[i] = "decoder" => StoppedAt(i)
  /\ {"tcp", "udp"} \cap closed # {} => pc["splitter"] = "exit"
  /\ "str" \in closed => /\ mpc \notin {"start", "run"} /\ Exited({"reassembler"})
                         /\ \A i \in 1..Len(Stages) : Stages[i] = "reassembler" => StoppedAt(i)
  /\ "ev" \in closed => /\ mpc \notin {"start", "run"} /\ Exited(Loops)
                        /\ \A i \in 1..Len(Stages) :
                             Stages[i] = "kafka" => \/ StoppedAt(i)
                                                    \/ i = k /\ waiting

(* The inductive strengthening of NoPanic and StopContract.                *)
SafeInv == NotStarted /\ StoppedQuiet /\ WaitInv /\ ClosedInv /\ NoPanic

-----------------------------------------------------------------------------
(* Type correctness.                                                       *)

LEMMA TrySendType ==
  ASSUME NEW q \in Seq(SUBSET Packets), Len(q) <= ChannelBuffer, NEW m \in SUBSET Packets
  PROVE  /\ TrySend(q, m) \in Seq(SUBSET Packets)
         /\ Len(TrySend(q, m)) <= ChannelBuffer
BY BufferAssumption DEF TrySend

LEMMA AfterCompleteType ==
  ASSUME NEW q \in Seq(SUBSET Packets), Len(q) <= ChannelBuffer,
         NEW c \in SUBSET Packets, NEW s \in SUBSET Packets
  PROVE  /\ AfterComplete(q, c, s) \in Seq(SUBSET Packets)
         /\ Len(AfterComplete(q, c, s)) <= ChannelBuffer
         /\ Overflow(q, c, s) \in SUBSET Packets
<1> DEFINE q1 == TrySendData(q, c)
           q2 == TrySendData(q1, s)
<1>1. q1 \in Seq(SUBSET Packets) /\ Len(q1) <= ChannelBuffer
  BY TrySendType DEF TrySendData
<1>2. q2 \in Seq(SUBSET Packets) /\ Len(q2) <= ChannelBuffer
  <2> HIDE DEF q1
  <2> QED BY <1>1, TrySendType DEF TrySendData
<1>3. /\ TrySend(q2, {}) \in Seq(SUBSET Packets)
      /\ Len(TrySend(q2, {})) <= ChannelBuffer
  <2> HIDE DEF q2
  <2> QED BY <1>2, TrySendType
<1>4. Overflow(q, c, s) \in SUBSET Packets
  BY DEF Overflow
<1> QED BY <1>3, <1>4 DEF AfterComplete

(* Sending, receiving and completing a stream keep the channels typed.     *)
LEMMA SendType ==
  ASSUME ChanOK, panicked \in BOOLEAN,
         NEW c \in Chans, NEW m \in SUBSET Packets, Send(c, m)
  PROVE  ChanOK' /\ panicked' \in BOOLEAN
<1>1. CASE c \in closed
  BY <1>1 DEF ChanOK, Send
<1>2. CASE c \notin closed
  <2>1. Append(chan[c], m) \in Seq(SUBSET Packets) /\ Len(Append(chan[c], m)) <= ChannelBuffer
    BY <1>2, BufferAssumption DEF ChanOK, Send, HasRoom
  <2> QED BY <1>2, <2>1 DEF ChanOK, Send
<1> QED BY <1>1, <1>2

LEMMA RecvType ==
  ASSUME ChanOK, NEW c \in Chans, Recv(c)
  PROVE  ChanOK' /\ Head(chan[c]) \in SUBSET Packets
<1>1. chan[c] \in Seq(SUBSET Packets) /\ chan[c] # << >> /\ Len(chan[c]) <= ChannelBuffer
  BY DEF ChanOK, Recv, Readable
<1>2. /\ Tail(chan[c]) \in Seq(SUBSET Packets) /\ Head(chan[c]) \in SUBSET Packets
      /\ Len(Tail(chan[c])) <= ChannelBuffer
  BY <1>1, BufferAssumption
<1> QED BY <1>2 DEF ChanOK, Recv

LEMMA CompleteType ==
  ASSUME ChanOK, panicked \in BOOLEAN, dropped \in [{"pkt", "str"} -> SUBSET Packets],
         NEW h \in SUBSET Packets, Complete(h)
  PROVE  /\ ChanOK' /\ panicked' \in BOOLEAN
         /\ dropped' \in [{"pkt", "str"} -> SUBSET Packets]
         /\ buf' \in SUBSET Packets /\ live' \in BOOLEAN
<1>1. PICK c \in SUBSET h :
        IF "str" \in closed
        THEN panicked' = TRUE /\ UNCHANGED <<chan, dropped>>
        ELSE /\ chan' = [chan EXCEPT !["str"] = AfterComplete(@, c, h \ c)]
             /\ dropped' = [dropped EXCEPT !["str"] = @ \cup Overflow(chan["str"], c, h \ c)]
             /\ UNCHANGED panicked
  BY DEF Complete
<1>2. /\ AfterComplete(chan["str"], c, h \ c) \in Seq(SUBSET Packets)
      /\ Len(AfterComplete(chan["str"], c, h \ c)) <= ChannelBuffer
      /\ Overflow(chan["str"], c, h \ c) \in SUBSET Packets
  BY AfterCompleteType DEF ChanOK
<1>3. ChanOK' /\ panicked' \in BOOLEAN
  BY <1>1, <1>2 DEF ChanOK
<1>4. dropped' \in [{"pkt", "str"} -> SUBSET Packets]
  BY <1>1, <1>2
<1> QED BY <1>3, <1>4 DEF Complete

LEMMA FlushDirectionType ==
  ASSUME ChanOK, panicked \in BOOLEAN, dropped \in [{"pkt", "str"} -> SUBSET Packets],
         NEW h \in SUBSET Packets, NEW c \in SUBSET h, FlushDirection(h, c)
  PROVE  /\ ChanOK' /\ panicked' \in BOOLEAN
         /\ dropped' \in [{"pkt", "str"} -> SUBSET Packets]
         /\ buf' \in SUBSET Packets /\ live' \in BOOLEAN
<1>1. /\ TrySend(chan["str"], c) \in Seq(SUBSET Packets)
      /\ Len(TrySend(chan["str"], c)) <= ChannelBuffer
      /\ Overflow(chan["str"], c, {}) \in SUBSET Packets
  BY TrySendType, AfterCompleteType DEF ChanOK
<1>2. ChanOK' /\ panicked' \in BOOLEAN
  BY <1>1 DEF FlushDirection, ChanOK
<1>3. dropped' \in [{"pkt", "str"} -> SUBSET Packets]
  BY <1>1 DEF FlushDirection
<1> QED BY <1>2, <1>3 DEF FlushDirection

LEMMA UnchangedChan ==
  ASSUME ChanOK, UNCHANGED chan
  PROVE  ChanOK'
BY DEF ChanOK

LEMMA UnchangedIndex ==
  ASSUME IndexOK, UNCHANGED <<mpc, k>>
  PROVE  IndexOK'
BY DEF IndexOK

(* The initial state is typed.                                             *)
LEMMA TypeInit == Init => TypeOK
<1> SUFFICES ASSUME Init PROVE TypeOK
  OBVIOUS
<1>1. ChanOK
  BY BufferAssumption DEF Init, ChanOK
<1>2. IndexOK
  BY StageAssumption DEF Init, IndexOK
<1>3. /\ pc \in [Procs -> {"idle", "recv", "send", "exit"}]
      /\ held \in [Procs -> SUBSET Packets]
      /\ dropped \in [{"pkt", "str"} -> SUBSET Packets]
  BY DEF Init
<1> QED BY <1>1, <1>2, <1>3 DEF Init, TypeOK

(* Steps of main leave the channels alone except in Stop of the            *)
(* reassembler.                                                            *)
LEMMA TypeMain ==
  ASSUME TypeOK, Main
  PROVE  TypeOK'
<1> USE DEF mainVars, flags, asmVars, ends, dataVars
<1>0. Len(Stages) \in Nat
  BY StageAssumption
<1>1. ASSUME StartStage \/ StartFails \/ Running \/ BeginShutdown PROVE TypeOK'
  <2>1. IndexOK'
    BY <1>0, <1>1 DEF StartStage, StartFails, Running, BeginShutdown, IndexOK, TypeOK
  <2> QED BY <1>1, <2>1, UnchangedChan, ZenonT(60)
          DEF StartStage, StartFails, Running, BeginShutdown, TypeOK
<1>2. ASSUME NEW s, Stopping(s), UNCHANGED mpc, k' = k - 1 PROVE IndexOK'
  BY <1>0, <1>2 DEF Stopping, IndexOK, TypeOK
<1>3. CASE StopSplitter \/ StopDispatcher \/ StopMetrics
  <2>1. IndexOK'
    BY <1>2, <1>3 DEF StopSplitter, StopDispatcher, StopMetrics
  <2>2. UNCHANGED <<mpc, waiting, failed, writersClosed, flags, panicked, pc, dataVars>>
    BY <1>3 DEF StopSplitter, StopDispatcher, StopMetrics
  <2> QED BY <2>1, <2>2, UnchangedChan DEF TypeOK
<1>4. CASE StopDecoder \/ CloseReassembler \/ CloseWriters
  <2>1. IndexOK'
    BY <1>2, <1>4 DEF StopDecoder, CloseReassembler, CloseWriters
  <2>2. /\ closed' \in SUBSET Chans /\ panicked' \in BOOLEAN
        /\ waiting' \in BOOLEAN /\ writersClosed' \in BOOLEAN
    BY <1>4 DEF StopDecoder, CloseReassembler, CloseWriters, CloseChans, TypeOK
  <2>3. ChanOK'
    BY <1>4, UnchangedChan DEF StopDecoder, CloseReassembler, CloseWriters, TypeOK
  <2>4. UNCHANGED <<mpc, failed, ctxDone, capDone, pc, held, buf, live, wire, dropped,
                    discarded, published>>
    BY <1>4 DEF StopDecoder, CloseReassembler, CloseWriters
  <2> QED BY <2>1, <2>2, <2>3, <2>4 DEF TypeOK
<1>5. CASE StopReassembler
  <2>1. CASE live
    <3>1. /\ ChanOK' /\ panicked' \in BOOLEAN
          /\ dropped' \in [{"pkt", "str"} -> SUBSET Packets]
          /\ buf' \in SUBSET Packets /\ live' \in BOOLEAN
      BY <1>5, <2>1, CompleteType DEF StopReassembler, TypeOK
    <3> QED BY <3>1, <1>5, UnchangedIndex DEF StopReassembler, TypeOK
  <2>2. CASE ~live
    BY <1>5, <2>2, UnchangedChan, UnchangedIndex DEF StopReassembler, TypeOK
  <2> QED BY <2>1, <2>2 DEF TypeOK
<1>6. CASE StopKafka
  BY <1>6, UnchangedChan, UnchangedIndex DEF StopKafka, CloseChans, TypeOK
<1>7. CASE CloseCapturer \/ MainExit
  <2>1. IndexOK'
    BY <1>7 DEF CloseCapturer, MainExit, IndexOK, TypeOK
  <2> QED BY <1>7, <2>1, UnchangedChan DEF CloseCapturer, MainExit, TypeOK
<1> QED BY <1>1, <1>3, <1>4, <1>5, <1>6, <1>7 DEF Main

(* Steps of the capture loops, the closer and the signal.                  *)
LEMMA TypeCapture ==
  ASSUME TypeOK, Signal \/ CloseOutput \/ \E q \in Queues : Capture(q)
  PROVE  TypeOK'
<1> USE DEF mainVars, flags, asmVars, ends, dataVars
<1>1. CASE Signal
  BY <1>1, UnchangedChan, UnchangedIndex DEF Signal, TypeOK
<1>2. CASE CloseOutput
  BY <1>2, UnchangedChan, UnchangedIndex DEF CloseOutput, CloseChans, Exit, TypeOK
<1>3. ASSUME NEW q \in Queues, CaptureRecv(q)
      PROVE  TypeOK'
  BY <1>3, UnchangedChan, UnchangedIndex DEF CaptureRecv, TypeOK
<1>4. ASSUME NEW q \in Queues, CaptureDeliver(q)
      PROVE  TypeOK'
  <2>1. held[q] \in SUBSET Packets
    BY DEF TypeOK
  <2>2. /\ ChanOK' /\ panicked' \in BOOLEAN
        /\ dropped' \in [{"pkt", "str"} -> SUBSET Packets]
    <3>1. CASE Send("pkt", held[q]) /\ UNCHANGED dropped
      BY <2>1, <3>1, SendType DEF TypeOK
    <3>2. CASE /\ dropped' = [dropped EXCEPT !["pkt"] = @ \cup held[q]]
               /\ UNCHANGED <<chan, panicked>>
      BY <2>1, <3>2, UnchangedChan, UnchangedIndex DEF TypeOK
    <3> QED BY <1>4, <3>1, <3>2 DEF CaptureDeliver
  <2> QED BY <1>4, <2>2, UnchangedIndex DEF CaptureDeliver, TypeOK
<1>5. ASSUME NEW q \in Queues, CaptureExit(q) \/ CaptureError(q)
      PROVE  TypeOK'
  <2>1. /\ pc' = [pc EXCEPT ![q] = "exit"]
        /\ UNCHANGED <<mainVars, flags, panicked, dataVars>>
    BY <1>5 DEF CaptureExit, CaptureError, Exit
  <2>2. ChanOK' /\ IndexOK'
    BY <2>1, UnchangedChan, UnchangedIndex DEF TypeOK
  <2> QED BY <2>1, <2>2 DEF TypeOK
<1> QED BY <1>1, <1>2, <1>3, <1>4, <1>5 DEF Capture

(* A goroutine leaves, on ctx.Done or because its input is closed.         *)
LEMMA TypeExit ==
  ASSUME TypeOK, NEW g \in Procs, NEW c \in Chans, CtxExit(g) \/ InputClosed(g, c)
  PROVE  TypeOK'
<1>1. /\ UNCHANGED <<mpc, k, waiting, failed, writersClosed, ctxDone, capDone, panicked>>
      /\ UNCHANGED <<held, chan, closed, buf, live, wire, dropped, discarded, published>>
      /\ pc' = [pc EXCEPT ![g] = "exit"]
  BY DEF CtxExit, InputClosed, Exit, mainVars, flags, asmVars, ends, dataVars
<1>2. pc' \in [Procs -> {"idle", "recv", "send", "exit"}]
  BY <1>1 DEF TypeOK
<1>3. IndexOK' /\ ChanOK'
  BY <1>1, UnchangedChan, UnchangedIndex DEF TypeOK
<1> QED BY <1>1, <1>2, <1>3 DEF TypeOK

LEMMA TypeDecoder ==
  ASSUME TypeOK, NEW w \in DecodeWorkers, Decoder(w)
  PROVE  TypeOK'
<1> USE DEF mainVars, flags, asmVars, ends, dataVars
<1>1. CASE DecodeRecv(w)
  <2>1. ChanOK' /\ Head(chan["pkt"]) \in SUBSET Packets
    BY <1>1, RecvType DEF DecodeRecv, TypeOK
  <2> QED BY <1>1, <2>1, UnchangedIndex DEF DecodeRecv, TypeOK
<1>2. CASE DecodeSend(w)
  <2>1. ChanOK' /\ panicked' \in BOOLEAN
    BY <1>2, SendType DEF DecodeSend, TypeOK
  <2> QED BY <1>2, <2>1, UnchangedIndex DEF DecodeSend, TypeOK
<1>3. CASE DecodeAbort(w)
  BY <1>3, UnchangedChan, UnchangedIndex DEF DecodeAbort, Exit, TypeOK
<1> QED BY <1>1, <1>2, <1>3, TypeExit DEF Decoder

LEMMA TypeSplitter ==
  ASSUME TypeOK, Splitter
  PROVE  TypeOK'
<1> USE DEF mainVars, flags, asmVars, ends, dataVars
<1>1. CASE SplitRecv
  <2>1. ChanOK' /\ Head(chan["dec"]) \in SUBSET Packets
    BY <1>1, RecvType DEF SplitRecv, TypeOK
  <2> QED BY <1>1, <2>1, UnchangedIndex DEF SplitRecv, TypeOK
<1>2. CASE SplitSend
  <2>1. ChanOK' /\ panicked' \in BOOLEAN
    BY <1>2, SendType DEF SplitSend, TypeOK
  <2> QED BY <1>2, <2>1, UnchangedIndex DEF SplitSend, TypeOK
<1>3. CASE SplitFinish
  BY <1>3, UnchangedChan, UnchangedIndex DEF SplitFinish, CloseChans, Exit, TypeOK
<1> QED BY <1>1, <1>2, <1>3 DEF Splitter

LEMMA TypeReassembler ==
  ASSUME TypeOK, Reassembler
  PROVE  TypeOK'
<1> USE DEF mainVars, flags, asmVars, ends, dataVars
<1>1. CASE FeedRecv
  <2>1. ChanOK' /\ Head(chan["tcp"]) \in SUBSET Packets
    BY <1>1, RecvType DEF FeedRecv, TypeOK
  <2> QED BY <1>1, <2>1, UnchangedIndex DEF FeedRecv, TypeOK
<1>2. CASE FeedPacket
  <2>0. PICK new \in {held["reassembler"], {}} :
          /\ discarded' = discarded \cup (held["reassembler"] \ new)
          /\ AssembleWithContext(buf \cup new)
    BY <1>2 DEF FeedPacket
  <2> DEFINE h == buf \cup new
  <2>1. h \in SUBSET Packets
    BY <2>0 DEF TypeOK
  <2>2. /\ ChanOK' /\ panicked' \in BOOLEAN
        /\ dropped' \in [{"pkt", "str"} -> SUBSET Packets]
        /\ buf' \in SUBSET Packets /\ live' \in BOOLEAN
    <3>1. CASE buf' = h /\ live' = TRUE /\ UNCHANGED <<chan, dropped, panicked>>
      BY <2>1, <3>1, UnchangedChan, UnchangedIndex DEF TypeOK
    <3>2. ASSUME NEW c \in (SUBSET h) \ {{}}, FlushDirection(h, c)
          PROVE  /\ ChanOK' /\ panicked' \in BOOLEAN
                 /\ dropped' \in [{"pkt", "str"} -> SUBSET Packets]
                 /\ buf' \in SUBSET Packets /\ live' \in BOOLEAN
      BY <2>1, <3>2, FlushDirectionType DEF TypeOK
    <3>3. CASE Complete(h)
      BY <2>1, <3>3, CompleteType DEF TypeOK
    <3> QED BY <2>0, <3>1, <3>2, <3>3 DEF AssembleWithContext
  <2> HIDE DEF h
  <2>3. discarded' \in SUBSET Packets
    BY <2>0 DEF TypeOK
  <2> QED BY <1>2, <2>2, <2>3, UnchangedIndex DEF FeedPacket, TypeOK
<1>3. CASE FlushOlderThan
  <2>1. /\ ChanOK' /\ panicked' \in BOOLEAN
        /\ dropped' \in [{"pkt", "str"} -> SUBSET Packets]
        /\ buf' \in SUBSET Packets /\ live' \in BOOLEAN
    BY <1>3, CompleteType DEF FlushOlderThan, TypeOK
  <2> QED BY <1>3, <2>1, UnchangedIndex DEF FlushOlderThan, TypeOK
<1> QED BY <1>1, <1>2, <1>3, TypeExit DEF Reassembler

LEMMA TypeDispatch ==
  ASSUME TypeOK, NEW l \in Loops, NEW c \in Chans, Dispatch(l, c)
  PROVE  TypeOK'
<1> USE DEF mainVars, flags, asmVars, ends, dataVars
<1>1. CASE DispatchRecv(l, c)
  <2>1. ChanOK' /\ Head(chan[c]) \in SUBSET Packets
    BY <1>1, RecvType DEF DispatchRecv, TypeOK
  <2> QED BY <1>1, <2>1, UnchangedIndex DEF DispatchRecv, TypeOK
<1>2. CASE DispatchSend(l)
  <2>1. PICK p \in held[l] :
          /\ Send("ev", {p})
          /\ held' = [held EXCEPT ![l] = @ \ {p}]
          /\ pc' = [pc EXCEPT ![l] = IF held[l] = {p} THEN "recv" ELSE "send"]
    BY <1>2 DEF DispatchSend
  <2>2. {p} \in SUBSET Packets
    BY <2>1 DEF TypeOK
  <2>3. ChanOK' /\ panicked' \in BOOLEAN
    BY <2>1, <2>2, SendType DEF TypeOK
  <2> QED BY <1>2, <2>1, <2>3, UnchangedIndex DEF DispatchSend, TypeOK
<1>3. CASE DispatchAbort(l)
  BY <1>3, UnchangedChan, UnchangedIndex DEF DispatchAbort, TypeOK
<1> QED BY <1>1, <1>2, <1>3, TypeExit DEF Dispatch

LEMMA TypeKafka ==
  ASSUME TypeOK, NEW w \in KafkaWorkers, Kafka(w)
  PROVE  TypeOK'
<1> USE DEF mainVars, flags, asmVars, ends, dataVars
<1>1. CASE KafkaRecv(w)
  <2>1. ChanOK' /\ Head(chan["ev"]) \in SUBSET Packets
    BY <1>1, RecvType DEF KafkaRecv, TypeOK
  <2> QED BY <1>1, <2>1, UnchangedIndex DEF KafkaRecv, TypeOK
<1>2. CASE KafkaWrite(w)
  BY <1>2, UnchangedChan, UnchangedIndex DEF KafkaWrite, TypeOK
<1> QED BY <1>1, <1>2, TypeExit DEF Kafka

(* TypeOK is an invariant: in particular no interleaving of senders and    *)
(* receivers overfills a channel.                                          *)
THEOREM TypeCorrect == Spec => []TypeOK
<1>1. Init => TypeOK
  BY TypeInit
<1>2. TypeOK /\ [Next]_vars => TypeOK'
  <2> SUFFICES ASSUME TypeOK, [Next]_vars PROVE TypeOK'
    OBVIOUS
  <2>1. CASE Next
    BY <2>1, TypeMain, TypeCapture, TypeDecoder, TypeSplitter, TypeReassembler,
       TypeDispatch, TypeKafka DEF Next
  <2>2. CASE UNCHANGED vars
    BY <2>2, UnchangedChan, UnchangedIndex DEF TypeOK, vars, mainVars, flags, asmVars, ends, dataVars
  <2> QED BY <2>1, <2>2
<1> QED BY <1>1, <1>2, PTL DEF Spec

-----------------------------------------------------------------------------
(* No panic, and the contract of Stop.                                     *)

LEMMA StagesType ==
  /\ Len(Stages) \in Nat
  /\ \A i \in 1..Len(Stages) : Stages[i] \in StageNames
BY StageAssumption

LEMMA GoroutineSets ==
  /\ Goroutines["decoder"] = DecodeWorkers
  /\ Goroutines["splitter"] = {"splitter"}
  /\ Goroutines["reassembler"] = {"reassembler"}
  /\ Goroutines["kafka"] = KafkaWorkers
  /\ Goroutines["dispatcher"] = Loops
  /\ Goroutines["metrics"] = {}
BY DEF Goroutines

LEMMA GoroutinesInProcs ==
  ASSUME NEW s \in StageNames
  PROVE  Goroutines[s] \subseteq Procs /\ "closer" \notin Goroutines[s]
         /\ Goroutines[s] \cap Queues = {}
BY GoroutineSets, ProcKinds DEF StageNames

(* A step of a running goroutine g: it ends neither the set of the idle    *)
(* nor that of the exited, so what has been concluded from them stands.    *)
LEMMA ActiveStep ==
  ASSUME TypeOK, SafeInv, UNCHANGED <<mpc, k, waiting, closed, panicked>>,
         NEW g \in Procs, pc[g] \in {"recv", "send"},
         NEW x, pc' = [pc EXCEPT ![g] = x]
  PROVE  SafeInv'
<1>1. \A h \in Procs : pc[h] \in {"idle", "exit"} => pc'[h] = pc[h]
  BY DEF TypeOK
<1>2. ASSUME NEW gs \in SUBSET Procs, Exited(gs)
      PROVE  Exited(gs)'
  BY <1>1, <1>2 DEF Exited
<1>3. NotStarted'
  BY <1>1, StagesType, GoroutinesInProcs DEF SafeInv, NotStarted
<1>4. StoppedQuiet'
  BY <1>2, StagesType, GoroutinesInProcs DEF SafeInv, StoppedQuiet, StoppedAt
<1>5. WaitInv'
  BY <1>2 DEF SafeInv, WaitInv
<1>6. ClosedInv'
  <2>1. \A i : StoppedAt(i) <=> StoppedAt(i)'
    BY DEF StoppedAt
  <2> QED BY <1>1, <1>2, <2>1 DEF SafeInv, ClosedInv
<1>7. NoPanic'
  BY DEF SafeInv, NoPanic
<1> QED BY <1>3, <1>4, <1>5, <1>6, <1>7 DEF SafeInv

LEMMA SafeInit == Init => SafeInv
<1> SUFFICES ASSUME Init PROVE SafeInv
  OBVIOUS
<1>1. NotStarted
  BY StagesType, GoroutinesInProcs DEF Init, NotStarted
<1>2. StoppedQuiet /\ WaitInv /\ ClosedInv /\ NoPanic
  BY DEF Init, StoppedQuiet, StoppedAt, WaitInv, ClosedInv, NoPanic
<1> QED BY <1>1, <1>2 DEF SafeInv

(* The same for a step that leaves every pc as it is.                      *)
LEMMA QuietStep ==
  ASSUME SafeInv, UNCHANGED <<mpc, k, waiting, closed, panicked, pc>>
  PROVE  SafeInv'
BY DEF SafeInv, NotStarted, StoppedQuiet, StoppedAt, WaitInv, ClosedInv, NoPanic, Exited

(* A send on an open channel does not panic.                               *)
LEMMA SendOpen ==
  ASSUME NEW c, NEW m, c \notin closed, Send(c, m)
  PROVE  UNCHANGED panicked
BY DEF Send

LEMMA SafeCapture ==
  ASSUME TypeOK, SafeInv, NEW q \in Queues, Capture(q)
  PROVE  SafeInv'
<1> USE DEF mainVars, flags, asmVars, ends, dataVars
<1>1. pc[q] \in {"recv", "send"}
  BY DEF Capture, CaptureRecv, CaptureDeliver, CaptureExit, CaptureError
<1>2. "pkt" \notin closed
  BY <1>1 DEF SafeInv, ClosedInv, Exited
<1>3. UNCHANGED <<mpc, k, waiting, closed, panicked>>
  BY <1>2, SendOpen DEF Capture, CaptureRecv, CaptureDeliver, CaptureExit, CaptureError
<1>4. \E x : pc' = [pc EXCEPT ![q] = x]
  BY DEF Capture, CaptureRecv, CaptureDeliver, CaptureExit, CaptureError, Exit
<1> QED BY <1>1, <1>3, <1>4, ActiveStep

LEMMA SafeDecoder ==
  ASSUME TypeOK, SafeInv, NEW w \in DecodeWorkers, Decoder(w)
  PROVE  SafeInv'
<1> USE DEF mainVars, flags, asmVars, ends, dataVars
<1>1. pc[w] \in {"recv", "send"}
  BY DEF Decoder, DecodeRecv, DecodeSend, DecodeAbort, CtxExit, InputClosed
<1>2. "dec" \notin closed
  BY <1>1 DEF SafeInv, ClosedInv, Exited
<1>3. UNCHANGED <<mpc, k, waiting, closed, panicked>>
  BY <1>2, SendOpen DEF Decoder, DecodeRecv, DecodeSend, DecodeAbort, CtxExit, InputClosed
<1>4. \E x : pc' = [pc EXCEPT ![w] = x]
  <2>1. CASE DecodeRecv(w)
    BY <2>1 DEF DecodeRecv, TypeOK
  <2>2. CASE DecodeSend(w) \/ DecodeAbort(w) \/ CtxExit(w) \/ InputClosed(w, "pkt")
    BY <2>2 DEF DecodeSend, DecodeAbort, CtxExit, InputClosed, Exit
  <2> QED BY <2>1, <2>2 DEF Decoder
<1> QED BY <1>1, <1>3, <1>4, ActiveStep

LEMMA SafeDispatch ==
  ASSUME TypeOK, SafeInv, NEW l \in Loops, NEW c \in Chans, Dispatch(l, c)
  PROVE  SafeInv'
<1> USE DEF mainVars, flags, asmVars, ends, dataVars
<1>1. pc[l] \in {"recv", "send"}
  BY DEF Dispatch, DispatchRecv, DispatchSend, DispatchAbort, CtxExit, InputClosed
<1>2. "ev" \notin closed
  BY <1>1 DEF SafeInv, ClosedInv, Exited
<1>3. UNCHANGED <<mpc, k, waiting, closed, panicked>>
  BY <1>2, SendOpen DEF Dispatch, DispatchRecv, DispatchSend, DispatchAbort, CtxExit, InputClosed
<1>4. \E x : pc' = [pc EXCEPT ![l] = x]
  BY DEF Dispatch, DispatchRecv, DispatchSend, DispatchAbort, CtxExit, InputClosed, Exit
<1> QED BY <1>1, <1>3, <1>4, ActiveStep

LEMMA SafeKafka ==
  ASSUME TypeOK, SafeInv, NEW w \in KafkaWorkers, Kafka(w)
  PROVE  SafeInv'
<1> USE DEF mainVars, flags, asmVars, ends, dataVars
<1>1. pc[w] \in {"recv", "send"} /\ UNCHANGED <<mpc, k, waiting, closed, panicked>>
  BY DEF Kafka, KafkaRecv, KafkaWrite, CtxExit, InputClosed
<1>2. \E x : pc' = [pc EXCEPT ![w] = x]
  BY DEF Kafka, KafkaRecv, KafkaWrite, CtxExit, InputClosed, Exit
<1> QED BY <1>1, <1>2, ActiveStep

(* Only the reassembler's goroutine and its Stop complete streams; both do *)
(* so while str is open.                                                   *)
LEMMA SafeReassembler ==
  ASSUME TypeOK, SafeInv, Reassembler
  PROVE  SafeInv'
<1> USE DEF mainVars, flags, asmVars, ends, dataVars
<1>1. pc["reassembler"] \in {"recv", "send"}
  BY DEF Reassembler, FeedRecv, FeedPacket, FlushOlderThan, CtxExit, InputClosed
<1>2. "str" \notin closed
  BY <1>1 DEF SafeInv, ClosedInv, Exited
<1>3. UNCHANGED <<mpc, k, waiting, closed, panicked>>
  BY <1>2 DEF Reassembler, FeedRecv, FeedPacket, AssembleWithContext, FlushOlderThan,
              FlushDirection, Complete,
              CtxExit, InputClosed
<1>4. CASE FlushOlderThan
  BY <1>3, <1>4, QuietStep DEF FlushOlderThan
<1>5. CASE ~FlushOlderThan
  <2>1. \E x : pc' = [pc EXCEPT !["reassembler"] = x]
    BY <1>5 DEF Reassembler, FeedRecv, FeedPacket, CtxExit, InputClosed, Exit
  <2> QED BY <1>1, <1>3, <2>1, ActiveStep
<1> QED BY <1>4, <1>5

(* The splitter sends only while it runs, and closes tcp and udp as the    *)
(* last thing it does.                                                     *)
LEMMA SafeSplitter ==
  ASSUME TypeOK, SafeInv, Splitter
  PROVE  SafeInv'
<1> USE DEF mainVars, flags, asmVars, ends, dataVars
<1>1. pc["splitter"] \in {"recv", "send"}
  BY DEF Splitter, SplitRecv, SplitSend, SplitFinish
<1>2. {"tcp", "udp"} \cap closed = {}
  BY <1>1 DEF SafeInv, ClosedInv
<1>3. CASE SplitRecv \/ SplitSend
  <2>1. UNCHANGED <<mpc, k, waiting, closed, panicked>>
    BY <1>2, <1>3, SendOpen DEF SplitRecv, SplitSend
  <2>2. \E x : pc' = [pc EXCEPT !["splitter"] = x]
    BY <1>3 DEF SplitRecv, SplitSend
  <2> QED BY <1>1, <2>1, <2>2, ActiveStep
<1>4. CASE SplitFinish
  <2>1. /\ UNCHANGED <<mpc, k, waiting, panicked>>
        /\ closed' = closed \cup {"tcp", "udp"}
        /\ pc' = [pc EXCEPT !["splitter"] = "exit"]
    <3>1. panicked' = (panicked \/ {"tcp", "udp"} \cap closed # {})
      BY <1>4 DEF SplitFinish, CloseChans
    <3>2. panicked' = panicked
      BY <1>2, <3>1, Zenon DEF TypeOK
    <3> QED BY <1>4, <3>2 DEF SplitFinish, CloseChans, Exit
  <2>2. \A h \in Procs : pc[h] \in {"idle", "exit"} => pc'[h] = pc[h]
    BY <1>1, <2>1 DEF TypeOK
  <2>3. ASSUME NEW gs \in SUBSET Procs, Exited(gs)
        PROVE  Exited(gs)'
    BY <2>2, <2>3 DEF Exited
  <2>4. NotStarted'
    BY <2>1, <2>2, StagesType, GoroutinesInProcs DEF SafeInv, NotStarted
  <2>5. StoppedQuiet'
    BY <2>1, <2>3, StagesType, GoroutinesInProcs DEF SafeInv, StoppedQuiet, StoppedAt
  <2>6. WaitInv' /\ NoPanic'
    BY <2>1, <2>3 DEF SafeInv, WaitInv, NoPanic
  <2>7. ClosedInv'
    <3>1. \A i : StoppedAt(i) <=> StoppedAt(i)'
      BY <2>1 DEF StoppedAt
    <3>2. pc'["splitter"] = "exit"
      BY <2>1 DEF TypeOK
    <3> QED BY <2>1, <2>2, <2>3, <3>1, <3>2 DEF SafeInv, ClosedInv
  <2> QED BY <2>4, <2>5, <2>6, <2>7 DEF SafeInv
<1> QED BY <1>3, <1>4 DEF Splitter

LEMMA SafeCloseOutput ==
  ASSUME TypeOK, SafeInv, CloseOutput
  PROVE  SafeInv'
<1> USE DEF mainVars, flags, asmVars, ends, dataVars
<1>1. pc["closer"] = "recv" /\ Exited(Queues) /\ "pkt" \notin closed
  BY DEF CloseOutput, SafeInv, ClosedInv
<1>2. /\ UNCHANGED <<mpc, k, waiting>>
      /\ ~panicked'
      /\ closed' = closed \cup {"pkt"}
      /\ pc' = [pc EXCEPT !["closer"] = "exit"]
  <2>1. panicked' = (panicked \/ {"pkt"} \cap closed # {})
    BY DEF CloseOutput, CloseChans
  <2>2. {"pkt"} \cap closed = {}
    BY <1>1
  <2>3. ~panicked'
    BY <2>1, <2>2 DEF SafeInv, NoPanic
  <2> QED BY <2>3 DEF CloseOutput, CloseChans, Exit
<1>3. \A h \in Procs : pc[h] \in {"idle", "exit"} => pc'[h] = pc[h]
  BY <1>1, <1>2 DEF TypeOK
<1>4. ASSUME NEW gs \in SUBSET Procs, Exited(gs)
      PROVE  Exited(gs)'
  BY <1>3, <1>4 DEF Exited
<1>5. NotStarted'
  BY <1>2, <1>3, StagesType, GoroutinesInProcs DEF SafeInv, NotStarted
<1>6. StoppedQuiet'
  BY <1>2, <1>4, StagesType, GoroutinesInProcs DEF SafeInv, StoppedQuiet, StoppedAt
<1>7. WaitInv' /\ NoPanic'
  BY <1>2, <1>4 DEF SafeInv, WaitInv, NoPanic
<1>8. ClosedInv'
  <2>1. \A i : StoppedAt(i) <=> StoppedAt(i)'
    BY <1>2 DEF StoppedAt
  <2>2. pc'["closer"] = "exit"
    BY <1>2 DEF TypeOK
  <2> QED BY <1>1, <1>2, <1>3, <1>4, <2>1, <2>2 DEF SafeInv, ClosedInv
<1> QED BY <1>5, <1>6, <1>7, <1>8 DEF SafeInv

(* Starting a stage touches only goroutines that did not exist.            *)
LEMMA SafeStart ==
  ASSUME TypeOK, SafeInv, StartStage
  PROVE  SafeInv'
<1> USE DEF mainVars, flags, asmVars, ends, dataVars
<1>1. /\ mpc = "start" /\ mpc' = "start" /\ k \in 1..Len(Stages) /\ k' = k + 1
      /\ UNCHANGED <<waiting, closed, panicked>>
      /\ pc' = [g \in Procs |-> IF g \in Goroutines[Stages[k]] THEN "recv" ELSE pc[g]]
  BY StagesType DEF StartStage, TypeOK, IndexOK
<1>2. \A g \in Goroutines[Stages[k]] : pc[g] = "idle"
  BY <1>1 DEF SafeInv, NotStarted
<1>3. Stages[k] \in StageNames
  BY <1>1, StagesType
<1>4. NotStarted'
  <2> SUFFICES ASSUME NEW i \in 1..Len(Stages), i >= k + 1, NEW g \in Goroutines[Stages[i]]
               PROVE  pc'[g] = "idle"
    BY <1>1 DEF NotStarted
  <2>1. g \in Procs /\ pc[g] = "idle"
    BY <1>1, StagesType, GoroutinesInProcs DEF SafeInv, NotStarted
  <2>2. Stages[i] \in StageNames /\ Stages[i] # Stages[k]
    BY <1>1, StageAssumption
  <2>3. g \notin Goroutines[Stages[k]]
    BY <1>3, <2>2, GoroutineSets, ProcKinds DEF StageNames
  <2> QED BY <1>1, <2>1, <2>3
<1>5. StoppedQuiet' /\ WaitInv' /\ NoPanic'
  BY <1>1 DEF SafeInv, StoppedQuiet, StoppedAt, WaitInv, NoPanic
<1>6. ClosedInv'
  <2>1. "dec" \notin closed /\ "str" \notin closed /\ "ev" \notin closed
    BY <1>1 DEF SafeInv, ClosedInv
  <2>2. \A q \in Queues \cup {"closer"} : pc'[q] = pc[q]
    BY <1>1, <1>3, GoroutinesInProcs
  <2>3. pc["splitter"] = "exit" => pc'["splitter"] = "exit"
    BY <1>1, <1>2
  <2> QED BY <1>1, <2>1, <2>2, <2>3 DEF SafeInv, ClosedInv, Exited
<1> QED BY <1>4, <1>5, <1>6 DEF SafeInv

(* Run gives up, or hands over to main: no goroutine changes.              *)
LEMMA SafeRun ==
  ASSUME TypeOK, SafeInv, StartFails \/ Running \/ BeginShutdown
  PROVE  SafeInv'
<1> USE DEF mainVars, flags, asmVars, ends, dataVars
<1>1. UNCHANGED <<waiting, closed, panicked, pc>>
  BY DEF StartFails, Running, BeginShutdown
<1>2. mpc \in {"start", "run"} /\ ~waiting
  BY DEF StartFails, Running, BeginShutdown, SafeInv, WaitInv
<1>3. mpc' \in {"run", "stop", "rollback"} /\ WaitInv'
  BY <1>1, <1>2 DEF StartFails, Running, BeginShutdown, WaitInv
<1>4. "dec" \notin closed /\ "str" \notin closed /\ "ev" \notin closed
  BY <1>2 DEF SafeInv, ClosedInv
<1>5. ClosedInv' /\ NoPanic' /\ NotStarted'
  BY <1>1, <1>3, <1>4 DEF SafeInv, ClosedInv, NoPanic, NotStarted, Exited
<1>6. StoppedQuiet'
  <2> SUFFICES ASSUME NEW i \in 1..Len(Stages), StoppedAt(i)'
               PROVE  Exited(Goroutines[Stages[i]])'
    BY DEF StoppedQuiet
  <2>1. CASE StartFails
    <3>1. mpc = "start" /\ i >= k
      BY <2>1, StagesType DEF StartFails, StoppedAt, TypeOK, IndexOK
    <3> QED BY <1>1, <3>1 DEF SafeInv, NotStarted, Exited
  <2>2. CASE Running \/ BeginShutdown
    BY <2>2, StagesType DEF Running, BeginShutdown, StoppedAt
  <2> QED BY <2>1, <2>2
<1> QED BY <1>3, <1>5, <1>6 DEF SafeInv

(* A Stop returns: the stage's goroutines have ended, so the stage may be  *)
(* counted as stopped.                                                     *)
LEMMA StopReturns ==
  ASSUME TypeOK, SafeInv, mpc \in {"stop", "rollback"}, k > 0,
         Exited(Goroutines[Stages[k]]),
         k' = k - 1, UNCHANGED <<mpc, pc, panicked>>, ~waiting',
         closed' \subseteq closed \cup {"dec", "str"},
         "dec" \in closed' \ closed => Stages[k] = "decoder",
         "str" \in closed' \ closed => Stages[k] = "reassembler"
  PROVE  SafeInv'
<1>1. k \in Nat /\ \A i \in 1..Len(Stages) : StoppedAt(i)' <=> StoppedAt(i) \/ i = k
  BY StagesType DEF TypeOK, IndexOK, StoppedAt
<1>2. NotStarted' /\ WaitInv' /\ NoPanic'
  BY DEF SafeInv, NotStarted, WaitInv, NoPanic
<1>3. StoppedQuiet'
  BY <1>1 DEF SafeInv, StoppedQuiet, Exited
<1>4. ClosedInv'
  <2>1. "dec" \in closed' => Exited(DecodeWorkers)
    BY GoroutineSets DEF SafeInv, ClosedInv
  <2>2. "dec" \in closed' => \A i \in 1..Len(Stages) : Stages[i] = "decoder" => StoppedAt(i)'
    <3> SUFFICES ASSUME "dec" \in closed', NEW i \in 1..Len(Stages), Stages[i] = "decoder"
                 PROVE  StoppedAt(i)'
      OBVIOUS
    <3>1. CASE "dec" \in closed
      BY <1>1, <3>1 DEF SafeInv, ClosedInv
    <3>2. CASE "dec" \notin closed
      <4>1. Stages[k] = "decoder" /\ k \in 1..Len(Stages)
        BY <3>2, StagesType DEF TypeOK, IndexOK
      <4>2. i = k
        BY <4>1, StageAssumption
      <4> QED BY <1>1, <4>2
    <3> QED BY <3>1, <3>2
  <2>3. "str" \in closed' => Exited({"reassembler"})
    BY GoroutineSets DEF SafeInv, ClosedInv
  <2>4. "str" \in closed' => \A i \in 1..Len(Stages) : Stages[i] = "reassembler" => StoppedAt(i)'
    <3> SUFFICES ASSUME "str" \in closed', NEW i \in 1..Len(Stages), Stages[i] = "reassembler"
                 PROVE  StoppedAt(i)'
      OBVIOUS
    <3>1. CASE "str" \in closed
      BY <1>1, <3>1 DEF SafeInv, ClosedInv
    <3>2. CASE "str" \notin closed
      <4>1. Stages[k] = "reassembler" /\ k \in 1..Len(Stages)
        BY <3>2, StagesType DEF TypeOK, IndexOK
      <4>2. i = k
        BY <4>1, StageAssumption
      <4> QED BY <1>1, <4>2
    <3> QED BY <3>1, <3>2
  <2>5. "ev" \in closed' => /\ Exited(Loops)
                           /\ \A i \in 1..Len(Stages) : Stages[i] = "kafka" => StoppedAt(i)'
    BY <1>1 DEF SafeInv, ClosedInv
  <2>6. /\ "pkt" \in closed' => pc["closer"] = "exit" /\ Exited(Queues)
        /\ {"tcp", "udp"} \cap closed' # {} => pc["splitter"] = "exit"
    BY DEF SafeInv, ClosedInv
  <2>7. \A gs : Exited(gs)' <=> Exited(gs)
    BY DEF Exited
  <2>8. mpc' \notin {"start", "run"}
    OBVIOUS
  <2> QED BY <2>1, <2>2, <2>3, <2>4, <2>5, <2>6, <2>7, <2>8 DEF ClosedInv
<1> QED BY <1>2, <1>3, <1>4 DEF SafeInv

(* Stopping stages: stopInReverse, then capturer.Close.                    *)
LEMMA SafeStop ==
  ASSUME TypeOK, SafeInv, Main, mpc \in {"stop", "rollback", "closing"}
  PROVE  SafeInv'
<1> USE DEF mainVars, flags, asmVars, ends, dataVars
<1>1. CASE StopDecoder
  <2>1. k \in 1..Len(Stages) /\ Stages[k] = "decoder" /\ mpc \in {"stop", "rollback"}
    BY <1>1, StagesType DEF StopDecoder, Stopping, TypeOK, IndexOK
  <2>2. "dec" \notin closed
    <3>1. ~StoppedAt(k)
      BY <2>1 DEF StoppedAt
    <3> QED BY <2>1, <3>1 DEF SafeInv, ClosedInv
  <2>3. ~waiting
    BY <2>1 DEF SafeInv, WaitInv
  <2>4. UNCHANGED panicked
    <3>1. {"dec"} \cap closed = {}
      BY <2>2
    <3>2. panicked' = (panicked \/ {"dec"} \cap closed # {})
      BY <1>1 DEF StopDecoder, CloseChans
    <3> QED BY <3>1, <3>2, Zenon DEF TypeOK
  <2>5. /\ k' = k - 1 /\ UNCHANGED <<mpc, pc>> /\ ~waiting'
        /\ closed' = closed \cup {"dec"} /\ Exited(Goroutines[Stages[k]])
    BY <1>1, <2>1, <2>3, GoroutineSets DEF StopDecoder, CloseChans
  <2> QED BY <2>1, <2>4, <2>5, StopReturns
<1>2. CASE StopSplitter \/ StopDispatcher \/ StopMetrics
  <2>1. k \in 1..Len(Stages) /\ Stages[k] \in {"splitter", "dispatcher", "metrics"}
        /\ mpc \in {"stop", "rollback"}
    BY <1>2, StagesType DEF StopSplitter, StopDispatcher, StopMetrics, Stopping, TypeOK, IndexOK
  <2>2. ~waiting
    BY <2>1 DEF SafeInv, WaitInv
  <2>3. /\ k' = k - 1 /\ UNCHANGED <<mpc, pc, panicked, closed>> /\ ~waiting'
    BY <1>2, <2>2 DEF StopSplitter, StopDispatcher, StopMetrics
  <2>4. Exited(Goroutines[Stages[k]])
    BY <1>2, GoroutineSets DEF StopSplitter, StopDispatcher, StopMetrics, Stopping, Exited
  <2> QED BY <2>1, <2>3, <2>4, StopReturns
<1>3. CASE StopReassembler
  <2>1. k \in 1..Len(Stages) /\ Stages[k] = "reassembler" /\ mpc \in {"stop", "rollback"}
        /\ Exited({"reassembler"})
    BY <1>3, StagesType DEF StopReassembler, Stopping, TypeOK, IndexOK
  <2>2. "str" \notin closed
    <3>1. ~StoppedAt(k)
      BY <2>1 DEF StoppedAt
    <3> QED BY <2>1, <3>1 DEF SafeInv, ClosedInv
  <2>3. UNCHANGED <<mpc, k, closed, pc, panicked>>
    BY <1>3, <2>2 DEF StopReassembler, Complete
  <2>4. WaitInv'
    BY <2>1, <2>3 DEF WaitInv, Exited
  <2>5. ClosedInv'
    <3>1. \A i : StoppedAt(i)' <=> StoppedAt(i)
      BY <2>3 DEF StoppedAt
    <3>2. \A gs : Exited(gs)' <=> Exited(gs)
      BY <2>3 DEF Exited
    <3>3. \A i : i = k /\ waiting => i = k' /\ waiting'
      BY <1>3, <2>3 DEF StopReassembler
    <3> QED BY <2>3, <3>1, <3>2, <3>3 DEF SafeInv, ClosedInv
  <2> QED BY <2>3, <2>4, <2>5 DEF SafeInv, NotStarted, StoppedQuiet, StoppedAt, NoPanic, Exited
<1>4. CASE CloseReassembler
  <2>1. k \in 1..Len(Stages) /\ Stages[k] = "reassembler" /\ mpc \in {"stop", "rollback"}
        /\ waiting
    BY <1>4, StagesType DEF CloseReassembler, Stopping, TypeOK, IndexOK
  <2>2. "str" \notin closed
    <3>1. ~StoppedAt(k)
      BY <2>1 DEF StoppedAt
    <3> QED BY <2>1, <3>1 DEF SafeInv, ClosedInv
  <2>3. UNCHANGED panicked
    <3>1. {"str"} \cap closed = {}
      BY <2>2
    <3>2. panicked' = (panicked \/ {"str"} \cap closed # {})
      BY <1>4 DEF CloseReassembler, CloseChans
    <3> QED BY <3>1, <3>2, Zenon DEF TypeOK
  <2>4. Exited(Goroutines[Stages[k]])
    BY <2>1, GoroutineSets DEF SafeInv, WaitInv
  <2>5. k' = k - 1 /\ UNCHANGED <<mpc, pc>> /\ ~waiting' /\ closed' = closed \cup {"str"}
    BY <1>4 DEF CloseReassembler, CloseChans
  <2> QED BY <2>1, <2>3, <2>4, <2>5, StopReturns
<1>5. CASE StopKafka
  <2>1. k \in 1..Len(Stages) /\ Stages[k] = "kafka" /\ mpc \in {"stop", "rollback"} /\ ~waiting
    BY <1>5, StagesType DEF StopKafka, Stopping, TypeOK, IndexOK
  <2>2. "ev" \notin closed
    <3>1. ~StoppedAt(k)
      BY <2>1 DEF StoppedAt
    <3> QED BY <2>1, <3>1 DEF SafeInv, ClosedInv
  <2>3. ~panicked'
    <3>1. {"ev"} \cap closed = {}
      BY <2>2
    <3>2. panicked' = (panicked \/ {"ev"} \cap closed # {})
      BY <1>5 DEF StopKafka, CloseChans
    <3> QED BY <3>1, <3>2 DEF SafeInv, NoPanic
  <2>4. UNCHANGED <<mpc, k, pc>> /\ waiting' = TRUE /\ closed' = closed \cup {"ev"}
    BY <1>5 DEF StopKafka, CloseChans
  <2>5. Exited(Loops)
    <3>1. PICK j \in 1..Len(Stages) : Stages[j] = "dispatcher"
      BY StageAssumption
    <3>2. k < j
      BY <2>1, <3>1, KafkaBeforeDispatcher
    <3>3. StoppedAt(j)
      BY <2>1, <3>2 DEF StoppedAt
    <3> QED BY <3>1, <3>3, GoroutineSets, ZenonT(60) DEF SafeInv, StoppedQuiet
  <2>6. \A i : StoppedAt(i)' <=> StoppedAt(i)
    BY <2>4 DEF StoppedAt
  <2>7. \A gs : Exited(gs)' <=> Exited(gs)
    BY <2>4 DEF Exited
  <2>8. ClosedInv'
    <3>1. \A i \in 1..Len(Stages) : Stages[i] = "kafka" => i = k' /\ waiting'
      BY <2>1, <2>4, StageAssumption
    <3>2. mpc' \notin {"start", "run"}
      BY <2>1, <2>4
    <3> QED BY <2>4, <2>5, <2>6, <2>7, <3>1, <3>2 DEF SafeInv, ClosedInv
  <2>9. WaitInv' /\ NotStarted' /\ StoppedQuiet' /\ NoPanic'
    BY <2>1, <2>3, <2>4, <2>6, <2>7
       DEF SafeInv, WaitInv, NotStarted, StoppedQuiet, NoPanic
  <2> QED BY <2>8, <2>9 DEF SafeInv
<1>6. CASE CloseWriters
  <2>1. k \in 1..Len(Stages) /\ Stages[k] = "kafka" /\ mpc \in {"stop", "rollback"}
    BY <1>6, StagesType DEF CloseWriters, Stopping, TypeOK, IndexOK
  <2>2. k' = k - 1 /\ UNCHANGED <<mpc, pc, panicked, closed>> /\ ~waiting'
    BY <1>6 DEF CloseWriters
  <2>3. Exited(Goroutines[Stages[k]])
    BY <1>6, <2>1, GoroutineSets DEF CloseWriters
  <2> QED BY <2>1, <2>2, <2>3, StopReturns
<1>7. CASE CloseCapturer
  <2>1. /\ mpc' = "closing" /\ k = 0 /\ mpc \in {"stop", "rollback"}
        /\ UNCHANGED <<k, waiting, closed, panicked, pc>>
    BY <1>7 DEF CloseCapturer
  <2>2. \A i \in 1..Len(Stages) : StoppedAt(i) /\ StoppedAt(i)'
    BY <2>1 DEF StoppedAt
  <2>3. \A gs : Exited(gs)' <=> Exited(gs)
    BY <2>1 DEF Exited
  <2>4. ClosedInv'
    BY <2>1, <2>2, <2>3 DEF SafeInv, ClosedInv
  <2>5. NotStarted' /\ StoppedQuiet' /\ NoPanic'
    BY <2>1, <2>2, <2>3 DEF SafeInv, NotStarted, StoppedQuiet, NoPanic
  <2>6. ~waiting
    BY <2>1 DEF SafeInv, WaitInv
  <2> QED BY <2>1, <2>4, <2>5, <2>6 DEF SafeInv, WaitInv
<1>8. CASE MainExit
  <2>1. /\ mpc = "closing" /\ mpc' = "exited" /\ UNCHANGED <<k, waiting, closed, panicked>>
        /\ pc' = [g \in Procs |-> "exit"]
    BY <1>8 DEF MainExit
  <2>2. \A i : StoppedAt(i)'
    BY <2>1 DEF StoppedAt
  <2>3. ASSUME NEW gs \in SUBSET Procs PROVE Exited(gs)'
    BY <2>1 DEF Exited
  <2>4. NotStarted' /\ StoppedQuiet' /\ NoPanic' /\ WaitInv'
    BY <2>1, <2>2, <2>3, StagesType, GoroutinesInProcs
       DEF SafeInv, NotStarted, StoppedQuiet, NoPanic, WaitInv
  <2>5. ClosedInv'
    BY <2>1, <2>2, <2>3 DEF SafeInv, ClosedInv
  <2> QED BY <2>4, <2>5 DEF SafeInv
<1>9. ~(StartStage \/ StartFails \/ Running \/ BeginShutdown)
  BY DEF StartStage, StartFails, Running, BeginShutdown
<1> QED BY <1>1, <1>2, <1>3, <1>4, <1>5, <1>6, <1>7, <1>8, <1>9 DEF Main

(* SafeInv is inductive relative to TypeOK.                                *)
THEOREM Safety == Spec => []SafeInv
<1>1. Init => SafeInv
  BY SafeInit
<1>2. TypeOK /\ SafeInv /\ [Next]_vars => SafeInv'
  <2> SUFFICES ASSUME TypeOK, SafeInv, [Next]_vars PROVE SafeInv'
    OBVIOUS
  <2>1. CASE Main
    <3>1. CASE mpc \in {"stop", "rollback", "closing"}
      BY <2>1, <3>1, SafeStop
    <3>2. CASE mpc \notin {"stop", "rollback", "closing"}
      <4>1. StartStage \/ StartFails \/ Running \/ BeginShutdown
        BY <2>1, <3>2 DEF Main, StopDecoder, StopSplitter, StopReassembler, CloseReassembler,
           StopKafka, CloseWriters, StopDispatcher, StopMetrics, Stopping, CloseCapturer, MainExit
      <4> QED BY <4>1, SafeStart, SafeRun
    <3> QED BY <3>1, <3>2
  <2>2. CASE Signal
    BY <2>2, QuietStep DEF Signal, mainVars, dataVars
  <2>3. CASE UNCHANGED vars
    BY <2>3, QuietStep DEF vars, mainVars, dataVars
  <2>4. CASE \/ \E q \in Queues : Capture(q)
             \/ CloseOutput
             \/ \E w \in DecodeWorkers : Decoder(w)
             \/ Splitter \/ Reassembler
             \/ Dispatch("tcpLoop", "str") \/ Dispatch("udpLoop", "udp")
             \/ \E w \in KafkaWorkers : Kafka(w)
    BY <2>4, SafeCapture, SafeCloseOutput, SafeDecoder, SafeSplitter, SafeReassembler,
       SafeDispatch, SafeKafka
  <2> QED BY <2>1, <2>2, <2>3, <2>4 DEF Next
<1> QED BY <1>1, <1>2, TypeCorrect, PTL DEF Spec

(* No send on a closed channel and no second close of one, in any          *)
(* interleaving of main's Start and Stop calls with the goroutines.        *)
THEOREM PanicFree == Spec => []NoPanic
BY Safety, PTL DEF SafeInv

(* Once a stage's Stop has returned, none of its goroutines runs.          *)
THEOREM StopKeepsContract == Spec => []StopContract
<1>1. SafeInv => StopContract
  BY DEF SafeInv, StoppedQuiet, StoppedAt, StopContract
<1> QED BY <1>1, Safety, PTL

-----------------------------------------------------------------------------
(* A packet is always in exactly one place, and the pipeline implements    *)
(* Delivery.                                                               *)
HIDE DEF Procs, Singles, Loops, Chans

(* The packets in the elements of a channel.                               *)
Carried(q) == UNION {q[j] : j \in 1..Len(q)}

(* No packet is in two elements of a channel.                              *)
Once(q) == \A i, j \in 1..Len(q) : i # j => q[i] \cap q[j] = {}

(* The places a packet can be in, and the packets that are there.          *)
Spots ==
  {<<"chan", c>> : c \in Chans} \cup {<<"held", g>> : g \in Procs}
    \cup {<<"dropped", "pkt">>, <<"dropped", "str">>, <<"wire", "-">>, <<"buf", "-">>,
          <<"discarded", "-">>, <<"published", "-">>}

Contents(x) ==
  CASE x[1] = "chan"      -> Carried(chan[x[2]])
    [] x[1] = "held"      -> held[x[2]]
    [] x[1] = "dropped"   -> dropped[x[2]]
    [] x[1] = "wire"      -> wire
    [] x[1] = "buf"       -> buf
    [] x[1] = "discarded" -> discarded
    [] x[1] = "published" -> published

(* Every packet is in one of them, and in no other.                        *)
Located ==
  \A p \in Packets : \E x \in Spots : \A y \in Spots : p \in Contents(y) <=> y = x

NoRepeat == \A c \in Chans : Once(chan[c])

(* A goroutine that is about to receive holds nothing.                     *)
HeldInv == \A g \in Procs : pc[g] \in {"idle", "recv"} => held[g] = {}

(* An event is about one packet.                                           *)
EventInv ==
  /\ \A j \in 1..Len(chan["ev"]) : \E p \in Packets : chan["ev"][j] = {p}
  /\ \A w \in KafkaWorkers : pc[w] = "send" => \E p \in Packets : held[w] = {p}

(* The writers are closed after the workers have ended, for good.          *)
WriterInv == writersClosed => mpc \notin {"start", "run"} /\ Exited(KafkaWorkers)

(* The inductive invariant behind Conservation and the refinement.         *)
MoveInv == Located /\ NoRepeat /\ HeldInv /\ EventInv /\ WriterInv

-----------------------------------------------------------------------------
(* Channels.                                                               *)

LEMMA CarriedAppend ==
  ASSUME NEW q \in Seq(SUBSET Packets), NEW m \in SUBSET Packets
  PROVE  /\ Carried(Append(q, m)) = Carried(q) \cup m
         /\ Once(q) /\ Carried(q) \cap m = {} => Once(Append(q, m))
<1>1. /\ Len(Append(q, m)) = Len(q) + 1 /\ Len(q) \in Nat
      /\ \A j \in 1..Len(q) : Append(q, m)[j] = q[j]
      /\ Append(q, m)[Len(q) + 1] = m
  OBVIOUS
<1>2. \A p : p \in Carried(Append(q, m)) <=> p \in Carried(q) \/ p \in m
  <2> TAKE p
  <2>1. p \in Carried(Append(q, m)) <=> \E j \in 1..Len(q) + 1 : p \in Append(q, m)[j]
    BY <1>1 DEF Carried
  <2>2. p \in Carried(q) <=> \E j \in 1..Len(q) : p \in q[j]
    BY DEF Carried
  <2> QED BY <1>1, <2>1, <2>2
<1>3. ASSUME Once(q), Carried(q) \cap m = {},
             NEW i \in 1..Len(q) + 1, NEW j \in 1..Len(q) + 1, i # j
      PROVE  Append(q, m)[i] \cap Append(q, m)[j] = {}
  <2>1. \A l \in 1..Len(q) : q[l] \subseteq Carried(q)
    BY DEF Carried
  <2>2. CASE i \in 1..Len(q) /\ j \in 1..Len(q)
    BY <1>1, <1>3, <2>2 DEF Once
  <2>3. CASE i \in 1..Len(q) /\ j = Len(q) + 1
    BY <1>1, <1>3, <2>1, <2>3
  <2>4. CASE j \in 1..Len(q) /\ i = Len(q) + 1
    BY <1>1, <1>3, <2>1, <2>4
  <2> QED BY <1>1, <1>3, <2>2, <2>3, <2>4
<1>4. Once(q) /\ Carried(q) \cap m = {} => Once(Append(q, m))
  BY <1>1, <1>3 DEF Once
<1> QED BY <1>2, <1>4

LEMMA CarriedTail ==
  ASSUME NEW q \in Seq(SUBSET Packets), q # << >>, Once(q)
  PROVE  /\ Carried(Tail(q)) = Carried(q) \ Head(q)
         /\ Head(q) \subseteq Carried(q)
         /\ Once(Tail(q))
<1>1. /\ Len(Tail(q)) = Len(q) - 1 /\ Len(q) \in Nat /\ Len(q) > 0 /\ Head(q) = q[1]
      /\ \A j \in 1..Len(q) - 1 : Tail(q)[j] = q[j + 1]
  OBVIOUS
<1>2. \A p : p \in Carried(q) <=> \E j \in 1..Len(q) : p \in q[j]
  BY DEF Carried
<1>3. \A p : p \in Carried(Tail(q)) <=> \E j \in 1..Len(q) - 1 : p \in q[j + 1]
  BY <1>1 DEF Carried
<1>4. ASSUME NEW p \in Carried(Tail(q)) PROVE p \in Carried(q) /\ p \notin Head(q)
  <2>1. PICK j \in 1..Len(q) - 1 : p \in q[j + 1]
    BY <1>3, <1>4
  <2>2. j + 1 \in 1..Len(q) /\ 1 \in 1..Len(q) /\ j + 1 # 1
    BY <1>1
  <2> QED BY <1>1, <1>2, <2>1, <2>2 DEF Once
<1>5. ASSUME NEW p \in Carried(q), p \notin Head(q) PROVE p \in Carried(Tail(q))
  <2>1. PICK j \in 1..Len(q) : p \in q[j]
    BY <1>2, <1>5
  <2>2. j # 1
    BY <1>1, <1>5, <2>1
  <2>3. j - 1 \in 1..Len(q) - 1 /\ (j - 1) + 1 = j
    BY <1>1, <2>2
  <2> QED BY <1>3, <2>1, <2>3
<1>6. Head(q) \subseteq Carried(q)
  BY <1>1, <1>2
<1>7. Once(Tail(q))
  <2> SUFFICES ASSUME NEW i \in 1..Len(q) - 1, NEW j \in 1..Len(q) - 1, i # j
               PROVE  Tail(q)[i] \cap Tail(q)[j] = {}
    BY <1>1 DEF Once
  <2>1. i + 1 \in 1..Len(q) /\ j + 1 \in 1..Len(q) /\ i + 1 # j + 1
    BY <1>1
  <2> QED BY <1>1, <2>1 DEF Once
<1> QED BY <1>4, <1>5, <1>6, <1>7

LEMMA CarriedTrySend ==
  ASSUME NEW q \in Seq(SUBSET Packets), NEW m \in SUBSET Packets,
         Once(q), Carried(q) \cap m = {}
  PROVE  /\ Carried(TrySend(q, m)) = Carried(q) \cup (IF Len(q) < ChannelBuffer THEN m ELSE {})
         /\ Once(TrySend(q, m)) /\ TrySend(q, m) \in Seq(SUBSET Packets)
BY CarriedAppend DEF TrySend

LEMMA CarriedTrySendData ==
  ASSUME NEW q \in Seq(SUBSET Packets), NEW m \in SUBSET Packets,
         Once(q), Carried(q) \cap m = {}
  PROVE  /\ Carried(TrySendData(q, m)) = Carried(q) \cup (IF Len(q) < ChannelBuffer THEN m ELSE {})
         /\ Once(TrySendData(q, m)) /\ TrySendData(q, m) \in Seq(SUBSET Packets)
BY CarriedTrySend DEF TrySendData

(* ReassemblyComplete: what does not overflow is in the channel.           *)
LEMMA CarriedComplete ==
  ASSUME NEW q \in Seq(SUBSET Packets), NEW c \in SUBSET Packets, NEW s \in SUBSET Packets,
         Once(q), Carried(q) \cap c = {}, Carried(q) \cap s = {}, c \cap s = {}
  PROVE  /\ Carried(AfterComplete(q, c, s)) = Carried(q) \cup ((c \cup s) \ Overflow(q, c, s))
         /\ Once(AfterComplete(q, c, s))
         /\ Overflow(q, c, s) \subseteq c \cup s
<1> DEFINE q1 == TrySendData(q, c)
           q2 == TrySendData(q1, s)
<1>1. /\ Carried(q1) = Carried(q) \cup (IF Len(q) < ChannelBuffer THEN c ELSE {})
      /\ Once(q1) /\ q1 \in Seq(SUBSET Packets)
  BY CarriedTrySendData
<1>2. Carried(q1) \cap s = {}
  <2> HIDE DEF q1
  <2> QED BY <1>1
<1>3. /\ Carried(q2) = Carried(q1) \cup (IF Len(q1) < ChannelBuffer THEN s ELSE {})
      /\ Once(q2) /\ q2 \in Seq(SUBSET Packets)
  <2> HIDE DEF q1
  <2> QED BY <1>1, <1>2, CarriedTrySendData
<1>4. Carried(TrySend(q2, {})) = Carried(q2) /\ Once(TrySend(q2, {}))
  <2> HIDE DEF q2
  <2> QED BY <1>3, CarriedTrySend
<1>5. /\ AfterComplete(q, c, s) = TrySend(q2, {})
      /\ Overflow(q, c, s) = (IF Len(q) < ChannelBuffer THEN {} ELSE c)
                               \cup (IF Len(q1) < ChannelBuffer THEN {} ELSE s)
  BY DEF AfterComplete, Overflow
<1> HIDE DEF q1, q2
<1> QED BY <1>1, <1>3, <1>4, <1>5

-----------------------------------------------------------------------------
(* Moving packets from place to place.                                     *)

LEMMA SpotContents ==
  /\ \A c \in Chans : <<"chan", c>> \in Spots /\ Contents(<<"chan", c>>) = Carried(chan[c])
  /\ \A g \in Procs : <<"held", g>> \in Spots /\ Contents(<<"held", g>>) = held[g]
  /\ \A d \in {"pkt", "str"} : <<"dropped", d>> \in Spots /\ Contents(<<"dropped", d>>) = dropped[d]
  /\ <<"wire", "-">> \in Spots /\ Contents(<<"wire", "-">>) = wire
  /\ <<"buf", "-">> \in Spots /\ Contents(<<"buf", "-">>) = buf
  /\ <<"discarded", "-">> \in Spots /\ Contents(<<"discarded", "-">>) = discarded
  /\ <<"published", "-">> \in Spots /\ Contents(<<"published", "-">>) = published
BY DEF Spots, Contents

(* Within the places X packets may change places, each ending in one.      *)
LEMMA Redistribute ==
  ASSUME Located, NEW X \in SUBSET Spots,
         \A z \in Spots \ X : Contents(z)' = Contents(z),
         \A p \in Packets : \A x \in X : p \in Contents(x) =>
            \E y \in X : \A z \in X : p \in Contents(z)' <=> z = y,
         \A p \in Packets : \A x \in X : p \in Contents(x)' => \E y \in X : p \in Contents(y)
  PROVE  Located'
<1> SUFFICES ASSUME NEW p \in Packets
             PROVE  \E x \in Spots : \A y \in Spots : p \in Contents(y)' <=> y = x
  BY DEF Located
<1>1. PICK x \in Spots : \A y \in Spots : p \in Contents(y) <=> y = x
  BY DEF Located
<1>2. CASE x \in X
  <2>1. PICK y \in X : \A z \in X : p \in Contents(z)' <=> z = y
    BY <1>1, <1>2
  <2>2. \A z \in Spots \ X : p \notin Contents(z)'
    BY <1>1, <1>2
  <2> QED BY <2>1, <2>2
<1>3. CASE x \notin X
  <2>1. \A z \in X : p \notin Contents(z)'
    BY <1>1, <1>3
  <2> QED BY <1>1, <1>3, <2>1
<1> QED BY <1>2, <1>3

(* The packets m go from x to y.                                           *)
LEMMA Move ==
  ASSUME Located, NEW x \in Spots, NEW y \in Spots, x # y, NEW m, m \subseteq Contents(x),
         Contents(x)' = Contents(x) \ m, Contents(y)' = Contents(y) \cup m,
         \A z \in Spots \ {x, y} : Contents(z)' = Contents(z)
  PROVE  Located'
<1> DEFINE X == {x, y}
<1>1. ASSUME NEW p \in Packets, NEW u \in X, p \in Contents(u)
      PROVE  \E v \in X : \A z \in X : p \in Contents(z)' <=> z = v
  <2>1. ~(p \in Contents(x) /\ p \in Contents(y))
    BY DEF Located
  <2> QED BY <1>1, <2>1
<1>2. ASSUME NEW p \in Packets, NEW u \in X, p \in Contents(u)'
      PROVE  \E v \in X : p \in Contents(v)
  BY <1>2
<1>3. X \in SUBSET Spots /\ \A z \in Spots \ X : Contents(z)' = Contents(z)
  OBVIOUS
<1> HIDE DEF X
<1> QED BY <1>1, <1>2, <1>3, Redistribute

LEMMA Stay ==
  ASSUME Located, \A z \in Spots : Contents(z)' = Contents(z)
  PROVE  Located'
BY DEF Located

LEMMA Apart ==
  ASSUME Located, NEW x \in Spots, NEW y \in Spots, x # y, NEW p \in Packets
  PROVE  ~(p \in Contents(x) /\ p \in Contents(y))
BY DEF Located

(* Of the channels only c changes, of the goroutines only g, and so on.    *)
LEMMA Frame ==
  ASSUME NEW c, NEW g, NEW d,
         \A b \in Chans : b # c => chan'[b] = chan[b],
         \A h \in Procs : h # g => held'[h] = held[h],
         \A b \in {"pkt", "str"} : b # d => dropped'[b] = dropped[b],
         NEW z \in Spots, z # <<"chan", c>>, z # <<"held", g>>, z # <<"dropped", d>>,
         z = <<"wire", "-">> => wire' = wire,
         z = <<"buf", "-">> => buf' = buf,
         z = <<"discarded", "-">> => discarded' = discarded,
         z = <<"published", "-">> => published' = published
  PROVE  Contents(z)' = Contents(z)
<1>1. ASSUME NEW b \in Chans, z = <<"chan", b>> PROVE Contents(z)' = Contents(z)
  BY <1>1 DEF Contents, Carried
<1>2. ASSUME NEW h \in Procs, z = <<"held", h>> PROVE Contents(z)' = Contents(z)
  BY <1>2 DEF Contents
<1>3. ASSUME NEW b \in {"pkt", "str"}, z = <<"dropped", b>> PROVE Contents(z)' = Contents(z)
  BY <1>3 DEF Contents
<1>4. CASE z = <<"wire", "-">>
  BY <1>4 DEF Contents
<1>5. CASE z = <<"buf", "-">>
  BY <1>5 DEF Contents
<1>6. CASE z = <<"discarded", "-">>
  BY <1>6 DEF Contents
<1>7. CASE z = <<"published", "-">>
  BY <1>7 DEF Contents
<1> QED BY <1>1, <1>2, <1>3, <1>4, <1>5, <1>6, <1>7 DEF Spots

(* A goroutine receives the first element of c, keeps e of it and discards *)
(* the rest.                                                               *)
LEMMA RecvMoves ==
  ASSUME TypeOK, MoveInv, NEW g \in Procs, NEW c \in Chans, pc[g] = "recv", Recv(c),
         NEW e \in SUBSET Head(chan[c]),
         held' = [held EXCEPT ![g] = e],
         discarded' = discarded \cup (Head(chan[c]) \ e),
         UNCHANGED <<buf, wire, dropped, published>>
  PROVE  Located' /\ NoRepeat'
<1> DEFINE q == chan[c]
           X == {<<"chan", c>>, <<"held", g>>, <<"discarded", "-">>}
<1>1. q \in Seq(SUBSET Packets) /\ q # << >> /\ Once(q)
  BY DEF TypeOK, ChanOK, Recv, Readable, MoveInv, NoRepeat
<1>2. /\ Carried(Tail(q)) = Carried(q) \ Head(q) /\ Head(q) \subseteq Carried(q) /\ Once(Tail(q))
  BY <1>1, CarriedTail
<1>3. /\ chan' = [chan EXCEPT ![c] = Tail(q)] /\ chan \in [Chans -> Seq(SUBSET Packets)]
      /\ held \in [Procs -> SUBSET Packets] /\ held[g] = {}
  BY DEF TypeOK, ChanOK, Recv, MoveInv, HeldInv
<1>4. NoRepeat'
  BY <1>2, <1>3 DEF MoveInv, NoRepeat
<1>5. /\ Contents(<<"chan", c>>) = Carried(q) /\ Contents(<<"chan", c>>)' = Carried(q) \ Head(q)
      /\ Contents(<<"held", g>>) = {} /\ Contents(<<"held", g>>)' = e
      /\ Contents(<<"discarded", "-">>) = discarded /\ Contents(<<"discarded", "-">>)' = discarded'
  BY <1>2, <1>3 DEF Contents
<1>6. X \in SUBSET Spots
  BY SpotContents
<1>7. \A z \in Spots \ X : Contents(z)' = Contents(z)
  <2>1. /\ \A b \in Chans : b # c => chan'[b] = chan[b]
        /\ \A h \in Procs : h # g => held'[h] = held[h]
        /\ \A b \in {"pkt", "str"} : b # "none" => dropped'[b] = dropped[b]
    BY <1>3
  <2> SUFFICES ASSUME NEW z \in Spots, z \notin X PROVE Contents(z)' = Contents(z)
    OBVIOUS
  <2>2. /\ z # <<"chan", c>> /\ z # <<"held", g>> /\ z # <<"dropped", "none">>
        /\ z # <<"discarded", "-">>
    BY DEF Spots
  <2> HIDE DEF X
  <2> QED BY <2>1, <2>2, Frame
<1>8. \A p \in Packets : ~(p \in Carried(q) /\ p \in discarded)
  BY <1>5, <1>6, Apart DEF MoveInv
<1>9. \A p \in Packets : \A x \in X : p \in Contents(x) =>
        \E y \in X : \A z \in X : p \in Contents(z)' <=> z = y
  <2> SUFFICES ASSUME NEW p \in Packets, p \in Carried(q) \/ p \in discarded
               PROVE  \E y \in X : \A z \in X : p \in Contents(z)' <=> z = y
    BY <1>5
  <2> DEFINE y == IF p \notin Carried(q) THEN <<"discarded", "-">>
                  ELSE IF p \notin Head(q) THEN <<"chan", c>>
                  ELSE IF p \in e THEN <<"held", g>> ELSE <<"discarded", "-">>
  <2>1. y \in X /\ \A z \in X : p \in Contents(z)' <=> z = y
    BY <1>2, <1>5, <1>8
  <2> QED BY <2>1
<1>10. \A p \in Packets : \A x \in X : p \in Contents(x)' => \E y \in X : p \in Contents(y)
  BY <1>2, <1>5
<1> HIDE DEF X
<1>11. Located'
  BY <1>6, <1>7, <1>9, <1>10, Redistribute DEF MoveInv
<1> QED BY <1>4, <1>11

(* A goroutine sends m of what it holds on c.                              *)
LEMMA SendMoves ==
  ASSUME TypeOK, MoveInv, NEW g \in Procs, NEW c \in Chans, NEW m \in SUBSET held[g],
         chan' = [chan EXCEPT ![c] = Append(@, m)],
         held' = [held EXCEPT ![g] = @ \ m],
         UNCHANGED <<buf, wire, dropped, discarded, published>>
  PROVE  Located' /\ NoRepeat'
<1> DEFINE q == chan[c]
<1>1. /\ q \in Seq(SUBSET Packets) /\ Once(q) /\ m \in SUBSET Packets
      /\ chan \in [Chans -> Seq(SUBSET Packets)] /\ held \in [Procs -> SUBSET Packets]
  BY DEF TypeOK, ChanOK, MoveInv, NoRepeat
<1>2. /\ <<"chan", c>> \in Spots /\ <<"held", g>> \in Spots /\ <<"held", g>> # <<"chan", c>>
      /\ Contents(<<"chan", c>>) = Carried(q) /\ Contents(<<"held", g>>) = held[g]
  BY SpotContents
<1>3. Carried(q) \cap m = {}
  BY <1>1, <1>2, Apart DEF MoveInv
<1>4. Carried(Append(q, m)) = Carried(q) \cup m /\ Once(Append(q, m))
  BY <1>1, <1>3, CarriedAppend
<1>5. NoRepeat'
  BY <1>1, <1>4 DEF MoveInv, NoRepeat
<1>6. /\ Contents(<<"chan", c>>)' = Carried(q) \cup m
      /\ Contents(<<"held", g>>)' = held[g] \ m
  BY <1>1, <1>4 DEF Contents
<1>7. \A z \in Spots \ {<<"held", g>>, <<"chan", c>>} : Contents(z)' = Contents(z)
  <2>1. /\ \A b \in Chans : b # c => chan'[b] = chan[b]
        /\ \A h \in Procs : h # g => held'[h] = held[h]
        /\ \A b \in {"pkt", "str"} : b # "none" => dropped'[b] = dropped[b]
    BY <1>1
  <2> SUFFICES ASSUME NEW z \in Spots, z # <<"held", g>>, z # <<"chan", c>>
               PROVE  Contents(z)' = Contents(z)
    OBVIOUS
  <2>2. z # <<"dropped", "none">>
    BY DEF Spots
  <2> QED BY <2>1, <2>2, Frame
<1>8. Located'
  <2> DEFINE x == <<"held", g>>
             y == <<"chan", c>>
  <2>1. /\ x \in Spots /\ y \in Spots /\ x # y /\ m \subseteq Contents(x)
        /\ Contents(x)' = Contents(x) \ m /\ Contents(y)' = Contents(y) \cup m
        /\ \A z \in Spots \ {x, y} : Contents(z)' = Contents(z)
    BY <1>2, <1>6, <1>7
  <2> HIDE DEF x, y
  <2> QED BY <2>1, Move DEF MoveInv
<1> QED BY <1>5, <1>8

(* What a goroutine holds is discarded, published or dropped.              *)
LEMMA EndMoves ==
  ASSUME TypeOK, MoveInv, NEW g \in Procs, held' = [held EXCEPT ![g] = {}],
         UNCHANGED <<chan, buf, wire>>,
         \/ discarded' = discarded \cup held[g] /\ UNCHANGED <<dropped, published>>
         \/ published' = published \cup held[g] /\ UNCHANGED <<dropped, discarded>>
         \/ /\ dropped' = [dropped EXCEPT !["pkt"] = @ \cup held[g]]
            /\ UNCHANGED <<discarded, published>>
  PROVE  Located' /\ NoRepeat'
<1>1. /\ held \in [Procs -> SUBSET Packets] /\ dropped \in [{"pkt", "str"} -> SUBSET Packets]
  BY DEF TypeOK
<1>2. NoRepeat'
  BY DEF MoveInv, NoRepeat
<1>3. PICK y \in Spots :
        /\ y # <<"held", g>> /\ Contents(y)' = Contents(y) \cup held[g]
        /\ \A z \in Spots : z # y /\ z # <<"held", g>> => Contents(z)' = Contents(z)
  <2>0. /\ \A b \in Chans : b # "none" => chan'[b] = chan[b]
        /\ \A h \in Procs : h # g => held'[h] = held[h]
    BY <1>1
  <2>1. \A z \in Spots : z # <<"chan", "none">> /\ z # <<"dropped", "none">>
    BY DEF Spots, Chans
  <2>2. CASE discarded' = discarded \cup held[g] /\ UNCHANGED <<dropped, published>>
    <3>1. \A b \in {"pkt", "str"} : b # "none" => dropped'[b] = dropped[b]
      BY <2>2
    <3>2. ASSUME NEW z \in Spots, z # <<"discarded", "-">>, z # <<"held", g>>
          PROVE  Contents(z)' = Contents(z)
      <4>1. z # <<"chan", "none">> /\ z # <<"dropped", "none">>
        BY <2>1
      <4> QED BY <2>0, <2>2, <3>1, <3>2, <4>1, Frame
    <3>3. /\ <<"discarded", "-">> \in Spots /\ <<"discarded", "-">> # <<"held", g>>
          /\ Contents(<<"discarded", "-">>)' = Contents(<<"discarded", "-">>) \cup held[g]
      BY <2>2 DEF Spots, Contents
    <3> QED BY <3>2, <3>3
  <2>3. CASE published' = published \cup held[g] /\ UNCHANGED <<dropped, discarded>>
    <3>1. \A b \in {"pkt", "str"} : b # "none" => dropped'[b] = dropped[b]
      BY <2>3
    <3>2. ASSUME NEW z \in Spots, z # <<"published", "-">>, z # <<"held", g>>
          PROVE  Contents(z)' = Contents(z)
      <4>1. z # <<"chan", "none">> /\ z # <<"dropped", "none">>
        BY <2>1
      <4> QED BY <2>0, <2>3, <3>1, <3>2, <4>1, Frame
    <3>3. /\ <<"published", "-">> \in Spots /\ <<"published", "-">> # <<"held", g>>
          /\ Contents(<<"published", "-">>)' = Contents(<<"published", "-">>) \cup held[g]
      BY <2>3 DEF Spots, Contents
    <3> QED BY <3>2, <3>3
  <2>4. CASE /\ dropped' = [dropped EXCEPT !["pkt"] = @ \cup held[g]]
             /\ UNCHANGED <<discarded, published>>
    <3>1. \A b \in {"pkt", "str"} : b # "pkt" => dropped'[b] = dropped[b]
      BY <1>1, <2>4
    <3>2. ASSUME NEW z \in Spots, z # <<"dropped", "pkt">>, z # <<"held", g>>
          PROVE  Contents(z)' = Contents(z)
      BY <2>0, <2>1, <2>4, <3>1, <3>2, Frame
    <3>3. /\ <<"dropped", "pkt">> \in Spots /\ <<"dropped", "pkt">> # <<"held", g>>
          /\ Contents(<<"dropped", "pkt">>)' = Contents(<<"dropped", "pkt">>) \cup held[g]
      BY <1>1, <2>4 DEF Spots, Contents
    <3> QED BY <3>2, <3>3
  <2> QED BY <2>2, <2>3, <2>4
<1> DEFINE x == <<"held", g>>
<1>4. /\ x \in Spots /\ x # y /\ Contents(x) = held[g] /\ Contents(x)' = held[g] \ held[g]
      /\ \A z \in Spots \ {x, y} : Contents(z)' = Contents(z)
  BY <1>1, <1>3 DEF Spots, Contents
<1> HIDE DEF x
<1>5. Located'
  BY <1>3, <1>4, Move DEF MoveInv
<1> QED BY <1>2, <1>5

(* A capture loop reads a packet.                                          *)
LEMMA CaptureMoves ==
  ASSUME TypeOK, MoveInv, NEW g \in Procs, pc[g] = "recv", NEW p \in wire,
         wire' = wire \ {p}, held' = [held EXCEPT ![g] = {p}],
         UNCHANGED <<chan, buf, dropped, discarded, published>>
  PROVE  Located' /\ NoRepeat'
<1>1. held \in [Procs -> SUBSET Packets] /\ held[g] = {}
  BY DEF TypeOK, MoveInv, HeldInv
<1>2. NoRepeat'
  BY DEF MoveInv, NoRepeat
<1> DEFINE m == {p}
           x == <<"wire", "-">>
           y == <<"held", g>>
<1>3. ASSUME NEW z \in Spots, z # x, z # y PROVE Contents(z)' = Contents(z)
  <2>1. /\ \A b \in Chans : b # "none" => chan'[b] = chan[b]
        /\ \A h \in Procs : h # g => held'[h] = held[h]
        /\ \A b \in {"pkt", "str"} : b # "none" => dropped'[b] = dropped[b]
    BY <1>1
  <2>2. z # <<"chan", "none">> /\ z # <<"dropped", "none">>
    BY DEF Spots, Chans
  <2> QED BY <1>3, <2>1, <2>2, Frame
<1>4. /\ x \in Spots /\ y \in Spots /\ x # y /\ m \subseteq Contents(x)
      /\ Contents(x)' = Contents(x) \ m /\ Contents(y)' = Contents(y) \cup m
      /\ \A z \in Spots \ {x, y} : Contents(z)' = Contents(z)
  BY <1>1, <1>3 DEF Spots, Contents
<1> HIDE DEF x, y, m
<1>5. Located'
  BY <1>4, Move DEF MoveInv
<1> QED BY <1>2, <1>5

(* The reassembler discards out of the packet it holds, adds new to its    *)
(* buffer and hands on what is not kept of it: the channel gets s and d is *)
(* dropped.                                                                *)
LEMMA AssembleMoves ==
  ASSUME TypeOK, Located,
         NEW out, NEW new, out \cup new \subseteq held["reassembler"], out \cap new = {},
         NEW s, NEW d, s \cap d = {}, s \cup d \subseteq buf \cup new,
         held' = [held EXCEPT !["reassembler"] = @ \ (out \cup new)],
         discarded' = discarded \cup out,
         buf' = (buf \cup new) \ (s \cup d),
         \A c \in Chans : c # "str" => chan'[c] = chan[c],
         Carried(chan["str"])' = Carried(chan["str"]) \cup s,
         dropped' = [dropped EXCEPT !["str"] = @ \cup d],
         UNCHANGED <<wire, published>>
  PROVE  Located'
<1> DEFINE r  == <<"held", "reassembler">>
           b  == <<"buf", "-">>
           c  == <<"chan", "str">>
           dr == <<"dropped", "str">>
           di == <<"discarded", "-">>
           X  == {r, b, c, dr, di}
<1>1. /\ held \in [Procs -> SUBSET Packets] /\ dropped \in [{"pkt", "str"} -> SUBSET Packets]
      /\ "reassembler" \in Procs /\ "str" \in Chans
  BY DEF TypeOK, Procs, Singles, Chans
<1>2. X \in SUBSET Spots
  BY <1>1 DEF Spots
<1>3. /\ Contents(r) = held["reassembler"] /\ Contents(b) = buf
      /\ Contents(c) = Carried(chan["str"]) /\ Contents(dr) = dropped["str"]
      /\ Contents(di) = discarded
  BY DEF Contents
<1>4. /\ Contents(r)' = Contents(r) \ (out \cup new)
      /\ Contents(b)' = (Contents(b) \cup new) \ (s \cup d)
      /\ Contents(c)' = Contents(c) \cup s
      /\ Contents(dr)' = Contents(dr) \cup d
      /\ Contents(di)' = Contents(di) \cup out
  BY <1>1 DEF Contents
<1>5. \A z \in Spots \ X : Contents(z)' = Contents(z)
  <2> SUFFICES ASSUME NEW z \in Spots, z \notin X PROVE Contents(z)' = Contents(z)
    OBVIOUS
  <2>1. /\ \A h \in Procs : h # "reassembler" => held'[h] = held[h]
        /\ \A e \in {"pkt", "str"} : e # "str" => dropped'[e] = dropped[e]
    BY <1>1
  <2>2. z # <<"held", "reassembler">> /\ z # <<"buf", "-">> /\ z # <<"chan", "str">>
        /\ z # <<"dropped", "str">> /\ z # <<"discarded", "-">>
    OBVIOUS
  <2> HIDE DEF X
  <2> QED BY <2>1, <2>2, Frame
<1>6. /\ r # b /\ r # c /\ r # dr /\ r # di /\ b # c /\ b # dr /\ b # di
      /\ c # dr /\ c # di /\ dr # di
  OBVIOUS
<1>7. out \cup new \subseteq Contents(r) /\ s \cup d \subseteq Contents(b) \cup new
  BY <1>3
<1> HIDE DEF r, b, c, dr, di
<1>8. ASSUME NEW p \in Packets, NEW x \in X, p \in Contents(x)
      PROVE  \E y \in X : \A z \in X : p \in Contents(z)' <=> z = y
  <2>1. \A z \in X : p \in Contents(z) <=> z = x
    BY <1>2, <1>8 DEF Located
  <2> DEFINE y == IF p \in out THEN di
                  ELSE IF p \in s THEN c
                  ELSE IF p \in d THEN dr
                  ELSE IF p \in new THEN b ELSE x
  <2>2. y \in X
    OBVIOUS
  <2>3. /\ p \in Contents(r) <=> x = r
        /\ p \in Contents(b) <=> x = b
        /\ p \in Contents(c) <=> x = c
        /\ p \in Contents(dr) <=> x = dr
        /\ p \in Contents(di) <=> x = di
    BY <2>1
  <2>4. /\ p \in Contents(r)' <=> r = y
        /\ p \in Contents(b)' <=> b = y
        /\ p \in Contents(c)' <=> c = y
        /\ p \in Contents(dr)' <=> dr = y
        /\ p \in Contents(di)' <=> di = y
    BY <1>4, <1>6, <1>7, <2>3
  <2> QED BY <2>2, <2>4
<1>9. ASSUME NEW p \in Packets, NEW x \in X, p \in Contents(x)'
      PROVE  \E y \in X : p \in Contents(y)
  BY <1>4, <1>7, <1>9
<1> HIDE DEF X
<1> QED BY <1>2, <1>5, <1>8, <1>9, Redistribute

-----------------------------------------------------------------------------
(* The actions.  By PanicFree no step sends on a closed channel.           *)

LEMMA KafkaWorkersApart ==
  /\ KafkaWorkers \subseteq Procs /\ Queues \subseteq Procs /\ DecodeWorkers \subseteq Procs
  /\ {"splitter", "reassembler", "closer", "tcpLoop", "udpLoop"} \subseteq Procs
  /\ \A g \in Queues \cup DecodeWorkers : g \notin KafkaWorkers
  /\ \A g \in {"splitter", "reassembler", "closer", "tcpLoop", "udpLoop"} : g \notin KafkaWorkers
BY ProcKinds DEF Procs, Singles, Loops

LEMMA ChanNames == {"pkt", "dec", "tcp", "udp", "str", "ev"} = Chans
BY DEF Chans

LEMMA DataStays ==
  ASSUME MoveInv, UNCHANGED <<held, chan, buf, wire, dropped, discarded, published>>
  PROVE  Located' /\ NoRepeat'
<1>1. \A z \in Spots : Contents(z)' = Contents(z)
  BY DEF Contents, Carried
<1>2. NoRepeat'
  BY DEF MoveInv, NoRepeat
<1> QED BY <1>1, <1>2, Stay DEF MoveInv

(* Only goroutine g moves.                                                 *)
LEMMA OneMoves ==
  ASSUME MoveInv, NEW g \in Procs,
         \A h \in Procs : h # g => pc'[h] = pc[h] /\ held'[h] = held[h],
         pc'[g] \in {"idle", "recv"} => held'[g] = {},
         UNCHANGED <<mpc, writersClosed>>,
         g \in KafkaWorkers => /\ pc[g] = "exit" => pc'[g] = "exit"
                               /\ pc[g] # "idle"
                               /\ pc'[g] = "send" => \E p \in Packets : held'[g] = {p},
         \A j \in 1..Len(chan'["ev"]) : \E p \in Packets : chan'["ev"][j] = {p}
  PROVE  HeldInv' /\ EventInv' /\ WriterInv'
<1>1. HeldInv'
  BY DEF MoveInv, HeldInv
<1>2. EventInv'
  BY KafkaWorkersApart DEF MoveInv, EventInv
<1>3. WriterInv'
  BY KafkaWorkersApart DEF MoveInv, WriterInv, Exited
<1> QED BY <1>1, <1>2, <1>3

LEMMA EventsStay ==
  ASSUME MoveInv, chan'["ev"] = chan["ev"]
  PROVE  \A j \in 1..Len(chan'["ev"]) : \E p \in Packets : chan'["ev"][j] = {p}
BY DEF MoveInv, EventInv

(* A goroutine waiting to receive ends.                                    *)
LEMMA ExitMoves ==
  ASSUME TypeOK, MoveInv, NEW g \in Procs, pc[g] = "recv", Exit(g),
         UNCHANGED <<mpc, writersClosed, held, chan, buf, wire, dropped, discarded, published>>
  PROVE  MoveInv'
<1>1. Located' /\ NoRepeat'
  BY DataStays
<1>2. /\ \A h \in Procs : h # g => pc'[h] = pc[h] /\ held'[h] = held[h]
      /\ pc'[g] = "exit"
  BY DEF TypeOK, Exit
<1>3. HeldInv' /\ EventInv' /\ WriterInv'
  BY <1>2, EventsStay, OneMoves
<1> QED BY <1>1, <1>3 DEF MoveInv

LEMMA MoveInit == Init => MoveInv
<1> SUFFICES ASSUME Init PROVE MoveInv
  OBVIOUS
<1>1. \A c \in Chans : Len(chan[c]) = 0
  BY DEF Init
<1>2. NoRepeat /\ EventInv
  <2>1. "ev" \in Chans
    BY ChanNames
  <2>2. \A w \in KafkaWorkers : pc[w] # "send"
    BY KafkaWorkersApart DEF Init
  <2> QED BY <1>1, <2>1, <2>2 DEF NoRepeat, EventInv, Once
<1>3. HeldInv /\ WriterInv
  BY DEF Init, HeldInv, WriterInv
<1>4. Located
  <2>1. /\ \A c \in Chans : Contents(<<"chan", c>>) = {}
        /\ \A g \in Procs : Contents(<<"held", g>>) = {}
        /\ \A d \in {"pkt", "str"} : Contents(<<"dropped", d>>) = {}
    BY <1>1 DEF Contents, Carried, Init
  <2>2. /\ Contents(<<"buf", "-">>) = {} /\ Contents(<<"discarded", "-">>) = {}
        /\ Contents(<<"published", "-">>) = {} /\ Contents(<<"wire", "-">>) = Packets
    BY DEF Contents, Init
  <2>3. \A p \in Packets : \A y \in Spots : p \in Contents(y) <=> y = <<"wire", "-">>
    BY <2>1, <2>2 DEF Spots
  <2> QED BY <2>3, SpotContents DEF Located
<1> QED BY <1>2, <1>3, <1>4 DEF MoveInv

LEMMA MoveCapture ==
  ASSUME TypeOK, MoveInv, ~panicked', NEW q \in Queues, Capture(q)
  PROVE  MoveInv'
<1> USE DEF mainVars, flags, asmVars, ends, dataVars
<1>0. /\ q \in Procs /\ q \notin KafkaWorkers /\ "pkt" \in Chans
      /\ held \in [Procs -> SUBSET Packets]
      /\ pc \in [Procs -> {"idle", "recv", "send", "exit"}]
      /\ chan \in [Chans -> Seq(SUBSET Packets)]
  BY KafkaWorkersApart, ChanNames DEF TypeOK, ChanOK
<1>1. CASE CaptureRecv(q)
  <2>1. PICK p \in wire : wire' = wire \ {p} /\ held' = [held EXCEPT ![q] = {p}]
    BY <1>1 DEF CaptureRecv
  <2>2. Located' /\ NoRepeat'
    BY <1>0, <1>1, <2>1, CaptureMoves DEF CaptureRecv
  <2>3. HeldInv' /\ EventInv' /\ WriterInv'
    BY <1>0, <1>1, <2>1, EventsStay, OneMoves DEF CaptureRecv
  <2> QED BY <2>2, <2>3 DEF MoveInv
<1>2. CASE CaptureDeliver(q)
  <2>1. /\ pc' = [pc EXCEPT ![q] = "recv"] /\ held' = [held EXCEPT ![q] = {}]
        /\ UNCHANGED <<mpc, writersClosed, buf, live, wire, discarded, published>>
    BY <1>2 DEF CaptureDeliver
  <2>2. Located' /\ NoRepeat' /\ chan'["ev"] = chan["ev"]
    <3>1. CASE Send("pkt", held[q]) /\ UNCHANGED dropped
      <4>1. chan' = [chan EXCEPT !["pkt"] = Append(@, held[q])]
        BY <3>1 DEF Send
      <4>2. held' = [held EXCEPT ![q] = @ \ held[q]]
        BY <1>0, <2>1
      <4>3. Located' /\ NoRepeat'
        BY <1>0, <2>1, <3>1, <4>1, <4>2, SendMoves
      <4> QED BY <1>0, <4>1, <4>3, ChanNames
    <3>2. CASE /\ dropped' = [dropped EXCEPT !["pkt"] = @ \cup held[q]]
               /\ UNCHANGED <<chan, panicked>>
      BY <1>0, <2>1, <3>2, EndMoves
    <3> QED BY <1>2, <3>1, <3>2 DEF CaptureDeliver
  <2>3. HeldInv' /\ EventInv' /\ WriterInv'
    BY <1>0, <2>1, <2>2, EventsStay, OneMoves
  <2> QED BY <2>2, <2>3 DEF MoveInv
<1>3. CASE CaptureExit(q) \/ CaptureError(q)
  BY <1>0, <1>3, ExitMoves DEF CaptureExit, CaptureError
<1> QED BY <1>1, <1>2, <1>3 DEF Capture

LEMMA MoveClose ==
  ASSUME TypeOK, MoveInv, CloseOutput
  PROVE  MoveInv'
BY ExitMoves, KafkaWorkersApart DEF CloseOutput, mainVars, asmVars, ends

LEMMA MoveLeave ==
  ASSUME TypeOK, MoveInv, NEW g \in Procs, NEW c, CtxExit(g) \/ InputClosed(g, c)
  PROVE  MoveInv'
BY ExitMoves DEF CtxExit, InputClosed, mainVars, asmVars, ends, dataVars

LEMMA MoveDecoder ==
  ASSUME TypeOK, MoveInv, ~panicked', NEW w \in DecodeWorkers, Decoder(w)
  PROVE  MoveInv'
<1> USE DEF mainVars, flags, asmVars, ends, dataVars
<1>0. /\ w \in Procs /\ w \notin KafkaWorkers /\ "pkt" \in Chans /\ "dec" \in Chans /\ "ev" \in Chans
      /\ held \in [Procs -> SUBSET Packets]
      /\ pc \in [Procs -> {"idle", "recv", "send", "exit"}]
      /\ chan \in [Chans -> Seq(SUBSET Packets)]
  BY KafkaWorkersApart, ChanNames DEF TypeOK, ChanOK
<1>1. CASE DecodeRecv(w)
  <2>1. /\ pc[w] = "recv" /\ Recv("pkt") /\ UNCHANGED <<mpc, writersClosed, buf, wire, dropped, published>>
        /\ held[w] = {}
    BY <1>0, <1>1 DEF DecodeRecv, MoveInv, HeldInv
  <2>2. chan'["ev"] = chan["ev"]
    BY <1>0, <2>1 DEF Recv
  <2> DEFINE m == Head(chan["pkt"])
  <2>3. CASE m \subseteq OtherPackets
    <3>1. discarded' = discarded \cup m /\ UNCHANGED <<pc, held>>
      BY <1>1, <2>3 DEF DecodeRecv
    <3>2. held' = [held EXCEPT ![w] = {}] /\ {} \in SUBSET m /\ discarded' = discarded \cup (m \ {})
      BY <1>0, <2>1, <3>1
    <3>3. Located' /\ NoRepeat'
      BY <1>0, <2>1, <3>2, RecvMoves
    <3>4. HeldInv' /\ EventInv' /\ WriterInv'
      BY <1>0, <2>1, <2>2, <3>1, EventsStay, OneMoves
    <3> QED BY <3>3, <3>4 DEF MoveInv
  <2>4. CASE ~(m \subseteq OtherPackets)
    <3>1. /\ pc' = [pc EXCEPT ![w] = "send"] /\ held' = [held EXCEPT ![w] = m]
          /\ UNCHANGED discarded
      BY <1>1, <2>4 DEF DecodeRecv
    <3>2. m \in SUBSET m /\ discarded' = discarded \cup (m \ m)
      BY <3>1
    <3>3. Located' /\ NoRepeat'
      BY <1>0, <2>1, <3>1, <3>2, RecvMoves
    <3>4. HeldInv' /\ EventInv' /\ WriterInv'
      BY <1>0, <2>1, <2>2, <3>1, EventsStay, OneMoves
    <3> QED BY <3>3, <3>4 DEF MoveInv
  <2> QED BY <2>3, <2>4
<1>2. CASE DecodeSend(w)
  <2>1. /\ pc' = [pc EXCEPT ![w] = "recv"] /\ held' = [held EXCEPT ![w] = {}]
        /\ UNCHANGED <<mpc, writersClosed, buf, wire, dropped, discarded, published>>
        /\ chan' = [chan EXCEPT !["dec"] = Append(@, held[w])]
    BY <1>2 DEF DecodeSend, Send
  <2>2. held' = [held EXCEPT ![w] = @ \ held[w]] /\ chan'["ev"] = chan["ev"]
    BY <1>0, <2>1
  <2>3. Located' /\ NoRepeat'
    BY <1>0, <2>1, <2>2, SendMoves
  <2>4. HeldInv' /\ EventInv' /\ WriterInv'
    BY <1>0, <2>1, <2>2, EventsStay, OneMoves
  <2> QED BY <2>3, <2>4 DEF MoveInv
<1>3. CASE DecodeAbort(w)
  <2>1. /\ pc' = [pc EXCEPT ![w] = "exit"] /\ held' = [held EXCEPT ![w] = {}]
        /\ discarded' = discarded \cup held[w]
        /\ UNCHANGED <<mpc, writersClosed, chan, buf, wire, dropped, published>>
    BY <1>3 DEF DecodeAbort, Exit
  <2>2. Located' /\ NoRepeat'
    BY <1>0, <2>1, EndMoves
  <2>3. HeldInv' /\ EventInv' /\ WriterInv'
    BY <1>0, <2>1, EventsStay, OneMoves
  <2> QED BY <2>2, <2>3 DEF MoveInv
<1> QED BY <1>0, <1>1, <1>2, <1>3, MoveLeave DEF Decoder

LEMMA MoveSplitter ==
  ASSUME TypeOK, MoveInv, ~panicked', Splitter
  PROVE  MoveInv'
<1> USE DEF mainVars, flags, asmVars, ends, dataVars
<1>0. /\ "splitter" \in Procs /\ "splitter" \notin KafkaWorkers
      /\ {"dec", "tcp", "udp", "ev"} \subseteq Chans
      /\ held \in [Procs -> SUBSET Packets]
      /\ pc \in [Procs -> {"idle", "recv", "send", "exit"}]
      /\ chan \in [Chans -> Seq(SUBSET Packets)]
  BY KafkaWorkersApart, ChanNames DEF TypeOK, ChanOK
<1>1. CASE SplitRecv
  <2> DEFINE g == "splitter"
             m == Head(chan["dec"])
  <2>1. /\ pc[g] = "recv" /\ Recv("dec") /\ pc' = [pc EXCEPT ![g] = "send"]
        /\ held' = [held EXCEPT ![g] = m]
        /\ UNCHANGED <<mpc, writersClosed, buf, wire, dropped, discarded, published>>
    BY <1>1 DEF SplitRecv
  <2>2. m \in SUBSET m /\ discarded' = discarded \cup (m \ m) /\ chan'["ev"] = chan["ev"]
    BY <1>0, <2>1 DEF Recv
  <2>3. Located' /\ NoRepeat'
    BY <1>0, <2>1, <2>2, RecvMoves
  <2>4. HeldInv' /\ EventInv' /\ WriterInv'
    BY <1>0, <2>1, <2>2, EventsStay, OneMoves
  <2> QED BY <2>3, <2>4 DEF MoveInv
<1>2. CASE SplitSend
  <2> DEFINE g == "splitter"
             c == IF held["splitter"] \subseteq TCPPackets THEN "tcp" ELSE "udp"
  <2>1. /\ pc' = [pc EXCEPT ![g] = "recv"] /\ held' = [held EXCEPT ![g] = {}]
        /\ UNCHANGED <<mpc, writersClosed, buf, wire, dropped, discarded, published>>
        /\ chan' = [chan EXCEPT ![c] = Append(@, held[g])]
    BY <1>2 DEF SplitSend, Send
  <2>2. c \in Chans /\ c # "ev"
    BY <1>0
  <2> HIDE DEF c
  <2>3. held' = [held EXCEPT ![g] = @ \ held[g]] /\ chan'["ev"] = chan["ev"]
    BY <1>0, <2>1, <2>2
  <2>4. Located' /\ NoRepeat'
    BY <1>0, <2>1, <2>2, <2>3, SendMoves
  <2>5. HeldInv' /\ EventInv' /\ WriterInv'
    BY <1>0, <2>1, <2>3, EventsStay, OneMoves
  <2> QED BY <2>4, <2>5 DEF MoveInv
<1>3. CASE SplitFinish
  BY <1>0, <1>3, ExitMoves DEF SplitFinish
<1> QED BY <1>1, <1>2, <1>3 DEF Splitter

(* What completing the stream does to the packets h it holds: s goes to    *)
(* the channel and d is dropped.                                           *)
LEMMA CompleteMoves ==
  ASSUME TypeOK, NoRepeat, ~panicked', NEW h \in SUBSET Packets, Carried(chan["str"]) \cap h = {},
         Complete(h)
  PROVE  \E s, d :
           /\ s \cap d = {} /\ s \cup d \subseteq h /\ buf' = h \ (s \cup d)
           /\ Carried(chan["str"])' = Carried(chan["str"]) \cup s
           /\ \A c \in Chans : c # "str" => chan'[c] = chan[c]
           /\ dropped' = [dropped EXCEPT !["str"] = @ \cup d]
           /\ NoRepeat'
<1> DEFINE q == chan["str"]
<1>0. /\ chan \in [Chans -> Seq(SUBSET Packets)] /\ q \in Seq(SUBSET Packets) /\ Once(q)
      /\ "str" \in Chans /\ dropped \in [{"pkt", "str"} -> SUBSET Packets]
  BY ChanNames DEF TypeOK, ChanOK, NoRepeat
<1>1. PICK c \in SUBSET h :
        /\ chan' = [chan EXCEPT !["str"] = AfterComplete(@, c, h \ c)]
        /\ dropped' = [dropped EXCEPT !["str"] = @ \cup Overflow(q, c, h \ c)]
  BY DEF Complete
<1> DEFINE t == h \ c
           d == Overflow(q, c, t)
           s == (c \cup t) \ d
<1>2. /\ c \in SUBSET Packets /\ t \in SUBSET Packets /\ c \cup t = h /\ c \cap t = {}
      /\ Carried(q) \cap c = {} /\ Carried(q) \cap t = {}
  OBVIOUS
<1>3. /\ chan' = [chan EXCEPT !["str"] = AfterComplete(q, c, t)]
      /\ dropped' = [dropped EXCEPT !["str"] = @ \cup d] /\ buf' = {}
  BY <1>0, <1>1 DEF Complete
<1> HIDE DEF t
<1>4. /\ Carried(AfterComplete(q, c, t)) = Carried(q) \cup s
      /\ Once(AfterComplete(q, c, t)) /\ d \subseteq c \cup t
  BY <1>0, <1>2, CarriedComplete
<1> HIDE DEF d
<1>5. /\ chan'["str"] = AfterComplete(q, c, t)
      /\ \A b \in Chans : b # "str" => chan'[b] = chan[b]
  BY <1>0, <1>3
<1>6. NoRepeat'
  BY <1>4, <1>5 DEF NoRepeat
<1>7. s \cap d = {} /\ s \cup d \subseteq h /\ buf' = h \ (s \cup d)
  BY <1>2, <1>3, <1>4
<1>8. Carried(chan["str"])' = Carried(chan["str"]) \cup s
  BY <1>4, <1>5
<1> HIDE DEF s
<1> QED BY <1>3, <1>5, <1>6, <1>7, <1>8

LEMMA FlushMoves ==
  ASSUME TypeOK, NoRepeat, ~panicked', NEW h \in SUBSET Packets, Carried(chan["str"]) \cap h = {},
         NEW e \in SUBSET h, FlushDirection(h, e)
  PROVE  \E s, d :
           /\ s \cap d = {} /\ s \cup d \subseteq h /\ buf' = h \ (s \cup d)
           /\ Carried(chan["str"])' = Carried(chan["str"]) \cup s
           /\ \A c \in Chans : c # "str" => chan'[c] = chan[c]
           /\ dropped' = [dropped EXCEPT !["str"] = @ \cup d]
           /\ NoRepeat'
<1> DEFINE q == chan["str"]
           s == IF Len(q) < ChannelBuffer THEN e ELSE {}
           d == IF Len(q) < ChannelBuffer THEN {} ELSE e
<1>0. /\ chan \in [Chans -> Seq(SUBSET Packets)] /\ q \in Seq(SUBSET Packets) /\ Once(q)
      /\ "str" \in Chans /\ dropped \in [{"pkt", "str"} -> SUBSET Packets]
  BY ChanNames DEF TypeOK, ChanOK, NoRepeat
<1>1. /\ chan' = [chan EXCEPT !["str"] = TrySend(q, e)]
      /\ dropped' = [dropped EXCEPT !["str"] = @ \cup d] /\ buf' = h \ e
  BY <1>0 DEF FlushDirection, Overflow
<1>2. Carried(TrySend(q, e)) = Carried(q) \cup s /\ Once(TrySend(q, e))
  BY <1>0, CarriedTrySend
<1>3. /\ chan'["str"] = TrySend(q, e)
      /\ \A b \in Chans : b # "str" => chan'[b] = chan[b]
  BY <1>0, <1>1
<1>4. NoRepeat'
  BY <1>2, <1>3 DEF NoRepeat
<1>5. s \cap d = {} /\ s \cup d = e
  OBVIOUS
<1>6. Carried(chan["str"])' = Carried(chan["str"]) \cup s
  BY <1>2, <1>3
<1> HIDE DEF s, d
<1> QED BY <1>1, <1>3, <1>4, <1>5, <1>6

(* The whole buffer is flushed, by the ticker or by Stop.                  *)
LEMMA FlushAllMoves ==
  ASSUME TypeOK, MoveInv, ~panicked', Complete(buf),
         UNCHANGED <<held, wire, discarded, published>>
  PROVE  Located' /\ NoRepeat' /\ chan'["ev"] = chan["ev"]
<1>0. /\ "reassembler" \in Procs /\ {"str", "ev"} \subseteq Chans /\ buf \in SUBSET Packets
      /\ held \in [Procs -> SUBSET Packets]
  BY KafkaWorkersApart, ChanNames DEF TypeOK
<1>1. Carried(chan["str"]) \cap buf = {}
  <2>1. /\ <<"chan", "str">> \in Spots /\ Contents(<<"chan", "str">>) = Carried(chan["str"])
        /\ <<"buf", "-">> \in Spots /\ Contents(<<"buf", "-">>) = buf
        /\ <<"chan", "str">> # <<"buf", "-">>
    BY <1>0, SpotContents
  <2> QED BY <1>0, <2>1, Apart DEF MoveInv
<1>2. PICK s, d :
        /\ s \cap d = {} /\ s \cup d \subseteq buf /\ buf' = buf \ (s \cup d)
        /\ Carried(chan["str"])' = Carried(chan["str"]) \cup s
        /\ \A c \in Chans : c # "str" => chan'[c] = chan[c]
        /\ dropped' = [dropped EXCEPT !["str"] = @ \cup d]
        /\ NoRepeat'
  BY <1>0, <1>1, CompleteMoves DEF MoveInv
<1> DEFINE out == {}
           new == {}
<1>3. /\ out \cup new \subseteq held["reassembler"] /\ out \cap new = {}
      /\ held' = [held EXCEPT !["reassembler"] = @ \ (out \cup new)]
      /\ discarded' = discarded \cup out
  BY <1>0
<1>4. /\ Located /\ UNCHANGED <<wire, published>>
      /\ s \cap d = {} /\ s \cup d \subseteq buf \cup new /\ buf' = (buf \cup new) \ (s \cup d)
  BY <1>2 DEF MoveInv
<1> HIDE DEF out, new
<1>5. Located'
  BY <1>2, <1>3, <1>4, AssembleMoves
<1> QED BY <1>0, <1>2, <1>5

LEMMA MoveReassembler ==
  ASSUME TypeOK, MoveInv, ~panicked', Reassembler
  PROVE  MoveInv'
<1> USE DEF mainVars, flags, asmVars, ends, dataVars
<1> DEFINE g == "reassembler"
<1>0. /\ g \in Procs /\ g \notin KafkaWorkers
      /\ {"tcp", "str", "ev"} \subseteq Chans
      /\ held \in [Procs -> SUBSET Packets] /\ buf \in SUBSET Packets
      /\ pc \in [Procs -> {"idle", "recv", "send", "exit"}]
      /\ chan \in [Chans -> Seq(SUBSET Packets)]
      /\ dropped \in [{"pkt", "str"} -> SUBSET Packets]
  BY KafkaWorkersApart, ChanNames DEF TypeOK, ChanOK
<1>1. CASE FeedRecv
  <2> DEFINE m == Head(chan["tcp"])
  <2>1. /\ pc[g] = "recv" /\ Recv("tcp") /\ pc' = [pc EXCEPT ![g] = "send"]
        /\ held' = [held EXCEPT ![g] = m]
        /\ UNCHANGED <<mpc, writersClosed, buf, wire, dropped, discarded, published>>
    BY <1>1 DEF FeedRecv
  <2>2. m \in SUBSET m /\ discarded' = discarded \cup (m \ m) /\ chan'["ev"] = chan["ev"]
    BY <1>0, <2>1 DEF Recv
  <2>3. Located' /\ NoRepeat'
    BY <1>0, <2>1, <2>2, RecvMoves
  <2>4. HeldInv' /\ EventInv' /\ WriterInv'
    BY <1>0, <2>1, <2>2, EventsStay, OneMoves
  <2> QED BY <2>3, <2>4 DEF MoveInv
<1>2. \A p \in Packets : ~(p \in Carried(chan["str"]) /\ p \in buf \cup held[g])
  <2>1. /\ <<"chan", "str">> \in Spots /\ Contents(<<"chan", "str">>) = Carried(chan["str"])
        /\ <<"buf", "-">> \in Spots /\ Contents(<<"buf", "-">>) = buf
        /\ <<"held", g>> \in Spots /\ Contents(<<"held", g>>) = held[g]
        /\ <<"chan", "str">> # <<"buf", "-">> /\ <<"chan", "str">> # <<"held", g>>
    BY <1>0, SpotContents
  <2> QED BY <2>1, Apart DEF MoveInv
<1>3. CASE FeedPacket
  <2>1. /\ pc' = [pc EXCEPT ![g] = "recv"] /\ held' = [held EXCEPT ![g] = {}]
        /\ UNCHANGED <<mpc, writersClosed, wire, published>>
    BY <1>3 DEF FeedPacket
  <2>2. PICK new \in {held[g], {}} :
          /\ discarded' = discarded \cup (held[g] \ new) /\ AssembleWithContext(buf \cup new)
    BY <1>3 DEF FeedPacket
  <2> DEFINE h == buf \cup new
             out == held[g] \ new
  <2>3. h \in SUBSET Packets /\ Carried(chan["str"]) \cap h = {}
    BY <1>0, <1>2
  <2>4. PICK s, d :
           /\ s \cap d = {} /\ s \cup d \subseteq h /\ buf' = h \ (s \cup d)
           /\ Carried(chan["str"])' = Carried(chan["str"]) \cup s
           /\ \A c \in Chans : c # "str" => chan'[c] = chan[c]
           /\ dropped' = [dropped EXCEPT !["str"] = @ \cup d]
           /\ NoRepeat'
    <3>1. CASE buf' = h /\ live' = TRUE /\ UNCHANGED <<chan, dropped, panicked>>
      <4>1. /\ {} \cap {} = {} /\ {} \cup {} \subseteq h /\ buf' = h \ ({} \cup {})
            /\ Carried(chan["str"])' = Carried(chan["str"]) \cup {}
            /\ \A c \in Chans : c # "str" => chan'[c] = chan[c]
            /\ dropped' = [dropped EXCEPT !["str"] = @ \cup {}]
            /\ NoRepeat'
        BY <1>0, <3>1 DEF MoveInv, NoRepeat
      <4> QED BY <4>1
    <3> HIDE DEF h
    <3>2. CASE \E c \in (SUBSET h) \ {{}} : FlushDirection(h, c)
      <4>1. PICK e \in SUBSET h : FlushDirection(h, e)
        BY <3>2
      <4> QED BY <2>3, <4>1, FlushMoves DEF MoveInv
    <3>3. CASE Complete(h)
      BY <2>3, <3>3, CompleteMoves DEF MoveInv
    <3> QED BY <2>2, <3>1, <3>2, <3>3 DEF AssembleWithContext, h
  <2>5. /\ out \cup new \subseteq held[g] /\ out \cap new = {}
        /\ held' = [held EXCEPT ![g] = @ \ (out \cup new)]
        /\ discarded' = discarded \cup out
    <3>1. out \cup new = held[g]
      BY <2>2
    <3> QED BY <1>0, <2>1, <2>2, <3>1
  <2> HIDE DEF out
  <2>6. Located'
    BY <2>1, <2>4, <2>5, AssembleMoves DEF MoveInv
  <2>7. HeldInv' /\ EventInv' /\ WriterInv'
    BY <1>0, <2>1, <2>4, EventsStay, OneMoves
  <2> QED BY <2>4, <2>6, <2>7 DEF MoveInv
<1>4. CASE FlushOlderThan
  <2>1. Complete(buf) /\ UNCHANGED <<mpc, writersClosed, pc, held, wire, discarded, published>>
    BY <1>4 DEF FlushOlderThan
  <2>2. Located' /\ NoRepeat' /\ chan'["ev"] = chan["ev"]
    BY <1>0, <1>2, <2>1, FlushAllMoves
  <2>3. HeldInv' /\ EventInv' /\ WriterInv'
    BY <2>1, <2>2 DEF MoveInv, HeldInv, EventInv, WriterInv, Exited
  <2> QED BY <2>2, <2>3 DEF MoveInv
<1> QED BY <1>0, <1>1, <1>3, <1>4, MoveLeave DEF Reassembler

LEMMA MoveDispatch ==
  ASSUME TypeOK, MoveInv, ~panicked', NEW l \in Loops, NEW c \in Chans, c # "ev", Dispatch(l, c)
  PROVE  MoveInv'
<1> USE DEF mainVars, flags, asmVars, ends, dataVars
<1>0. /\ l \in Procs /\ l \notin KafkaWorkers /\ "ev" \in Chans
      /\ held \in [Procs -> SUBSET Packets]
      /\ pc \in [Procs -> {"idle", "recv", "send", "exit"}]
      /\ chan \in [Chans -> Seq(SUBSET Packets)]
  BY KafkaWorkersApart, ChanNames DEF TypeOK, ChanOK, Loops
<1>1. CASE DispatchRecv(l, c)
  <2>1. /\ pc[l] = "recv" /\ Recv(c)
        /\ UNCHANGED <<mpc, writersClosed, buf, wire, dropped, published>>
    BY <1>1 DEF DispatchRecv
  <2>2. PICK e \in SUBSET Head(chan[c]) :
          /\ discarded' = discarded \cup (Head(chan[c]) \ e)
          /\ held' = [held EXCEPT ![l] = e]
          /\ pc' = [pc EXCEPT ![l] = IF e = {} THEN "recv" ELSE "send"]
    BY <1>1 DEF DispatchRecv
  <2>3. chan'["ev"] = chan["ev"]
    BY <1>0, <2>1 DEF Recv
  <2>4. Located' /\ NoRepeat'
    BY <1>0, <2>1, <2>2, RecvMoves
  <2>5. HeldInv' /\ EventInv' /\ WriterInv'
    BY <1>0, <2>1, <2>2, <2>3, EventsStay, OneMoves
  <2> QED BY <2>4, <2>5 DEF MoveInv
<1>2. CASE DispatchSend(l)
  <2>1. PICK p \in held[l] :
          /\ Send("ev", {p})
          /\ held' = [held EXCEPT ![l] = @ \ {p}]
          /\ pc' = [pc EXCEPT ![l] = IF held[l] = {p} THEN "recv" ELSE "send"]
    BY <1>2 DEF DispatchSend
  <2>2. UNCHANGED <<mpc, writersClosed, buf, wire, dropped, discarded, published>>
    BY <1>2 DEF DispatchSend
  <2> DEFINE m == {p}
  <2>3. /\ chan' = [chan EXCEPT !["ev"] = Append(@, m)] /\ m \in SUBSET held[l]
        /\ held' = [held EXCEPT ![l] = @ \ m]
    BY <2>1 DEF Send
  <2>4. Located' /\ NoRepeat'
    <3> HIDE DEF m
    <3> QED BY <1>0, <2>2, <2>3, SendMoves
  <2>5. \A j \in 1..Len(chan'["ev"]) : \E r \in Packets : chan'["ev"][j] = {r}
    <3>1. p \in Packets /\ m \in SUBSET Packets
      BY <1>0
    <3>2. /\ chan'["ev"] = Append(chan["ev"], m) /\ Len(chan'["ev"]) = Len(chan["ev"]) + 1
          /\ Len(chan["ev"]) \in Nat /\ chan'["ev"][Len(chan["ev"]) + 1] = m
          /\ \A j \in 1..Len(chan["ev"]) : chan'["ev"][j] = chan["ev"][j]
      <4> HIDE DEF m
      <4> QED BY <1>0, <2>3, <3>1
    <3>3. \A j \in 1..Len(chan["ev"]) : \E r \in Packets : chan["ev"][j] = {r}
      BY DEF MoveInv, EventInv
    <3>4. ASSUME NEW j \in 1..Len(chan'["ev"]) PROVE \E r \in Packets : chan'["ev"][j] = {r}
      <4>1. j \in 1..Len(chan["ev"]) \/ j = Len(chan["ev"]) + 1
        BY <3>2
      <4> QED BY <3>1, <3>2, <3>3, <4>1
    <3> QED BY <3>4
  <2>6. HeldInv' /\ EventInv' /\ WriterInv'
    <3>1. pc'[l] \in {"idle", "recv"} => held'[l] = {}
      BY <1>0, <2>1
    <3>2. \A h \in Procs : h # l => pc'[h] = pc[h] /\ held'[h] = held[h]
      BY <1>0, <2>1
    <3> QED BY <1>0, <2>2, <2>5, <3>1, <3>2, OneMoves
  <2> QED BY <2>4, <2>6 DEF MoveInv
<1>3. CASE DispatchAbort(l)
  <2>1. /\ pc' = [pc EXCEPT ![l] = "recv"] /\ held' = [held EXCEPT ![l] = {}]
        /\ discarded' = discarded \cup held[l]
        /\ UNCHANGED <<mpc, writersClosed, chan, buf, wire, dropped, published>>
    BY <1>3 DEF DispatchAbort
  <2>2. Located' /\ NoRepeat'
    BY <1>0, <2>1, EndMoves
  <2>3. HeldInv' /\ EventInv' /\ WriterInv'
    BY <1>0, <2>1, EventsStay, OneMoves
  <2> QED BY <2>2, <2>3 DEF MoveInv
<1> QED BY <1>0, <1>1, <1>2, <1>3, MoveLeave DEF Dispatch

LEMMA MoveKafka ==
  ASSUME TypeOK, MoveInv, ~panicked', NEW w \in KafkaWorkers, Kafka(w)
  PROVE  MoveInv'
<1> USE DEF mainVars, flags, asmVars, ends, dataVars
<1>0. /\ w \in Procs /\ "ev" \in Chans
      /\ held \in [Procs -> SUBSET Packets]
      /\ pc \in [Procs -> {"idle", "recv", "send", "exit"}]
      /\ chan \in [Chans -> Seq(SUBSET Packets)]
  BY KafkaWorkersApart, ChanNames DEF TypeOK, ChanOK
<1>1. CASE KafkaRecv(w)
  <2> DEFINE m == Head(chan["ev"])
  <2>1. /\ pc[w] = "recv" /\ Recv("ev") /\ pc' = [pc EXCEPT ![w] = "send"]
        /\ held' = [held EXCEPT ![w] = m]
        /\ UNCHANGED <<mpc, writersClosed, buf, wire, dropped, discarded, published>>
    BY <1>1 DEF KafkaRecv
  <2>2. m \in SUBSET m /\ discarded' = discarded \cup (m \ m)
    BY <2>1
  <2>3. Located' /\ NoRepeat'
    BY <1>0, <2>1, <2>2, RecvMoves
  <2>4. /\ Len(chan["ev"]) \in Nat /\ Len(chan["ev"]) > 0 /\ m = chan["ev"][1]
        /\ Len(chan'["ev"]) = Len(chan["ev"]) - 1
        /\ \A j \in 1..Len(chan["ev"]) - 1 : chan'["ev"][j] = chan["ev"][j + 1]
    BY <1>0, <2>1 DEF Recv, Readable
  <2>5. \A j \in 1..Len(chan["ev"]) : \E p \in Packets : chan["ev"][j] = {p}
    BY DEF MoveInv, EventInv
  <2>6. /\ \A j \in 1..Len(chan'["ev"]) : \E p \in Packets : chan'["ev"][j] = {p}
        /\ \E p \in Packets : m = {p}
    <3> HIDE DEF m
    <3> QED BY <2>4, <2>5, SMTT(40)
  <2>7. /\ \A h \in Procs : h # w => pc'[h] = pc[h] /\ held'[h] = held[h]
        /\ pc'[w] = "send" /\ \E p \in Packets : held'[w] = {p}
    <3> HIDE DEF m
    <3> QED BY <1>0, <2>1, <2>6
  <2>8. HeldInv' /\ EventInv' /\ WriterInv'
    BY <1>0, <2>1, <2>6, <2>7, OneMoves
  <2> QED BY <2>3, <2>8 DEF MoveInv
<1>2. CASE KafkaWrite(w)
  <2>1. /\ pc[w] = "send" /\ pc' = [pc EXCEPT ![w] = "recv"] /\ held' = [held EXCEPT ![w] = {}]
        /\ UNCHANGED <<mpc, writersClosed, chan, buf, wire, dropped>>
    BY <1>2 DEF KafkaWrite
  <2>2. Located' /\ NoRepeat'
    BY <1>0, <1>2, <2>1, EndMoves DEF KafkaWrite
  <2>3. HeldInv' /\ EventInv' /\ WriterInv'
    BY <1>0, <2>1, EventsStay, OneMoves
  <2> QED BY <2>2, <2>3 DEF MoveInv
<1> QED BY <1>0, <1>1, <1>2, MoveLeave DEF Kafka

LEMMA MoveMain ==
  ASSUME TypeOK, SafeInv, MoveInv, ~panicked', Main
  PROVE  MoveInv'
<1> USE DEF mainVars, flags, asmVars, ends, dataVars
<1>0. /\ pc \in [Procs -> {"idle", "recv", "send", "exit"}] /\ KafkaWorkers \subseteq Procs
      /\ HeldInv /\ EventInv /\ WriterInv
  BY KafkaWorkersApart DEF TypeOK, MoveInv
<1>1. CASE StartStage
  <2>1. /\ mpc = "start" /\ k \in 1..Len(Stages)
        /\ pc' = [g \in Procs |-> IF g \in Goroutines[Stages[k]] THEN "recv" ELSE pc[g]]
        /\ UNCHANGED <<mpc, writersClosed, held, chan, buf, wire, dropped, discarded, published>>
    BY <1>1, StagesType DEF StartStage, TypeOK, IndexOK
  <2>2. \A g \in Goroutines[Stages[k]] : pc[g] = "idle"
    BY <2>1 DEF SafeInv, NotStarted
  <2>3. Located' /\ NoRepeat'
    BY <2>1, DataStays
  <2>4. HeldInv'
    BY <1>0, <2>1, <2>2 DEF HeldInv
  <2>5. EventInv'
    BY <1>0, <2>1 DEF EventInv
  <2>6. WriterInv'
    BY <1>0, <2>1 DEF WriterInv
  <2> QED BY <2>3, <2>4, <2>5, <2>6 DEF MoveInv
<1>2. CASE MainExit
  <2>1. /\ mpc = "closing" /\ mpc' = "exited" /\ pc' = [g \in Procs |-> "exit"]
        /\ UNCHANGED <<writersClosed, held, chan, buf, wire, dropped, discarded, published>>
    BY <1>2 DEF MainExit
  <2>2. Located' /\ NoRepeat'
    BY <2>1, DataStays
  <2>3. HeldInv' /\ EventInv' /\ WriterInv'
    BY <1>0, <2>1 DEF HeldInv, EventInv, WriterInv, Exited
  <2> QED BY <2>2, <2>3 DEF MoveInv
<1>3. CASE StopReassembler
  <2>1. UNCHANGED <<mpc, writersClosed, pc, held, wire, discarded, published>>
    BY <1>3 DEF StopReassembler
  <2>2. Located' /\ NoRepeat' /\ chan'["ev"] = chan["ev"]
    BY <1>3, <2>1, FlushAllMoves, DataStays DEF StopReassembler
  <2>3. HeldInv' /\ EventInv' /\ WriterInv'
    BY <1>0, <2>1, <2>2 DEF HeldInv, EventInv, WriterInv, Exited
  <2> QED BY <2>2, <2>3 DEF MoveInv
<1>4. CASE CloseWriters
  <2>1. /\ mpc \in {"stop", "rollback"} /\ Exited(KafkaWorkers)
        /\ UNCHANGED <<mpc, pc, held, chan, buf, wire, dropped, discarded, published>>
    BY <1>4 DEF CloseWriters, Stopping
  <2>2. Located' /\ NoRepeat'
    BY <2>1, DataStays
  <2>3. HeldInv' /\ EventInv' /\ WriterInv'
    BY <1>0, <2>1 DEF HeldInv, EventInv, WriterInv, Exited
  <2> QED BY <2>2, <2>3 DEF MoveInv
<1>5. CASE \/ StartFails \/ Running \/ BeginShutdown \/ StopDecoder \/ StopSplitter
           \/ CloseReassembler \/ StopKafka \/ StopDispatcher \/ StopMetrics \/ CloseCapturer
  <2>1. /\ UNCHANGED <<pc, writersClosed, held, chan, buf, wire, dropped, discarded, published>>
        /\ mpc' \in {"start", "run"} => mpc \in {"start", "run"}
    BY <1>5 DEF StartFails, Running, BeginShutdown, StopDecoder, StopSplitter, CloseReassembler,
       StopKafka, StopDispatcher, StopMetrics, CloseCapturer
  <2>2. Located' /\ NoRepeat'
    BY <2>1, DataStays
  <2>3. HeldInv' /\ EventInv' /\ WriterInv'
    BY <1>0, <2>1 DEF HeldInv, EventInv, WriterInv, Exited
  <2> QED BY <2>2, <2>3 DEF MoveInv
<1> QED BY <1>1, <1>2, <1>3, <1>4, <1>5 DEF Main

LEMMA MoveNext ==
  ASSUME TypeOK, SafeInv, MoveInv, NoPanic', [Next]_vars
  PROVE  MoveInv'
<1>0. ~panicked' /\ "str" \in Chans /\ "udp" \in Chans /\ {"tcpLoop", "udpLoop"} = Loops
  BY ChanNames DEF NoPanic, Loops
<1>1. CASE Signal \/ UNCHANGED vars
  <2>1. UNCHANGED <<mpc, writersClosed, pc, held, chan, buf, wire, dropped, discarded, published>>
    BY <1>1 DEF Signal, vars, mainVars, flags, asmVars, ends, dataVars
  <2>2. Located' /\ NoRepeat'
    BY <2>1, DataStays
  <2>3. HeldInv' /\ EventInv' /\ WriterInv'
    BY <2>1 DEF MoveInv, HeldInv, EventInv, WriterInv, Exited
  <2> QED BY <2>2, <2>3 DEF MoveInv
<1>2. CASE Main
  BY <1>0, <1>2, MoveMain
<1>3. CASE \/ \E q \in Queues : Capture(q)
           \/ CloseOutput
           \/ \E w \in DecodeWorkers : Decoder(w)
           \/ Splitter \/ Reassembler
           \/ Dispatch("tcpLoop", "str") \/ Dispatch("udpLoop", "udp")
           \/ \E w \in KafkaWorkers : Kafka(w)
  BY <1>0, <1>3, MoveCapture, MoveClose, MoveDecoder, MoveSplitter, MoveReassembler,
     MoveDispatch, MoveKafka
<1> QED BY <1>1, <1>2, <1>3 DEF Next

(* MoveInv is inductive relative to TypeOK and SafeInv: the packets change *)
(* places as the code moves them, and a worker that may write still finds  *)
(* the writers open.                                                       *)
THEOREM PacketsMove == Spec => []MoveInv
<1>1. Init => MoveInv
  BY MoveInit
<1>2. TypeOK /\ SafeInv /\ NoPanic' /\ MoveInv /\ [Next]_vars => MoveInv'
  BY MoveNext
<1> QED BY <1>1, <1>2, TypeCorrect, Safety, PanicFree, PTL DEF Spec

-----------------------------------------------------------------------------
(* Conservation.                                                           *)

LEMMA OnePlace ==
  ASSUME TypeOK, MoveInv, NEW p \in Packets
  PROVE  \E y : Places(p) = {y}
<1>1. PICK x \in Spots : \A y \in Spots : p \in Contents(y) <=> y = x
  BY DEF MoveInv, Located
<1>2. /\ \A c \in Chans : p \in Carried(chan[c]) <=> x = <<"chan", c>>
      /\ \A g \in Procs : p \in held[g] <=> x = <<"held", g>>
      /\ \A d \in {"pkt", "str"} : p \in dropped[d] <=> x = <<"dropped", d>>
      /\ p \in wire <=> x = <<"wire", "-">>
      /\ p \in buf <=> x = <<"buf", "-">>
      /\ p \in discarded <=> x = <<"discarded", "-">>
      /\ p \in published <=> x = <<"published", "-">>
  BY <1>1, SpotContents
<1> DEFINE Q == {z \in Chans \X (1..ChannelBuffer) :
                   z[2] <= Len(chan[z[1]]) /\ p \in chan[z[1]][z[2]]}
           H == {<<"held", g>> : g \in {h \in Procs : p \in held[h]}}
           R == {<<"dropped", c>> : c \in {d \in {"pkt", "str"} : p \in dropped[d]}}
           W == IF p \in wire THEN {<<"wire">>} ELSE {}
           B == IF p \in buf THEN {<<"buf">>} ELSE {}
           I == IF p \in discarded THEN {<<"discarded">>} ELSE {}
           U == IF p \in published THEN {<<"published">>} ELSE {}
<1>3. Places(p) = Q \cup H \cup R \cup W \cup B \cup I \cup U
  BY DEF Places
<1>4. \A c \in Chans : chan[c] \in Seq(SUBSET Packets) /\ Len(chan[c]) \in Nat
                       /\ Len(chan[c]) <= ChannelBuffer /\ Once(chan[c])
  BY DEF TypeOK, ChanOK, MoveInv, NoRepeat
<1>5. ASSUME \A c \in Chans : x # <<"chan", c>> PROVE Q = {}
  <2> SUFFICES ASSUME NEW z \in Q PROVE FALSE
    OBVIOUS
  <2>1. PICK c \in Chans, j \in 1..ChannelBuffer : z = <<c, j>> /\ j <= Len(chan[c]) /\ p \in chan[c][j]
    OBVIOUS
  <2>2. p \in Carried(chan[c])
    BY <1>4, <2>1 DEF Carried
  <2> QED BY <1>2, <1>5, <2>2
<1>6. ASSUME NEW c \in Chans, x = <<"chan", c>> PROVE \E j : Q = {<<c, j>>}
  <2>1. PICK j \in 1..Len(chan[c]) : p \in chan[c][j]
    BY <1>2, <1>6 DEF Carried
  <2>2. <<c, j>> \in Q
    <3>1. j \in 1..ChannelBuffer /\ j <= Len(chan[c])
      BY <1>4, <2>1, BufferAssumption
    <3> QED BY <2>1, <3>1
  <2>3. ASSUME NEW z \in Q PROVE z = <<c, j>>
    <3>1. PICK b \in Chans, i \in 1..ChannelBuffer : z = <<b, i>> /\ i <= Len(chan[b]) /\ p \in chan[b][i]
      BY <2>3
    <3>2. i \in 1..Len(chan[b])
      BY <1>4, <3>1
    <3>3. p \in Carried(chan[b])
      BY <3>1, <3>2 DEF Carried
    <3>4. b = c
      BY <1>2, <1>6, <3>3
    <3>5. i = j
      BY <1>4, <2>1, <3>1, <3>2, <3>4 DEF Once
    <3> QED BY <3>1, <3>4, <3>5
  <2> HIDE DEF Q
  <2> QED BY <2>2, <2>3
<1>7. ASSUME \A g \in Procs : x # <<"held", g>> PROVE H = {}
  BY <1>2, <1>7
<1>8. ASSUME NEW g \in Procs, x = <<"held", g>> PROVE H = {<<"held", g>>}
  BY <1>2, <1>8
<1>9. ASSUME \A d \in {"pkt", "str"} : x # <<"dropped", d>> PROVE R = {}
  BY <1>2, <1>9
<1>10. ASSUME NEW d \in {"pkt", "str"}, x = <<"dropped", d>> PROVE R = {<<"dropped", d>>}
  BY <1>2, <1>10
<1>11. /\ W = IF x = <<"wire", "-">> THEN {<<"wire">>} ELSE {}
       /\ B = IF x = <<"buf", "-">> THEN {<<"buf">>} ELSE {}
       /\ I = IF x = <<"discarded", "-">> THEN {<<"discarded">>} ELSE {}
       /\ U = IF x = <<"published", "-">> THEN {<<"published">>} ELSE {}
  BY <1>2
<1> HIDE DEF Q, H, R, W, B, I, U
<1>12. CASE \E c \in Chans : x = <<"chan", c>>
  <2>1. PICK c \in Chans : x = <<"chan", c>>
    BY <1>12
  <2>2. /\ H = {} /\ R = {} /\ W = {} /\ B = {} /\ I = {} /\ U = {}
    BY <1>7, <1>9, <1>11, <2>1
  <2> QED BY <1>3, <1>6, <2>1, <2>2
<1>13. CASE \E g \in Procs : x = <<"held", g>>
  <2>1. PICK g \in Procs : x = <<"held", g>>
    BY <1>13
  <2>2. /\ Q = {} /\ R = {} /\ W = {} /\ B = {} /\ I = {} /\ U = {}
    BY <1>5, <1>9, <1>11, <2>1
  <2> QED BY <1>3, <1>8, <2>1, <2>2
<1>14. CASE \E d \in {"pkt", "str"} : x = <<"dropped", d>>
  <2>1. PICK d \in {"pkt", "str"} : x = <<"dropped", d>>
    BY <1>14
  <2>2. /\ Q = {} /\ H = {} /\ W = {} /\ B = {} /\ I = {} /\ U = {}
    BY <1>5, <1>7, <1>11, <2>1
  <2> QED BY <1>3, <1>10, <2>1, <2>2
<1>15. CASE x \in {<<"wire", "-">>, <<"buf", "-">>, <<"discarded", "-">>, <<"published", "-">>}
  <2>1. Q = {} /\ H = {} /\ R = {}
    BY <1>5, <1>7, <1>9, <1>15
  <2>2. \E y : W \cup B \cup I \cup U = {y}
    <3>1. CASE x = <<"wire", "-">>
      <4>1. W = {<<"wire">>} /\ B = {} /\ I = {} /\ U = {}
        BY <1>11, <3>1
      <4> QED BY <4>1
    <3>2. CASE x = <<"buf", "-">>
      <4>1. W = {} /\ B = {<<"buf">>} /\ I = {} /\ U = {}
        BY <1>11, <3>2
      <4> QED BY <4>1
    <3>3. CASE x = <<"discarded", "-">>
      <4>1. W = {} /\ B = {} /\ I = {<<"discarded">>} /\ U = {}
        BY <1>11, <3>3
      <4> QED BY <4>1
    <3>4. CASE x = <<"published", "-">>
      <4>1. W = {} /\ B = {} /\ I = {} /\ U = {<<"published">>}
        BY <1>11, <3>4
      <4> QED BY <4>1
    <3> QED BY <1>15, <3>1, <3>2, <3>3, <3>4
  <2> QED BY <1>3, <2>1, <2>2
<1> QED BY <1>12, <1>13, <1>14, <1>15 DEF Spots

(* In every interleaving, from the first Start to the exit of main, every  *)
(* packet read is in exactly one place: no stage forwards a packet twice,  *)
(* and none loses one but where the code drops it on purpose.              *)
THEOREM PacketsConserved == Spec => []Conservation
<1>1. TypeOK /\ MoveInv => Conservation
  <2> SUFFICES ASSUME TypeOK, MoveInv, NEW p \in Packets PROVE Cardinality(Places(p)) = 1
    BY DEF Conservation
  <2>1. PICK y : Places(p) = {y}
    BY OnePlace
  <2> QED BY <2>1, FS_Singleton
<1> QED BY <1>1, TypeCorrect, PacketsMove, PTL

-----------------------------------------------------------------------------
(* The refinement of Delivery.                                             *)

Lost == dropped["pkt"] \cup dropped["str"] \cup discarded

(* What a step does, as far as Delivery sees it.                           *)
LoseStep == Lost \subseteq Lost' /\ UNCHANGED <<wire, published, writersClosed>>

EnterStep ==
  /\ \E p \in wire : wire' = wire \ {p}
  /\ UNCHANGED <<dropped, discarded, published, writersClosed>>

PublishStep ==
  /\ ~writersClosed
  /\ \E p \in Packets, w \in KafkaWorkers : p \in held[w] /\ published' = published \cup {p}
  /\ UNCHANGED <<dropped, discarded, wire, writersClosed>>

CloseStep == writersClosed' = TRUE /\ UNCHANGED <<dropped, discarded, wire, published>>

LEMMA CompleteLoses ==
  ASSUME TypeOK, NEW h, Complete(h)
  PROVE  dropped["pkt"] \subseteq dropped'["pkt"] /\ dropped["str"] \subseteq dropped'["str"]
BY DEF TypeOK, Complete

LEMMA AssembleLoses ==
  ASSUME TypeOK, NEW h, AssembleWithContext(h)
  PROVE  dropped["pkt"] \subseteq dropped'["pkt"] /\ dropped["str"] \subseteq dropped'["str"]
<1>1. ASSUME NEW c \in SUBSET h, FlushDirection(h, c)
      PROVE  dropped["pkt"] \subseteq dropped'["pkt"] /\ dropped["str"] \subseteq dropped'["str"]
  BY <1>1 DEF TypeOK, FlushDirection
<1> QED BY <1>1, CompleteLoses DEF AssembleWithContext

LEMMA StepKinds ==
  ASSUME TypeOK, MoveInv, [Next]_vars
  PROVE  LoseStep \/ EnterStep \/ PublishStep \/ CloseStep
<1> USE DEF mainVars, flags, asmVars, ends, dataVars
<1>1. CASE UNCHANGED vars \/ Signal \/ CloseOutput \/ Splitter
  BY <1>1 DEF vars, Signal, CloseOutput, Splitter, SplitRecv, SplitSend, SplitFinish, LoseStep, Lost
<1>2. ASSUME NEW q \in Queues, Capture(q) PROVE LoseStep \/ EnterStep
  <2>1. CASE CaptureRecv(q)
    BY <2>1 DEF CaptureRecv, EnterStep
  <2>2. CASE CaptureDeliver(q)
    <3>1. dropped["pkt"] \subseteq dropped'["pkt"] /\ dropped["str"] \subseteq dropped'["str"]
      BY <2>2 DEF CaptureDeliver, TypeOK
    <3> QED BY <2>2, <3>1 DEF CaptureDeliver, LoseStep, Lost
  <2>3. CASE CaptureExit(q) \/ CaptureError(q)
    BY <2>3 DEF CaptureExit, CaptureError, LoseStep, Lost
  <2> QED BY <1>2, <2>1, <2>2, <2>3 DEF Capture
<1>3. ASSUME NEW w \in DecodeWorkers, Decoder(w) PROVE LoseStep
  BY <1>3 DEF Decoder, DecodeRecv, DecodeSend, DecodeAbort, CtxExit, InputClosed, LoseStep, Lost
<1>4. CASE Reassembler
  <2>1. CASE FeedPacket
    <3>1. dropped["pkt"] \subseteq dropped'["pkt"] /\ dropped["str"] \subseteq dropped'["str"]
      BY <2>1, AssembleLoses DEF FeedPacket
    <3> QED BY <2>1, <3>1 DEF FeedPacket, LoseStep, Lost
  <2>2. CASE FlushOlderThan
    BY <2>2, CompleteLoses DEF FlushOlderThan, LoseStep, Lost
  <2>3. CASE FeedRecv \/ CtxExit("reassembler") \/ InputClosed("reassembler", "tcp")
    BY <2>3 DEF FeedRecv, CtxExit, InputClosed, LoseStep, Lost
  <2> QED BY <1>4, <2>1, <2>2, <2>3 DEF Reassembler
<1>5. ASSUME NEW l, NEW c, Dispatch(l, c) PROVE LoseStep
  BY <1>5 DEF Dispatch, DispatchRecv, DispatchSend, DispatchAbort, CtxExit, InputClosed, LoseStep, Lost
<1>6. ASSUME NEW w \in KafkaWorkers, Kafka(w) PROVE LoseStep \/ PublishStep
  <2>1. CASE KafkaWrite(w) /\ published' = published \cup held[w] /\ UNCHANGED discarded
    <3>1. pc[w] = "send" /\ UNCHANGED <<dropped, wire, writersClosed>>
      BY <2>1 DEF KafkaWrite
    <3>2. ~writersClosed
      BY <3>1 DEF MoveInv, WriterInv, Exited
    <3>3. PICK p \in Packets : held[w] = {p}
      BY <3>1 DEF MoveInv, EventInv
    <3> QED BY <2>1, <3>1, <3>2, <3>3 DEF PublishStep
  <2>2. CASE KafkaWrite(w) /\ discarded' = discarded \cup held[w] /\ UNCHANGED published
    BY <2>2 DEF KafkaWrite, LoseStep, Lost
  <2>3. CASE KafkaRecv(w) \/ CtxExit(w) \/ InputClosed(w, "ev")
    BY <2>3 DEF KafkaRecv, CtxExit, InputClosed, LoseStep, Lost
  <2> QED BY <1>6, <2>1, <2>2, <2>3 DEF Kafka, KafkaWrite
<1>7. CASE Main
  <2>1. CASE CloseWriters
    BY <2>1 DEF CloseWriters, CloseStep
  <2>2. CASE StopReassembler
    BY <2>2, CompleteLoses DEF StopReassembler, LoseStep, Lost
  <2>3. CASE \/ StartStage \/ StartFails \/ Running \/ BeginShutdown \/ StopDecoder \/ StopSplitter
             \/ CloseReassembler \/ StopKafka \/ StopDispatcher \/ StopMetrics \/ CloseCapturer
             \/ MainExit
    BY <2>3 DEF StartStage, StartFails, Running, BeginShutdown, StopDecoder, StopSplitter,
       CloseReassembler, StopKafka, StopDispatcher, StopMetrics, CloseCapturer, MainExit,
       LoseStep, Lost
  <2> QED BY <1>7, <2>1, <2>2, <2>3 DEF Main
<1> QED BY <1>1, <1>2, <1>3, <1>4, <1>5, <1>6, <1>7 DEF Next

(* The places Delivery tells apart.                                        *)
LEMMA PlacesApart ==
  ASSUME MoveInv, NEW p \in Packets
  PROVE  /\ p \in published => p \notin Lost /\ p \notin wire
         /\ p \in Lost => p \notin wire
         /\ \A w \in Procs : p \in held[w] => p \notin Lost \cup published \cup wire
<1>1. PICK x \in Spots : \A y \in Spots : p \in Contents(y) <=> y = x
  BY DEF MoveInv, Located
<1>2. /\ \A g \in Procs : p \in held[g] <=> x = <<"held", g>>
      /\ \A d \in {"pkt", "str"} : p \in dropped[d] <=> x = <<"dropped", d>>
      /\ p \in wire <=> x = <<"wire", "-">>
      /\ p \in discarded <=> x = <<"discarded", "-">>
      /\ p \in published <=> x = <<"published", "-">>
  BY <1>1, SpotContents
<1> QED BY <1>2 DEF Lost

(* A packet ends in one way, and never while it is on the wire.            *)
Sorted ==
  \A p \in Packets : /\ p \in published => p \notin Lost /\ p \notin wire
                     /\ p \in Lost => p \notin wire

(* A step of the pipeline is a step of Delivery or leaves it alone.        *)
LEMMA StepRefines ==
  ASSUME TypeOK, MoveInv, Sorted', [Next]_vars
  PROVE  [D!Next]_D!dvars
<1>1. /\ \A p \in Packets : Whereabouts[p] = IF p \in published THEN "published"
                                             ELSE IF p \in Lost THEN "lost"
                                             ELSE IF p \in wire THEN "wire"
                                             ELSE "inside"
      /\ \A p \in Packets : Whereabouts'[p] = IF p \in published' THEN "published"
                                              ELSE IF p \in Lost' THEN "lost"
                                              ELSE IF p \in wire' THEN "wire"
                                              ELSE "inside"
  BY DEF Whereabouts, Settled, Lost
<1>2. /\ Whereabouts = [p \in Packets |-> Whereabouts[p]]
      /\ Whereabouts' = [p \in Packets |-> Whereabouts'[p]]
  BY DEF Whereabouts
<1>3. \A p \in Packets :
         /\ p \in published => p \notin Lost /\ p \notin wire
         /\ p \in Lost => p \notin wire
         /\ \A w \in Procs : p \in held[w] => p \notin Lost \cup published \cup wire
  BY PlacesApart
<1>4. \A p \in Packets : /\ p \in published' => p \notin Lost' /\ p \notin wire'
                         /\ p \in Lost' => p \notin wire'
  BY DEF Sorted
<1>5. wire \subseteq Packets /\ KafkaWorkers \subseteq Procs
  BY KafkaWorkersApart DEF TypeOK
<1> HIDE DEF Whereabouts, Lost
(* Delivery's Move, with the packets ps.                                   *)
<1>6. ASSUME NEW ps \in SUBSET Packets, NEW from, NEW to,
             \A p \in ps : Whereabouts[p] = from /\ Whereabouts'[p] = to,
             \A p \in Packets \ ps : Whereabouts'[p] = Whereabouts[p]
      PROVE  D!Move(ps, from, to)
  BY <1>2, <1>6 DEF D!Move
<1>7. CASE LoseStep
  <2>1. Lost \subseteq Lost' /\ UNCHANGED <<wire, published, writersClosed>>
    BY <1>7 DEF LoseStep
  <2> DEFINE ps == {p \in Packets : p \in Lost' /\ p \notin Lost}
  <2>2. /\ \A p \in ps : Whereabouts[p] = "inside" /\ Whereabouts'[p] = "lost"
        /\ \A p \in Packets \ ps : Whereabouts'[p] = Whereabouts[p]
    BY <1>1, <1>4, <2>1
  <2>3. CASE ps = {}
    <3>1. Whereabouts' = Whereabouts
      BY <1>2, <2>2, <2>3
    <3> QED BY <2>1, <3>1 DEF D!dvars
  <2>4. CASE ps # {}
    <3>0. ps \in SUBSET Packets
      OBVIOUS
    <3> HIDE DEF ps
    <3>1. ps \in (SUBSET Packets) \ {{}}
      BY <2>4, <3>0
    <3>2. D!Move(ps, "inside", "lost")
      BY <1>6, <2>2, <3>1
    <3>3. D!Lose
      BY <2>1, <3>1, <3>2 DEF D!Lose
    <3> QED BY <3>3 DEF D!Next
  <2> QED BY <2>3, <2>4
<1>8. CASE EnterStep
  <2>1. PICK p \in wire : wire' = wire \ {p}
    BY <1>8 DEF EnterStep
  <2>2. Lost' = Lost /\ UNCHANGED <<published, writersClosed>>
    BY <1>8 DEF EnterStep, Lost
  <2> DEFINE ps == {p}
  <2>3. /\ ps \in SUBSET Packets /\ p \in Packets
        /\ \A r \in ps : Whereabouts[r] = "wire" /\ Whereabouts'[r] = "inside"
        /\ \A r \in Packets \ ps : Whereabouts'[r] = Whereabouts[r]
    BY <1>1, <1>3, <1>5, <2>1, <2>2
  <2>4. D!Move(ps, "wire", "inside")
    <3> HIDE DEF ps
    <3> QED BY <1>6, <2>3
  <2>5. D!Enter
    BY <2>2, <2>3, <2>4 DEF D!Enter
  <2> QED BY <2>5 DEF D!Next
<1>9. CASE PublishStep
  <2>1. PICK p \in Packets, w \in KafkaWorkers : p \in held[w] /\ published' = published \cup {p}
    BY <1>9 DEF PublishStep
  <2>2. ~writersClosed /\ Lost' = Lost /\ UNCHANGED <<wire, writersClosed>>
    BY <1>9 DEF PublishStep, Lost
  <2> DEFINE ps == {p}
  <2>3. p \notin Lost \cup published \cup wire
    BY <1>3, <1>5, <2>1
  <2>4. /\ ps \in SUBSET Packets
        /\ \A r \in ps : Whereabouts[r] = "inside" /\ Whereabouts'[r] = "published"
        /\ \A r \in Packets \ ps : Whereabouts'[r] = Whereabouts[r]
    BY <1>1, <2>1, <2>2, <2>3
  <2>5. D!Move(ps, "inside", "published")
    <3> HIDE DEF ps
    <3> QED BY <1>6, <2>4
  <2>6. D!Publish
    BY <2>2, <2>5 DEF D!Publish
  <2> QED BY <2>6 DEF D!Next
<1>10. CASE CloseStep
  <2>1. Whereabouts' = Whereabouts
    BY <1>10 DEF CloseStep, Whereabouts, Settled
  <2>2. CASE writersClosed
    BY <1>10, <2>1, <2>2 DEF CloseStep, D!dvars
  <2>3. CASE ~writersClosed
    <3>1. D!Close
      BY <1>10, <2>1, <2>3 DEF CloseStep, D!Close
    <3> QED BY <3>1 DEF D!Next
  <2> QED BY <2>2, <2>3
<1> QED BY <1>7, <1>8, <1>9, <1>10, StepKinds

(* The pipeline implements Delivery: a packet enters once, ends once, is   *)
(* never brought back, and none is published after the writers are closed. *)
THEOREM PipelineDelivers == Spec => Delivers
<1>1. Init => D!Init
  <2> SUFFICES ASSUME Init PROVE D!Init
    OBVIOUS
  <2>1. Whereabouts = [p \in Packets |-> "wire"]
    BY DEF Init, Whereabouts, Settled
  <2> QED BY <2>1 DEF Init, D!Init
<1>2. MoveInv => Sorted
  BY PlacesApart DEF Sorted
<1>3. TypeOK /\ MoveInv /\ Sorted' /\ [Next]_vars => [D!Next]_D!dvars
  BY StepRefines
<1> QED BY <1>1, <1>2, <1>3, TypeCorrect, PacketsMove, PTL DEF Spec, Delivers, D!Spec
=============================================================================
