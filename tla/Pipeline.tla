------------------------------ MODULE Pipeline ------------------------------
(***************************************************************************)
(* The life of a netcap process after capture has been opened: main starts *)
(* the stages in order, the stages' goroutines move packets through        *)
(* bounded Go channels, a signal cancels the context, and main stops the   *)
(* stages in reverse order (cmd/netcap/main.go, internal/pipeline, and the *)
(* Start, Stop and goroutine bodies of every stage).                       *)
(*                                                                         *)
(*   wire -> capture loops -> [pkt] -> decode workers -> [dec] -> splitter *)
(*        -> [tcp] -> reassembler -> [str] -> tcpLoop -> [ev] -> kafka     *)
(*        -> [udp] ------------------------> udpLoop -> [ev]               *)
(*                                                                         *)
(* Everything a channel or a goroutine holds is a set of packets: a packet *)
(* p is {p}, a reassembled chunk is the set of packets whose bytes it      *)
(* carries, a connection-close marker is {}, and an event is {p} where p   *)
(* is the packet its message starts in (at most one message starts in a    *)
(* packet).  TCP packets belong to one connection.                         *)
(***************************************************************************)
EXTENDS Naturals, Sequences, FiniteSets

CONSTANTS
  TCPPackets,      \* packets that decode to IP + TCP
  UDPPackets,      \* packets that decode to IP + UDP
  OtherPackets,    \* packets the decoder cannot use (no IP, no transport, garbage)
  Queues,          \* capture loops, one per AF_PACKET socket
  DecodeWorkers,   \* goroutines of the decoder
  KafkaWorkers,    \* goroutines (and writers) of the Kafka producer
  ChannelBuffer,   \* cfg.Decode.ChannelBuffer, the capacity of every channel
  Stages           \* the stages in the order main adds them to the pipeline

Packets == TCPPackets \cup UDPPackets \cup OtherPackets

StageNames == {"decoder", "splitter", "reassembler", "kafka", "dispatcher", "metrics"}

Chans == {"pkt", "dec", "tcp", "udp", "str", "ev"}

Loops == {"tcpLoop", "udpLoop"}

Singles == {"closer", "splitter", "reassembler"} \cup Loops

Procs == Queues \cup DecodeWorkers \cup KafkaWorkers \cup Singles

ASSUME PacketKinds ==
  /\ TCPPackets \cap UDPPackets = {}
  /\ TCPPackets \cap OtherPackets = {}
  /\ UDPPackets \cap OtherPackets = {}

ASSUME ProcKinds ==
  /\ Queues \cap DecodeWorkers = {}
  /\ Queues \cap KafkaWorkers = {}
  /\ DecodeWorkers \cap KafkaWorkers = {}
  /\ (Queues \cup DecodeWorkers \cup KafkaWorkers) \cap Singles = {}

ASSUME BufferAssumption == ChannelBuffer \in Nat \ {0}

ASSUME StageAssumption ==
  /\ Stages \in Seq(StageNames)
  /\ \A i, j \in 1..Len(Stages) : Stages[i] = Stages[j] => i = j
  /\ \E i \in 1..Len(Stages) : Stages[i] = "dispatcher"

(* main.go adds the Kafka producer before the dispatcher, so that the      *)
(* dispatcher is stopped first.                                            *)
ASSUME KafkaBeforeDispatcher ==
  \A i, j \in 1..Len(Stages) :
     Stages[i] = "kafka" /\ Stages[j] = "dispatcher" => i < j

(* The goroutines each stage's Start launches and its Stop waits for.      *)
(* (The metrics server's Serve goroutine touches no channel.)              *)
Goroutines ==
  [ decoder     |-> DecodeWorkers,
    splitter    |-> {"splitter"},
    reassembler |-> {"reassembler"},
    kafka       |-> KafkaWorkers,
    dispatcher  |-> Loops,
    metrics     |-> {} ]

VARIABLES
  \* main goroutine
  mpc,            \* "start", "run", "stop", "rollback", "closing", "exited"
  k,              \* stage being started, or being stopped
  waiting,        \* Producer.Stop has closed its input and waits for its workers
  failed,         \* Pipeline.Run met a stage that did not start
  \* shared flags
  ctxDone,        \* the signal context is cancelled
  capDone,        \* the capture context is cancelled by Capturer.Close
  writersClosed,  \* every Kafka writer has been closed
  panicked,       \* a send on, or a close of, a closed channel: the process dies
  \* goroutines and channels
  pc,             \* "idle" before Start, "recv", "send", "exit"
  held,           \* packets a goroutine has received and not passed on
  chan, closed,   \* contents of each channel; the channels that are closed
  \* the reassembler's assembler: packets it holds, and whether a stream is open
  buf, live,
  \* where packets are or have ended
  wire, dropped, discarded, published

mainVars == <<mpc, k, waiting, failed, writersClosed>>
flags    == <<ctxDone, capDone>>
asmVars  == <<buf, live>>
ends     == <<dropped, discarded, published>>
dataVars == <<held, chan, closed, asmVars, wire, ends>>
vars     == <<mainVars, flags, panicked, pc, dataVars>>

(* No channel holds more than its capacity.                                *)
ChanOK ==
  /\ chan \in [Chans -> Seq(SUBSET Packets)]
  /\ \A c \in Chans : Len(chan[c]) <= ChannelBuffer

(* main's stage index stays within the list in Run and stopInReverse.      *)
IndexOK ==
  /\ k \in 0..Len(Stages) + 1
  /\ mpc = "start" => k > 0
  /\ mpc \in {"stop", "rollback"} => k <= Len(Stages)

(* Every variable has its type, and ChanOK.                                *)
TypeOK ==
  /\ mpc \in {"start", "run", "stop", "rollback", "closing", "exited"}
  /\ IndexOK
  /\ waiting \in BOOLEAN /\ failed \in BOOLEAN
  /\ ctxDone \in BOOLEAN /\ capDone \in BOOLEAN
  /\ writersClosed \in BOOLEAN /\ panicked \in BOOLEAN
  /\ pc \in [Procs -> {"idle", "recv", "send", "exit"}]
  /\ held \in [Procs -> SUBSET Packets]
  /\ ChanOK
  /\ closed \in SUBSET Chans
  /\ buf \in SUBSET Packets /\ live \in BOOLEAN
  /\ wire \in SUBSET Packets
  /\ dropped \in [{"pkt", "str"} -> SUBSET Packets]
  /\ discarded \in SUBSET Packets
  /\ published \in SUBSET Packets

Init ==
  /\ mpc = "start" /\ k = 1 /\ waiting = FALSE /\ failed = FALSE
  /\ ctxDone = FALSE /\ capDone = FALSE
  /\ writersClosed = FALSE /\ panicked = FALSE
  /\ pc = [g \in Procs |-> IF g \in Queues \cup {"closer"} THEN "recv" ELSE "idle"]
  /\ held = [g \in Procs |-> {}]
  /\ chan = [c \in Chans |-> << >>]
  /\ closed = {}
  /\ buf = {} /\ live = FALSE
  /\ wire = Packets
  /\ dropped = [c \in {"pkt", "str"} |-> {}]
  /\ discarded = {}
  /\ published = {}

-----------------------------------------------------------------------------
(* Channel operations.                                                     *)

(* Mutant of HasRoom: one element too many fits.                           *)
HasRoomOffByOne(c) == Len(chan[c]) <= ChannelBuffer

HasRoom(c) == Len(chan[c]) < ChannelBuffer

Readable(c) == chan[c] # << >>

Drained(c) == chan[c] = << >> /\ c \in closed

(* c <- m, or the send case of a select: it panics on a closed channel,    *)
(* waits for room otherwise.                                               *)
Send(c, m) ==
  IF c \in closed
  THEN panicked' = TRUE /\ UNCHANGED chan
  ELSE /\ HasRoom(c)
       /\ chan' = [chan EXCEPT ![c] = Append(@, m)]
       /\ UNCHANGED panicked

Recv(c) == Readable(c) /\ chan' = [chan EXCEPT ![c] = Tail(@)]

(* select { case q <- m: default: } on contents q of a channel.            *)
TrySend(q, m) == IF Len(q) < ChannelBuffer THEN Append(q, m) ELSE q

(* close(c) for every c in cs.                                             *)
CloseChans(cs) ==
  /\ closed' = closed \cup cs
  /\ panicked' = (panicked \/ cs \cap closed # {})

Exit(g) == pc' = [pc EXCEPT ![g] = "exit"]

Exited(gs) == \A g \in gs : pc[g] \in {"idle", "exit"}

-----------------------------------------------------------------------------
(* Capture: internal/capture/afpacket.                                     *)

(* Poll and Recvfrom return a packet; the context was live when checked.   *)
CaptureRecv(q) ==
  /\ pc[q] = "recv" /\ ~ctxDone /\ ~capDone
  /\ \E p \in wire :
       /\ wire' = wire \ {p}
       /\ held' = [held EXCEPT ![q] = {p}]
  /\ pc' = [pc EXCEPT ![q] = "send"]
  /\ UNCHANGED <<mainVars, flags, panicked, chan, closed, asmVars, ends>>

(* The non-blocking send: the packet is dropped when the channel is full.  *)
CaptureDeliver(q) ==
  /\ pc[q] = "send"
  /\ pc' = [pc EXCEPT ![q] = "recv"]
  /\ held' = [held EXCEPT ![q] = {}]
  /\ \/ Send("pkt", held[q]) /\ UNCHANGED dropped
     \/ /\ "pkt" \notin closed /\ ~HasRoom("pkt")
        /\ dropped' = [dropped EXCEPT !["pkt"] = @ \cup held[q]]
        /\ UNCHANGED <<chan, panicked>>
  /\ UNCHANGED <<mainVars, flags, closed, asmVars, wire, discarded, published>>

(* Mutant of CaptureExit: the loops do not derive their context from the   *)
(* signal context.                                                         *)
CaptureExitOnClose(q) ==
  /\ pc[q] = "recv" /\ capDone
  /\ Exit(q)
  /\ UNCHANGED <<mainVars, flags, panicked, dataVars>>

(* The loop sees its context cancelled.                                    *)
CaptureExit(q) ==
  /\ pc[q] = "recv" /\ (ctxDone \/ capDone)
  /\ Exit(q)
  /\ UNCHANGED <<mainVars, flags, panicked, dataVars>>

(* Poll or Recvfrom fails for good (the interface went down, say).         *)
CaptureError(q) ==
  /\ pc[q] = "recv"
  /\ Exit(q)
  /\ UNCHANGED <<mainVars, flags, panicked, dataVars>>

(* The closer goroutine: after the last capture loop, close(a.output).     *)
CloseOutput ==
  /\ pc["closer"] = "recv" /\ Exited(Queues)
  /\ CloseChans({"pkt"})
  /\ Exit("closer")
  /\ UNCHANGED <<mainVars, flags, held, chan, asmVars, wire, ends>>

-----------------------------------------------------------------------------
(* The ctx.Done case of the selects in decodeWorker, TCPReassembler.run,   *)
(* tcpLoop, udpLoop and Producer.worker.                                   *)
CtxExit(g) ==
  /\ pc[g] = "recv" /\ ctxDone
  /\ Exit(g)
  /\ UNCHANGED <<mainVars, flags, panicked, dataVars>>

(* The same selects find their input channel closed and empty.             *)
InputClosed(g, c) ==
  /\ pc[g] = "recv" /\ Drained(c)
  /\ Exit(g)
  /\ UNCHANGED <<mainVars, flags, panicked, dataVars>>

-----------------------------------------------------------------------------
(* Decoder: internal/decode.                                               *)

(* Receive and decode.  A packet without IP and transport is skipped.      *)
DecodeRecv(w) ==
  /\ pc[w] = "recv"
  /\ Recv("pkt")
  /\ LET m == Head(chan["pkt"]) IN
       IF m \subseteq OtherPackets
       THEN discarded' = discarded \cup m /\ UNCHANGED <<pc, held>>
       ELSE /\ pc' = [pc EXCEPT ![w] = "send"]
            /\ held' = [held EXCEPT ![w] = m]
            /\ UNCHANGED discarded
  /\ UNCHANGED <<mainVars, flags, panicked, closed, asmVars, wire, dropped, published>>

(* d.output <- dp.                                                         *)
DecodeSend(w) ==
  /\ pc[w] = "send"
  /\ Send("dec", held[w])
  /\ pc' = [pc EXCEPT ![w] = "recv"]
  /\ held' = [held EXCEPT ![w] = {}]
  /\ UNCHANGED <<mainVars, flags, closed, asmVars, wire, ends>>

(* ctx.Done while waiting to send: the worker returns with its packet.     *)
DecodeAbort(w) ==
  /\ pc[w] = "send" /\ ctxDone
  /\ discarded' = discarded \cup held[w]
  /\ held' = [held EXCEPT ![w] = {}]
  /\ Exit(w)
  /\ UNCHANGED <<mainVars, flags, panicked, chan, closed, asmVars, wire, dropped, published>>

-----------------------------------------------------------------------------
(* packetSplitter: cmd/netcap/main.go.  It never looks at the context.     *)

SplitRecv ==
  /\ pc["splitter"] = "recv"
  /\ Recv("dec")
  /\ pc' = [pc EXCEPT !["splitter"] = "send"]
  /\ held' = [held EXCEPT !["splitter"] = Head(chan["dec"])]
  /\ UNCHANGED <<mainVars, flags, panicked, closed, asmVars, wire, ends>>

(* s.tcp <- pkt or s.udp <- pkt, a plain blocking send.                    *)
SplitSend ==
  /\ pc["splitter"] = "send"
  /\ Send(IF held["splitter"] \subseteq TCPPackets THEN "tcp" ELSE "udp", held["splitter"])
  /\ pc' = [pc EXCEPT !["splitter"] = "recv"]
  /\ held' = [held EXCEPT !["splitter"] = {}]
  /\ UNCHANGED <<mainVars, flags, closed, asmVars, wire, ends>>

(* The range loop ends: close(s.tcp), close(s.udp), close(s.done).         *)
SplitFinish ==
  /\ pc["splitter"] = "recv" /\ Drained("dec")
  /\ CloseChans({"tcp", "udp"})
  /\ Exit("splitter")
  /\ UNCHANGED <<mainVars, flags, held, chan, asmVars, wire, ends>>

-----------------------------------------------------------------------------
(* TCPReassembler and biStream: internal/reassembly.                       *)

(* flushDirectionLocked returns at once on an empty buffer.                *)
TrySendData(q, m) == IF m = {} THEN q ELSE TrySend(q, m)

(* ReassemblyComplete: the client buffer, the server buffer, the marker.   *)
AfterComplete(q, c, s) == TrySend(TrySendData(TrySendData(q, c), s), {})

(* Of the chunks c and s flushed in that order, the bytes that found str   *)
(* full.                                                                   *)
Overflow(q, c, s) ==
  (IF Len(q) < ChannelBuffer THEN {} ELSE c)
    \cup (IF Len(TrySendData(q, c)) < ChannelBuffer THEN {} ELSE s)

(* The stream is completed holding the packets h.                          *)
Complete(h) ==
  /\ \E c \in SUBSET h :
       IF "str" \in closed
       THEN panicked' = TRUE /\ UNCHANGED <<chan, dropped>>
       ELSE /\ chan' = [chan EXCEPT !["str"] = AfterComplete(@, c, h \ c)]
            /\ dropped' = [dropped EXCEPT !["str"] = @ \cup Overflow(chan["str"], c, h \ c)]
            /\ UNCHANGED panicked
  /\ buf' = {} /\ live' = FALSE

(* Mutant of FlushDirection: the buffer is not reset after the flush.      *)
FlushWithoutReset(h, c) ==
  /\ chan' = [chan EXCEPT !["str"] = TrySend(@, c)]
  /\ buf' = h /\ live' = TRUE
  /\ UNCHANGED <<dropped, panicked>>

(* A buffer reached maxBufferSize: one direction's chunk c is flushed, or  *)
(* dropped if str is full; the buffer is reset in both cases.              *)
FlushDirection(h, c) ==
  /\ IF "str" \in closed
     THEN panicked' = TRUE /\ UNCHANGED <<chan, dropped>>
     ELSE /\ chan' = [chan EXCEPT !["str"] = TrySend(@, c)]
          /\ dropped' = [dropped EXCEPT !["str"] = @ \cup Overflow(chan["str"], c, {})]
          /\ UNCHANGED panicked
  /\ buf' = h \ c /\ live' = TRUE

(* feedPacket: the packet is taken from tcp and assembled.  (The receive   *)
(* is a step of its own: pc is "send" while the packet is being assembled.)*)
FeedRecv ==
  /\ pc["reassembler"] = "recv"
  /\ Recv("tcp")
  /\ pc' = [pc EXCEPT !["reassembler"] = "send"]
  /\ held' = [held EXCEPT !["reassembler"] = Head(chan["tcp"])]
  /\ UNCHANGED <<mainVars, flags, panicked, closed, asmVars, wire, ends>>

(* What assembling makes of the bytes h of the stream.  Packets have any   *)
(* length, so a buffer may or may not reach the threshold; a FIN or RST    *)
(* completes the stream.                                                   *)
AssembleWithContext(h) ==
  \/ buf' = h /\ live' = TRUE /\ UNCHANGED <<chan, dropped, panicked>>
  \/ \E c \in (SUBSET h) \ {{}} : FlushDirection(h, c)
  \/ Complete(h)

(* The packet adds bytes to the stream, or none (an ACK, a retransmission).*)
FeedPacket ==
  /\ pc["reassembler"] = "send"
  /\ pc' = [pc EXCEPT !["reassembler"] = "recv"]
  /\ held' = [held EXCEPT !["reassembler"] = {}]
  /\ \E new \in {held["reassembler"], {}} :
       /\ discarded' = discarded \cup (held["reassembler"] \ new)
       /\ AssembleWithContext(buf \cup new)
  /\ UNCHANGED <<mainVars, flags, closed, wire, published>>

(* Mutant of FlushOlderThan: only a stream with nothing pending times out. *)
FlushOnlyEmpty ==
  /\ pc["reassembler"] = "recv" /\ live /\ buf = {}
  /\ Complete(buf)
  /\ UNCHANGED <<mainVars, flags, pc, held, closed, wire, discarded, published>>

(* The ticker case: FlushCloseOlderThan finds the connection idle for      *)
(* ConnectionTimeout and completes it.                                     *)
FlushOlderThan ==
  /\ pc["reassembler"] = "recv" /\ live
  /\ Complete(buf)
  /\ UNCHANGED <<mainVars, flags, pc, held, closed, wire, discarded, published>>

-----------------------------------------------------------------------------
(* Dispatcher: internal/dispatch.                                          *)

(* handleTCP / handleUDP: a marker, an empty payload, an unclaimed or      *)
(* unparsable one gives no event; otherwise the messages starting in e     *)
(* give an event each.                                                     *)
DispatchRecv(l, c) ==
  /\ pc[l] = "recv"
  /\ Recv(c)
  /\ \E e \in SUBSET Head(chan[c]) :
       /\ discarded' = discarded \cup (Head(chan[c]) \ e)
       /\ held' = [held EXCEPT ![l] = e]
       /\ pc' = [pc EXCEPT ![l] = IF e = {} THEN "recv" ELSE "send"]
  /\ UNCHANGED <<mainVars, flags, panicked, closed, asmVars, wire, dropped, published>>

(* d.output <- ev, one event of the batch after another.                   *)
DispatchSend(l) ==
  /\ pc[l] = "send"
  /\ \E p \in held[l] :
       /\ Send("ev", {p})
       /\ held' = [held EXCEPT ![l] = @ \ {p}]
       /\ pc' = [pc EXCEPT ![l] = IF held[l] = {p} THEN "recv" ELSE "send"]
  /\ UNCHANGED <<mainVars, flags, closed, asmVars, wire, ends>>

(* Mutant of DispatchAbort: the send has no ctx.Done case.                 *)
DispatchNoAbort(l) == FALSE /\ pc[l] = "send" /\ UNCHANGED vars

(* ctx.Done while waiting to send: the rest of the batch is abandoned and  *)
(* the loop selects again.                                                 *)
DispatchAbort(l) ==
  /\ pc[l] = "send" /\ ctxDone
  /\ discarded' = discarded \cup held[l]
  /\ held' = [held EXCEPT ![l] = {}]
  /\ pc' = [pc EXCEPT ![l] = "recv"]
  /\ UNCHANGED <<mainVars, flags, panicked, chan, closed, asmVars, wire, dropped, published>>

-----------------------------------------------------------------------------
(* Kafka producer: internal/output.                                        *)

KafkaRecv(w) ==
  /\ pc[w] = "recv"
  /\ Recv("ev")
  /\ pc' = [pc EXCEPT ![w] = "send"]
  /\ held' = [held EXCEPT ![w] = Head(chan["ev"])]
  /\ UNCHANGED <<mainVars, flags, panicked, closed, asmVars, wire, ends>>

(* Marshal and WriteMessages (asynchronous: it never blocks); either may   *)
(* fail, which only logs.                                                  *)
KafkaWrite(w) ==
  /\ pc[w] = "send"
  /\ \/ published' = published \cup held[w] /\ UNCHANGED discarded
     \/ discarded' = discarded \cup held[w] /\ UNCHANGED published
  /\ pc' = [pc EXCEPT ![w] = "recv"]
  /\ held' = [held EXCEPT ![w] = {}]
  /\ UNCHANGED <<mainVars, flags, panicked, chan, closed, asmVars, wire, dropped>>

-----------------------------------------------------------------------------
(* main, Pipeline.Run, Pipeline.Shutdown and stopInReverse.                *)

(* SIGINT or SIGTERM.                                                      *)
Signal ==
  /\ mpc # "exited" /\ ~ctxDone
  /\ ctxDone' = TRUE
  /\ UNCHANGED <<mainVars, capDone, panicked, pc, dataVars>>

(* s.Start(ctx) launches the stage's goroutines and succeeds.              *)
StartStage ==
  /\ mpc = "start" /\ k <= Len(Stages)
  /\ pc' = [g \in Procs |-> IF g \in Goroutines[Stages[k]] THEN "recv" ELSE pc[g]]
  /\ k' = k + 1
  /\ UNCHANGED <<mpc, waiting, failed, writersClosed, flags, panicked, dataVars>>

(* s.Start fails: of all stages only the metrics server, which cannot      *)
(* listen on its address, ever does.  Run rolls back what it started.      *)
StartFails ==
  /\ mpc = "start" /\ k <= Len(Stages) /\ Stages[k] = "metrics"
  /\ mpc' = "rollback" /\ failed' = TRUE /\ k' = k - 1
  /\ UNCHANGED <<waiting, writersClosed, flags, panicked, pc, dataVars>>

(* Every stage runs; main blocks on <-ctx.Done().                          *)
Running ==
  /\ mpc = "start" /\ k = Len(Stages) + 1
  /\ mpc' = "run"
  /\ UNCHANGED <<k, waiting, failed, writersClosed, flags, panicked, pc, dataVars>>

(* The signal is seen; Shutdown begins with the last stage.                *)
BeginShutdown ==
  /\ mpc = "run" /\ ctxDone
  /\ mpc' = "stop" /\ k' = Len(Stages)
  /\ UNCHANGED <<waiting, failed, writersClosed, flags, panicked, pc, dataVars>>

Stopping(s) == mpc \in {"stop", "rollback"} /\ k > 0 /\ Stages[k] = s

(* Decoder.Stop: wait for the workers, close(d.output).                    *)
StopDecoder ==
  /\ Stopping("decoder") /\ Exited(DecodeWorkers)
  /\ CloseChans({"dec"})
  /\ k' = k - 1
  /\ UNCHANGED <<mpc, waiting, failed, writersClosed, flags, pc, held, chan, asmVars, wire, ends>>

(* packetSplitter.Stop: <-s.done.                                          *)
StopSplitter ==
  /\ Stopping("splitter") /\ Exited({"splitter"})
  /\ k' = k - 1
  /\ UNCHANGED <<mpc, waiting, failed, writersClosed, flags, panicked, pc, dataVars>>

(* TCPReassembler.Stop: wait for run, FlushAll, then close(r.output).      *)
StopReassembler ==
  /\ Stopping("reassembler") /\ Exited({"reassembler"}) /\ ~waiting
  /\ IF live THEN Complete(buf) ELSE UNCHANGED <<chan, dropped, panicked, asmVars>>
  /\ waiting' = TRUE
  /\ UNCHANGED <<mpc, k, failed, writersClosed, flags, pc, held, closed, wire, discarded, published>>

CloseReassembler ==
  /\ Stopping("reassembler") /\ waiting
  /\ CloseChans({"str"})
  /\ waiting' = FALSE /\ k' = k - 1
  /\ UNCHANGED <<mpc, failed, writersClosed, flags, pc, held, chan, asmVars, wire, ends>>

(* Producer.Stop: close(p.input) ...                                       *)
StopKafka ==
  /\ Stopping("kafka") /\ ~waiting
  /\ CloseChans({"ev"})
  /\ waiting' = TRUE
  /\ UNCHANGED <<mpc, k, failed, writersClosed, flags, pc, held, chan, asmVars, wire, ends>>

(* Mutant of CloseWriters: the writers are closed without wg.Wait.         *)
CloseWritersAtOnce ==
  /\ Stopping("kafka") /\ waiting
  /\ writersClosed' = TRUE /\ waiting' = FALSE /\ k' = k - 1
  /\ UNCHANGED <<mpc, failed, flags, panicked, pc, dataVars>>

(* ... then wait for the workers and close the writers.                    *)
CloseWriters ==
  /\ Stopping("kafka") /\ waiting /\ Exited(KafkaWorkers)
  /\ writersClosed' = TRUE /\ waiting' = FALSE /\ k' = k - 1
  /\ UNCHANGED <<mpc, failed, flags, panicked, pc, dataVars>>

(* Mutant of StopDispatcher: Stop does not wait for the loops.             *)
StopDispatcherNoWait ==
  /\ Stopping("dispatcher")
  /\ k' = k - 1
  /\ UNCHANGED <<mpc, waiting, failed, writersClosed, flags, panicked, pc, dataVars>>

(* Dispatcher.Stop: wait for both loops.                                   *)
StopDispatcher ==
  /\ Stopping("dispatcher") /\ Exited(Loops)
  /\ k' = k - 1
  /\ UNCHANGED <<mpc, waiting, failed, writersClosed, flags, panicked, pc, dataVars>>

(* metrics.Server.Stop: Shutdown under its own five second timeout.        *)
StopMetrics ==
  /\ Stopping("metrics")
  /\ k' = k - 1
  /\ UNCHANGED <<mpc, waiting, failed, writersClosed, flags, panicked, pc, dataVars>>

(* Run or Shutdown has returned: capturer.Close cancels the capture loops. *)
CloseCapturer ==
  /\ mpc \in {"stop", "rollback"} /\ k = 0
  /\ mpc' = "closing" /\ capDone' = TRUE
  /\ UNCHANGED <<k, waiting, failed, writersClosed, ctxDone, panicked, pc, dataVars>>

(* The capture loops have ended; main returns, or calls os.Exit(1), and    *)
(* every goroutine ends with the process.                                  *)
MainExit ==
  /\ mpc = "closing" /\ Exited(Queues)
  /\ mpc' = "exited"
  /\ pc' = [g \in Procs |-> "exit"]
  /\ UNCHANGED <<k, waiting, failed, writersClosed, flags, panicked, dataVars>>

-----------------------------------------------------------------------------
Main ==
  \/ StartStage \/ StartFails \/ Running \/ BeginShutdown
  \/ StopDecoder \/ StopSplitter \/ StopReassembler \/ CloseReassembler
  \/ StopKafka \/ CloseWriters \/ StopDispatcher \/ StopMetrics
  \/ CloseCapturer \/ MainExit

Decoder(w) == DecodeRecv(w) \/ DecodeSend(w) \/ DecodeAbort(w) \/ CtxExit(w) \/ InputClosed(w, "pkt")

Splitter == SplitRecv \/ SplitSend \/ SplitFinish

Reassembler ==
  \/ FeedRecv \/ FeedPacket \/ FlushOlderThan
  \/ CtxExit("reassembler") \/ InputClosed("reassembler", "tcp")

Dispatch(l, c) ==
  DispatchRecv(l, c) \/ DispatchSend(l) \/ DispatchAbort(l) \/ CtxExit(l) \/ InputClosed(l, c)

Kafka(w) == KafkaRecv(w) \/ KafkaWrite(w) \/ CtxExit(w) \/ InputClosed(w, "ev")

Capture(q) == CaptureRecv(q) \/ CaptureDeliver(q) \/ CaptureExit(q) \/ CaptureError(q)

Next ==
  \/ Main
  \/ Signal
  \/ \E q \in Queues : Capture(q)
  \/ CloseOutput
  \/ \E w \in DecodeWorkers : Decoder(w)
  \/ Splitter
  \/ Reassembler
  \/ Dispatch("tcpLoop", "str")
  \/ Dispatch("udpLoop", "udp")
  \/ \E w \in KafkaWorkers : Kafka(w)

(* The Go scheduler runs every goroutine that can proceed.  Nothing is     *)
(* assumed of the traffic, of signals or of capture errors; of a select    *)
(* with several ready cases nothing but that one of them is taken.         *)
Fairness ==
  /\ WF_vars(Main)
  /\ \A q \in Queues : WF_vars(CaptureDeliver(q) \/ CaptureExit(q))
  /\ WF_vars(CloseOutput)
  /\ \A w \in DecodeWorkers : WF_vars(Decoder(w))
  /\ WF_vars(Splitter)
  /\ WF_vars(Reassembler)
  /\ WF_vars(Dispatch("tcpLoop", "str"))
  /\ WF_vars(Dispatch("udpLoop", "udp"))
  /\ \A w \in KafkaWorkers : WF_vars(Kafka(w))

Spec == Init /\ [][Next]_vars

FairSpec == Spec /\ Fairness
-----------------------------------------------------------------------------
(* Properties.                                                             *)

(* No goroutine sends on a closed channel and no channel is closed twice,  *)
(* whatever the interleaving of the stages' goroutines with main's Start   *)
(* and Stop calls: the order of stopInReverse and the wg.Wait in every     *)
(* Stop protect each close(...).                                           *)
NoPanic == ~panicked

(* The contract of Stage.Stop that Shutdown and the rollback in Run rely   *)
(* on: once Stop has returned, none of the stage's goroutines is running   *)
(* (so no event is written to a closed Kafka writer).                      *)
StopContract ==
  \A i \in 1..Len(Stages) :
    \/ mpc \in {"stop", "rollback"} /\ i > k
    \/ mpc \in {"closing", "exited"}
    => Exited(Goroutines[Stages[i]])

Places(p) ==
  {x \in Chans \X (1..ChannelBuffer) : x[2] <= Len(chan[x[1]]) /\ p \in chan[x[1]][x[2]]}
    \cup {<<"held", g>> : g \in {h \in Procs : p \in held[h]}}
    \cup {<<"dropped", c>> : c \in {d \in {"pkt", "str"} : p \in dropped[d]}}
    \cup (IF p \in wire THEN {<<"wire">>} ELSE {})
    \cup (IF p \in buf THEN {<<"buf">>} ELSE {})
    \cup (IF p \in discarded THEN {<<"discarded">>} ELSE {})
    \cup (IF p \in published THEN {<<"published">>} ELSE {})

(* A packet read from a socket is in exactly one place: no stage forwards  *)
(* it twice (a buffer flushed and not reset, an event sent twice), and     *)
(* none loses it other than where the code drops it deliberately.          *)
Conservation == \A p \in Packets : Cardinality(Places(p)) = 1

Settled(p) == p \in dropped["pkt"] \cup dropped["str"] \cup discarded \cup published

(* Where a packet is, as far as Delivery is concerned.                     *)
Whereabouts ==
  [p \in Packets |->
     IF p \in published THEN "published"
     ELSE IF Settled(p) THEN "lost"
     ELSE IF p \in wire THEN "wire"
     ELSE "inside"]

D == INSTANCE Delivery WITH place <- Whereabouts, open <- ~writersClosed

(* The pipeline implements Delivery: with all its goroutines, buffers and  *)
(* partial shutdowns it moves a packet only forward and only once, so that *)
(* nothing lost turns up in Kafka later, nothing is published twice or     *)
(* from the wire, and no worker publishes after CloseWriters.              *)
Delivers == D!Spec

(* Back-pressure never wedges the running pipeline: with every channel     *)
(* bounded, a captured packet is eventually published or dropped where the *)
(* code says so, unless the process is told to stop.                       *)
PacketsFlow == \A p \in Packets : (p \notin wire) ~> (Settled(p) \/ ctxDone)

(* A signal always leads to the Kafka writers being closed, and so to the  *)
(* batches handed to them being sent: main gets past Dispatcher.Stop and   *)
(* Producer.Stop whatever the goroutines were doing.                       *)
SignalClosesWriters == ctxDone ~> writersClosed

(* A signal ends the capture loops and closes the packet channel, also     *)
(* when nobody reads it any more.                                          *)
SignalStopsCapture == ctxDone ~> ("pkt" \in closed)

(* main.go:165: "Give stages a bounded amount of time to shut down": after *)
(* a signal, main gets through Shutdown and capturer.Close and returns.    *)
ShutdownTerminates == ctxDone ~> (mpc = "exited")

(* pipeline.go:46: when a stage fails to start, "previously started stages *)
(* are stopped in reverse order and the original error is returned".       *)
RollbackReturns == failed ~> (mpc = "exited")

(* packetSplitter's plain send, into a full channel whose reader has       *)
(* already left on ctx.Done.                                               *)
SplitterBlocked ==
  /\ pc["splitter"] = "send"
  /\ \/ held["splitter"] \subseteq TCPPackets /\ ~HasRoom("tcp") /\ pc["reassembler"] = "exit"
     \/ held["splitter"] \subseteq UDPPackets /\ ~HasRoom("udp") /\ pc["udpLoop"] = "exit"

(* With the stages stopped from the source of the data to its sink, the    *)
(* one way left for Shutdown to hang is the splitter's send (main.go:224): *)
(* every other wait in a Stop ends.                                        *)
HangsOnlyInSplitter == ctxDone ~> (mpc = "exited" \/ SplitterBlocked)
=============================================================================
