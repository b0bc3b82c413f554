------------------------------- MODULE Capture -------------------------------
(***************************************************************************)
(* The AF_PACKET capturer (internal/capture/afpacket): Start opens one     *)
(* socket per queue and launches its loop before it opens the next, so an  *)
(* error half-way finds loops running; the loops poll, read and hand on    *)
(* packets until the context is cancelled; a closer goroutine closes the   *)
(* output after the last of them; Close cancels, waits and closes the      *)
(* sockets.                                                                *)
(*                                                                         *)
(* Pipeline starts where Start has succeeded; this module has the sockets, *)
(* the steps of the loop and the statistics that Pipeline leaves out.  The *)
(* kernel is external: any call may fail, a poll may time out at any time. *)
(***************************************************************************)
EXTENDS Naturals, FiniteSets

CONSTANTS
  NumQueues,     \* cfg.NumQueues, after defaults()
  OutputBuffer,  \* cfg.OutputBuffer
  Fds,           \* descriptors the kernel hands out
  NoFd,
  MaxReads       \* bound: packets read in one behaviour

ASSUME CaptureAssumption ==
  /\ NumQueues \in Nat \ {0} /\ OutputBuffer \in Nat \ {0} /\ MaxReads \in Nat
  /\ IsFiniteSet(Fds) /\ Cardinality(Fds) >= NumQueues /\ NoFd \notin Fds

Queues == 1..NumQueues

VARIABLES
  spc,        \* where main is in Start and Close
  i, cur,     \* queue being opened, its descriptor
  fds,        \* a.fds
  open,       \* descriptors open in the kernel
  ctxDone,    \* the capture context is cancelled
  loop, fdOf, \* each captureLoop's place and socket
  closer, outClosed,          \* the closer goroutine; a.output is closed
  output,                     \* packets in a.output
  reads, received, dropped, taken   \* packets read; Stats; packets the decoder took

startVars == <<spc, i, cur, fds, open, closer>>
countVars == <<output, reads, received, dropped, taken>>
vars      == <<startVars, ctxDone, loop, fdOf, outClosed, countVars>>

(* Every variable has its type; the output never exceeds its capacity.     *)
TypeOK ==
  /\ spc \in {"start", "socket", "bind", "rcvbuf", "fanout", "go", "closer",
              "started", "waiting", "closed", "failed"}
  /\ i \in Queues /\ cur \in Fds \cup {NoFd}
  /\ fds \in SUBSET Fds /\ open \in SUBSET Fds
  /\ ctxDone \in BOOLEAN /\ closer \in {"none", "waiting", "done"} /\ outClosed \in BOOLEAN
  /\ loop \in [Queues -> {"none", "check", "poll", "recv", "send", "sent", "full", "done"}]
  /\ fdOf \in [Queues -> Fds \cup {NoFd}]
  /\ output \in 0..OutputBuffer
  /\ {reads, received, dropped, taken} \subseteq 0..MaxReads

Init ==
  /\ spc = "start" /\ i = 1 /\ cur = NoFd /\ fds = {} /\ open = {}
  /\ ctxDone = FALSE /\ closer = "none" /\ outClosed = FALSE
  /\ loop = [q \in Queues |-> "none"] /\ fdOf = [q \in Queues |-> NoFd]
  /\ output = 0 /\ reads = 0 /\ received = 0 /\ dropped = 0 /\ taken = 0

-----------------------------------------------------------------------------
(* Start.                                                                  *)

Advance(from, to) ==
  /\ spc = from /\ spc' = to
  /\ UNCHANGED <<ctxDone, loop, fdOf, outClosed, countVars>>

(* No interface name, an unknown interface, an unsupported fanout type.    *)
StartRejects == Advance("start", "failed") /\ UNCHANGED <<i, cur, fds, open, closer>>

StartAccepts == Advance("start", "socket") /\ UNCHANGED <<i, cur, fds, open, closer>>

(* openSocket: socket, bind and SO_RCVBUF succeed one after another; the   *)
(* descriptor joins a.fds on return.                                       *)
Socket ==
  /\ Advance("socket", "bind")
  /\ cur' = CHOOSE fd \in Fds : fd \notin open
  /\ open' = open \cup {cur'}
  /\ UNCHANGED <<i, fds, closer>>

Bind == Advance("bind", "rcvbuf") /\ UNCHANGED <<i, cur, fds, open, closer>>

SetBuffer ==
  /\ Advance("rcvbuf", "fanout")
  /\ fds' = fds \cup {cur}
  /\ UNCHANGED <<i, cur, open, closer>>

(* Mutant of Abandoned: a failed bind or setsockopt leaves its socket open.*)
AbandonNothing == {}

(* The descriptor openSocket itself closes when a call after socket fails. *)
Abandoned == IF spc \in {"bind", "rcvbuf"} THEN {cur} ELSE {}

(* What is still open after closeAllFDs.                                   *)
AfterCloseAllFDs(descriptors) == descriptors \ fds

(* A call for queue i fails: closeAllFDs, and Start returns the error.     *)
StartFails ==
  /\ spc \in {"socket", "bind", "rcvbuf"} \/ (spc = "fanout" /\ NumQueues > 1)
  /\ Advance(spc, "failed")
  /\ open' = AfterCloseAllFDs(open \ Abandoned)
  /\ fds' = {}
  /\ UNCHANGED <<i, cur, closer>>

(* PACKET_FANOUT is set, or skipped for a single queue.                    *)
Fanout == Advance("fanout", "go") /\ UNCHANGED <<i, cur, fds, open, closer>>

(* a.wg.Add(1); go a.captureLoop(ctx, fd, i).                              *)
Go ==
  /\ spc = "go"
  /\ loop' = [loop EXCEPT ![i] = "check"]
  /\ fdOf' = [fdOf EXCEPT ![i] = cur]
  /\ IF i < NumQueues THEN i' = i + 1 /\ spc' = "socket" ELSE UNCHANGED i /\ spc' = "closer"
  /\ UNCHANGED <<cur, fds, open, closer, ctxDone, outClosed, countVars>>

StartReturns ==
  /\ Advance("closer", "started")
  /\ closer' = "waiting"
  /\ UNCHANGED <<i, cur, fds, open>>

-----------------------------------------------------------------------------
(* captureLoop.  A system call under way when the error path of Start      *)
(* closes its descriptor still completes, so no call is guarded by open.   *)

Step(q, from, to) ==
  /\ loop[q] = from
  /\ loop' = [loop EXCEPT ![q] = to]
  /\ UNCHANGED <<startVars, ctxDone, fdOf, outClosed>>

(* The select at the top of the loop.                                      *)
Check(q) == Step(q, "check", IF ctxDone THEN "done" ELSE "poll") /\ UNCHANGED countVars

(* Mutant of PollAgain: poll waits for traffic without a timeout.          *)
PollForever(q) == FALSE /\ Step(q, "poll", "check") /\ UNCHANGED countVars

(* Poll times out, or EINTR.                                               *)
PollAgain(q) == Step(q, "poll", "check") /\ UNCHANGED countVars

(* Poll reports the socket ready (a closed one too, with POLLNVAL).        *)
PollReady(q) == Step(q, "poll", "recv") /\ UNCHANGED countVars

(* Poll or Recvfrom fails for good, as Recvfrom does on a closed socket.   *)
LoopError(q) ==
  /\ Step(q, "poll", "done") \/ Step(q, "recv", "done")
  /\ UNCHANGED countVars

(* EINTR, EAGAIN or an empty read.                                         *)
RecvAgain(q) == Step(q, "recv", "check") /\ UNCHANGED countVars

RecvPacket(q) ==
  /\ reads < MaxReads
  /\ Step(q, "recv", "send")
  /\ reads' = reads + 1
  /\ UNCHANGED <<output, received, dropped, taken>>

(* Mutant of HasRoom: one packet too many fits.                            *)
HasRoomOffByOne == output <= OutputBuffer

HasRoom == output < OutputBuffer

(* The non-blocking send.                                                  *)
Deliver(q) ==
  /\ \/ HasRoom /\ Step(q, "send", "sent") /\ output' = output + 1
     \/ ~HasRoom /\ Step(q, "send", "full") /\ UNCHANGED output
  /\ UNCHANGED <<reads, received, dropped, taken>>

(* Mutant of Count: a dropped packet counts as received as well.           *)
CountBoth(q) ==
  /\ \/ Step(q, "sent", "check") /\ received' = received + 1 /\ UNCHANGED dropped
     \/ Step(q, "full", "check") /\ received' = received + 1 /\ dropped' = dropped + 1
  /\ UNCHANGED <<output, reads, taken>>

(* The counter, updated after the send: the decoder may already have the   *)
(* packet.                                                                 *)
Count(q) ==
  /\ \/ Step(q, "sent", "check") /\ received' = received + 1 /\ UNCHANGED dropped
     \/ Step(q, "full", "check") /\ dropped' = dropped + 1 /\ UNCHANGED received
  /\ UNCHANGED <<output, reads, taken>>

Loop(q) ==
  \/ Check(q) \/ PollAgain(q) \/ PollReady(q) \/ LoopError(q)
  \/ RecvAgain(q) \/ RecvPacket(q) \/ Deliver(q) \/ Count(q)

-----------------------------------------------------------------------------
(* Mutant of LoopsDone: the WaitGroup is never incremented.                *)
WaitForNobody == TRUE

(* a.wg.Wait().                                                            *)
LoopsDone == \A q \in Queues : loop[q] \in {"none", "done"}

(* The closer goroutine.                                                   *)
CloseOutput ==
  /\ closer = "waiting" /\ LoopsDone
  /\ closer' = "done" /\ outClosed' = TRUE
  /\ UNCHANGED <<spc, i, cur, fds, open, ctxDone, loop, fdOf, countVars>>

(* SIGINT or SIGTERM: the parent context is cancelled.                     *)
Signal ==
  /\ ~ctxDone
  /\ ctxDone' = TRUE
  /\ UNCHANGED <<startVars, loop, fdOf, outClosed, countVars>>

(* Close: a.cancel(), then a.wg.Wait(), then closeAllFDs.                  *)
CloseCancels ==
  /\ spc = "started"
  /\ spc' = "waiting" /\ ctxDone' = TRUE
  /\ UNCHANGED <<i, cur, fds, open, closer, loop, fdOf, outClosed, countVars>>

CloseReturns ==
  /\ LoopsDone
  /\ Advance("waiting", "closed")
  /\ open' = AfterCloseAllFDs(open)
  /\ fds' = {}
  /\ UNCHANGED <<i, cur, closer>>

(* The decoder receives a packet.                                          *)
Consume ==
  /\ output > 0
  /\ output' = output - 1 /\ taken' = taken + 1
  /\ UNCHANGED <<startVars, ctxDone, loop, fdOf, outClosed, reads, received, dropped>>

Starting ==
  \/ StartRejects \/ StartAccepts \/ Socket \/ Bind \/ SetBuffer \/ StartFails
  \/ Fanout \/ Go \/ StartReturns

Next ==
  \/ Starting
  \/ \E q \in Queues : Loop(q)
  \/ CloseOutput \/ CloseCancels \/ CloseReturns
  \/ Signal \/ Consume

Spec == Init /\ [][Next]_vars

(* Goroutines run, polls end after 100 ms; nothing is assumed of traffic,  *)
(* signals or of main calling Close.                                       *)
FairSpec ==
  /\ Spec
  /\ WF_vars(Starting) /\ WF_vars(CloseOutput) /\ WF_vars(CloseReturns)
  /\ \A q \in Queues : WF_vars(Check(q) \/ PollAgain(q) \/ RecvAgain(q) \/ Deliver(q) \/ Count(q))

-----------------------------------------------------------------------------
(* No descriptor is left open by a Start that fails at any call for any    *)
(* queue (142-156, 193-202), nor by Close.                                 *)
NoSocketLeak == spc \in {"failed", "closed"} => open = {}

(* Unless Start has failed, when main exits: a loop polls and reads its    *)
(* own open socket, shared with no other loop; Close closes none under it. *)
LoopsHaveSockets ==
  spc # "failed" =>
    \A q \in Queues : loop[q] \notin {"none", "done"} =>
      fdOf[q] \in open /\ \A r \in Queues : r # q => fdOf[r] # fdOf[q]

(* The closer closes a.output only when no loop can send on it any more.   *)
SendsOnOpen == outClosed => \A q \in Queues : loop[q] = "done"

At(places) == Cardinality({q \in Queues : loop[q] \in places})

(* Stats accounts for every packet read, whatever the loops and the        *)
(* decoder do between a send and its counter: a packet is still in its     *)
(* loop or counted once, as received if and only if it was handed on.      *)
CountsAgree ==
  /\ received + At({"sent"}) = taken + output
  /\ reads = received + dropped + At({"send", "sent", "full"})

(* Close returns, with its sockets closed, and the output channel ends,    *)
(* with no traffic to wake the polls.                                      *)
CloseTerminates == (spc = "waiting") ~> (spc = "closed" /\ outClosed)
=============================================================================
