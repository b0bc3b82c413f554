--------------------------- MODULE Capture_proofs ---------------------------
(***************************************************************************)
(* For any number of queues, any buffer and any set of descriptors with    *)
(* one for each queue: the capturer leaks no socket however Start fails,   *)
(* never closes a socket under a running loop, never sends on its closed   *)
(* output, and its statistics account for every packet read.               *)
(***************************************************************************)
EXTENDS Capture, FiniteSetTheorems, TLAPS

(* Start is opening the socket of queue i, or has it and not its loop.     *)
Opening == {"socket", "bind", "rcvbuf", "fanout", "go"}

(* Start has returned without an error.                                    *)
Up == {"closer", "started", "waiting"}

(* The descriptors of the queues in qs.                                    *)
Sockets(qs) == {fdOf[q] : q \in qs}

(* The variables' types, without the bounds that follow from CountsAgree.  *)
TypeInv ==
  /\ spc \in {"start", "closed", "failed"} \cup Opening \cup Up
  /\ i \in Queues /\ cur \in Fds \cup {NoFd}
  /\ fds \in SUBSET Fds /\ open \in SUBSET Fds
  /\ ctxDone \in BOOLEAN /\ closer \in {"none", "waiting", "done"} /\ outClosed \in BOOLEAN
  /\ loop \in [Queues -> {"none", "check", "poll", "recv", "send", "sent", "full", "done"}]
  /\ fdOf \in [Queues -> Fds \cup {NoFd}]
  /\ output \in 0..OutputBuffer /\ reads \in 0..MaxReads
  /\ received \in Nat /\ dropped \in Nat /\ taken \in Nat

(* The loops that exist: those of the queues before i while Start runs.    *)
Launched ==
  /\ spc = "start" => i = 1 /\ \A q \in Queues : loop[q] = "none"
  /\ spc \in Opening => \A q \in Queues : loop[q] = "none" <=> q >= i
  /\ spc \in Up \cup {"closed"} => \A q \in Queues : loop[q] # "none"
  /\ spc = "closed" => \A q \in Queues : loop[q] = "done"

(* Each of them has a socket of its own.                                   *)
OwnSocket ==
  \A q \in Queues :
    /\ loop[q] = "none" <=> fdOf[q] = NoFd
    /\ \A r \in Queues : r # q /\ fdOf[q] # NoFd => fdOf[r] # fdOf[q]

(* a.fds and the kernel's table at each point of Start and Close.          *)
SocketTable ==
  /\ spc \in {"start", "failed", "closed"} => fds = {} /\ open = {}
  /\ spc = "socket" => fds = Sockets(1..i - 1) /\ open = fds
  /\ spc \in {"bind", "rcvbuf"} =>
       /\ fds = Sockets(1..i - 1) /\ open = fds \cup {cur}
       /\ cur \in Fds \ fds
  /\ spc \in {"fanout", "go"} =>
       /\ fds = Sockets(1..i - 1) \cup {cur} /\ open = fds
       /\ cur \in Fds \ Sockets(1..i - 1)
  /\ spc \in Up => fds = Sockets(Queues) /\ open = fds

(* The closer goroutine exists once Start has returned.                    *)
CloserInv ==
  /\ closer # "none" => spc \in {"started", "waiting", "closed"}
  /\ outClosed => closer = "done" /\ \A q \in Queues : loop[q] = "done"

(* The inductive invariant behind NoSocketLeak, LoopsHaveSockets and       *)
(* SendsOnOpen.                                                            *)
SocketInv == TypeInv /\ Launched /\ OwnSocket /\ SocketTable /\ CloserInv

-----------------------------------------------------------------------------
USE DEF Queues, Opening, Up

LEMMA QueueCount == NumQueues \in Nat /\ NumQueues > 0 /\ Queues # {}
BY CaptureAssumption

(* The kernel has a free descriptor for the socket of queue i: fewer than  *)
(* NumQueues are open.                                                     *)
LEMMA FreeDescriptor ==
  ASSUME SocketInv, spc = "socket"
  PROVE  \E fd \in Fds : fd \notin open
<1> SUFFICES ASSUME Fds \subseteq open PROVE FALSE
  OBVIOUS
<1>1. i \in 1..NumQueues /\ open = Sockets(1..i - 1) /\ open \in SUBSET Fds
  BY DEF SocketInv, TypeInv, SocketTable
<1>2. open = Fds
  BY <1>1
<1> DEFINE f == [q \in 1..i - 1 |-> fdOf[q]]
<1>3. f \in Surjection(1..i - 1, open)
  <2>1. \A q \in 1..i - 1 : f[q] \in open
    BY <1>1 DEF Sockets
  <2>2. \A fd \in open : \E q \in 1..i - 1 : f[q] = fd
    BY <1>1 DEF Sockets
  <2> QED BY <2>1, <2>2 DEF Surjection
<1>4. i - 1 \in Nat /\ i - 1 < NumQueues
  BY <1>1, QueueCount
<1>5. Cardinality(open) <= i - 1
  <2> HIDE DEF f
  <2>1. ExistsSurjection(1..i - 1, open)
    BY <1>3 DEF ExistsSurjection
  <2> QED BY <1>4, <2>1, FS_SurjCardinalityBound
<1>6. Cardinality(Fds) \in Nat
  BY CaptureAssumption, FS_CardinalityType
<1> QED BY <1>2, <1>4, <1>5, <1>6, CaptureAssumption

LEMMA SocketInit == Init => SocketInv
<1> SUFFICES ASSUME Init PROVE SocketInv
  OBVIOUS
<1>1. TypeInv
  <2>1. 1 \in Queues /\ 0 \in 0..OutputBuffer /\ 0 \in 0..MaxReads
    BY CaptureAssumption
  <2>2. loop \in [Queues -> {"none"}] /\ fdOf \in [Queues -> {NoFd}]
    BY DEF Init
  <2> QED BY <2>1, <2>2 DEF Init, TypeInv
<1>2. Launched /\ OwnSocket /\ SocketTable /\ CloserInv
  BY DEF Init, Launched, OwnSocket, SocketTable, CloserInv
<1> QED BY <1>1, <1>2 DEF SocketInv

(* Steps of Start that launch no loop.                                     *)
LEMMA SocketStart ==
  ASSUME SocketInv,
         \/ StartRejects \/ StartAccepts \/ Socket \/ Bind \/ SetBuffer \/ StartFails
         \/ Fanout \/ StartReturns
  PROVE  SocketInv'
<1> USE DEF countVars, Advance
<1>1. /\ UNCHANGED <<i, ctxDone, loop, fdOf, outClosed, output, reads, received, dropped, taken>>
      /\ \A qs : Sockets(qs)' = Sockets(qs)
  BY DEF StartRejects, StartAccepts, Socket, Bind, SetBuffer, StartFails, Fanout, StartReturns,
         Sockets
<1>2. OwnSocket'
  BY <1>1 DEF SocketInv, OwnSocket
<1>3. Launched' /\ CloserInv'
  BY <1>1 DEF SocketInv, Launched, CloserInv, TypeInv, 
     StartRejects, StartAccepts, Socket, Bind, SetBuffer, StartFails, Fanout, StartReturns
<1>4. TypeInv' /\ SocketTable'
  <2>1. CASE StartRejects \/ StartAccepts \/ Bind \/ Fanout
    BY <1>1, <2>1 DEF SocketInv, TypeInv, SocketTable, Sockets, Launched,
       StartRejects, StartAccepts, Bind, Fanout
  <2>2. CASE Socket
    <3>1. cur' \in Fds /\ cur' \notin open
      BY <2>2, FreeDescriptor DEF Socket
    <3> QED BY <1>1, <2>2, <3>1 DEF SocketInv, TypeInv, SocketTable, Socket
  <2>3. CASE SetBuffer
    BY <1>1, <2>3 DEF SocketInv, TypeInv, SocketTable, SetBuffer
  <2>4. CASE StartFails
    BY <1>1, <2>4 DEF SocketInv, TypeInv, SocketTable, StartFails, AfterCloseAllFDs, Abandoned
  <2>5. CASE StartReturns
    BY <1>1, <2>5 DEF SocketInv, TypeInv, SocketTable, StartReturns
  <2> QED BY <2>1, <2>2, <2>3, <2>4, <2>5
<1> QED BY <1>2, <1>3, <1>4 DEF SocketInv

(* The loop of queue i starts on the socket just opened.                   *)
LEMMA SocketGo ==
  ASSUME SocketInv, Go
  PROVE  SocketInv'
<1> USE DEF countVars, Go
<1>1. /\ i \in 1..NumQueues /\ spc = "go" /\ cur \in Fds \ Sockets(1..i - 1)
      /\ fds = Sockets(1..i - 1) \cup {cur} /\ open = fds /\ NoFd \notin Fds
      /\ fdOf \in [Queues -> Fds \cup {NoFd}]
  BY CaptureAssumption DEF SocketInv, TypeInv, SocketTable
<1>2. \A q \in Queues : loop[q] = "none" <=> q >= i
  BY <1>1 DEF SocketInv, Launched
<1>3. /\ loop' = [loop EXCEPT ![i] = "check"] /\ fdOf' = [fdOf EXCEPT ![i] = cur]
      /\ UNCHANGED <<cur, fds, open, closer, outClosed>>
  OBVIOUS
<1>4. {fdOf'[q] : q \in 1..i} = Sockets(1..i - 1) \cup {cur}
  <2>2. \A q \in 1..i : fdOf'[q] = IF q = i THEN cur ELSE fdOf[q]
    BY <1>1, <1>3
  <2>3. i \in 1..i /\ 1..i = (1..i - 1) \cup {i} /\ i \notin 1..i - 1
    BY <1>1
  <2> QED BY <2>2, <2>3 DEF Sockets
<1>5. OwnSocket'
  <2> SUFFICES ASSUME NEW q \in Queues
               PROVE  /\ loop'[q] = "none" <=> fdOf'[q] = NoFd
                      /\ \A r \in Queues : r # q /\ fdOf'[q] # NoFd => fdOf'[r] # fdOf'[q]
    BY DEF OwnSocket
  <2>1. loop'[q] = "none" <=> fdOf'[q] = NoFd
    BY <1>1, <1>3 DEF SocketInv, TypeInv, OwnSocket
  <2>2. ASSUME NEW r \in Queues, r # q, fdOf'[q] # NoFd PROVE fdOf'[r] # fdOf'[q]
    <3>1. \A p \in Queues : p # i => fdOf[p] # cur
      <4>1. \A p \in 1..i - 1 : fdOf[p] # cur
        BY <1>1 DEF Sockets
      <4>2. \A p \in Queues : p > i => fdOf[p] = NoFd
        BY <1>1, <1>2 DEF SocketInv, OwnSocket
      <4> QED BY <1>1, <4>1, <4>2, QueueCount
    <3> QED BY <1>1, <1>3, <2>2, <3>1 DEF SocketInv, OwnSocket
  <2> QED BY <2>1, <2>2
<1>6. TypeInv'
  BY <1>1, <1>3, QueueCount DEF SocketInv, TypeInv
<1>7. Launched' /\ SocketTable' /\ CloserInv'
  <2>0. closer = "none" /\ ~outClosed
    BY <1>1 DEF SocketInv, CloserInv, TypeInv
  <2>1. CASE i < NumQueues
    <3>1. i' = i + 1 /\ spc' = "socket" /\ 1..i' - 1 = 1..i
      BY <1>1, <2>1
    <3>2. \A q \in Queues : loop'[q] = "none" <=> q >= i'
      BY <1>1, <1>2, <1>3, <3>1, QueueCount DEF SocketInv, TypeInv
    <3> QED BY <1>1, <1>3, <1>4, <2>0, <3>1, <3>2 DEF Launched, SocketTable, CloserInv, Sockets
  <2>2. CASE ~(i < NumQueues)
    <3>1. i = NumQueues /\ spc' = "closer" /\ 1..i = Queues
      BY <1>1, <2>2, QueueCount
    <3>2. \A q \in Queues : loop'[q] # "none"
      BY <1>1, <1>2, <1>3, <3>1, QueueCount DEF SocketInv, TypeInv
    <3> QED BY <1>1, <1>3, <1>4, <2>0, <3>1, <3>2 DEF Launched, SocketTable, CloserInv, Sockets
  <2> QED BY <2>1, <2>2
<1> QED BY <1>5, <1>6, <1>7 DEF SocketInv

(* A loop moves: only one that runs does, and it does not come from or go  *)
(* to "none".                                                              *)
LEMMA SocketLoop ==
  ASSUME SocketInv, NEW q \in Queues, Loop(q)
  PROVE  SocketInv'
<1>1. /\ UNCHANGED <<spc, i, cur, fds, open, closer, ctxDone, fdOf, outClosed>>
      /\ loop[q] \notin {"none", "done"}
      /\ \E to \in {"check", "poll", "recv", "send", "sent", "full", "done"} :
           loop' = [loop EXCEPT ![q] = to]
  BY DEF Loop, Check, PollAgain, PollReady, LoopError, RecvAgain, RecvPacket, Deliver, Count,
         Step, startVars
<1>2. /\ output' \in 0..OutputBuffer /\ reads' \in 0..MaxReads
      /\ received' \in Nat /\ dropped' \in Nat /\ taken' \in Nat
  BY CaptureAssumption, SMTT(40)
     DEF SocketInv, TypeInv, Loop, Check, PollAgain, PollReady, LoopError, RecvAgain, RecvPacket,
         Deliver, Count, HasRoom, countVars
<1>3. TypeInv'
  BY <1>1, <1>2 DEF SocketInv, TypeInv
<1>4. Launched' /\ OwnSocket' /\ CloserInv'
  BY <1>1 DEF SocketInv, TypeInv, Launched, OwnSocket, CloserInv
<1>5. SocketTable'
  BY <1>1 DEF SocketInv, SocketTable, Sockets
<1> QED BY <1>3, <1>4, <1>5 DEF SocketInv

(* The closer, Close, the signal and the decoder.                          *)
LEMMA SocketRest ==
  ASSUME SocketInv, CloseOutput \/ CloseCancels \/ CloseReturns \/ Signal \/ Consume
  PROVE  SocketInv'
<1> USE DEF startVars, countVars, Advance
<1>1. /\ UNCHANGED <<i, cur, loop, fdOf, reads, received, dropped>>
      /\ \A qs : Sockets(qs)' = Sockets(qs)
  BY DEF CloseOutput, CloseCancels, CloseReturns, Signal, Consume, Sockets
<1>2. OwnSocket'
  BY <1>1 DEF SocketInv, OwnSocket
<1>3. TypeInv'
  <2>1. output' \in 0..OutputBuffer /\ taken' \in Nat
    BY CaptureAssumption
       DEF SocketInv, TypeInv, CloseOutput, CloseCancels, CloseReturns, Signal, Consume
  <2>2. /\ spc' \in {"start", "closed", "failed"} \cup Opening \cup Up
        /\ fds' \in SUBSET Fds /\ open' \in SUBSET Fds
        /\ ctxDone' \in BOOLEAN /\ closer' \in {"none", "waiting", "done"} /\ outClosed' \in BOOLEAN
    BY DEF SocketInv, TypeInv, CloseOutput, CloseCancels, CloseReturns, Signal, Consume,
           AfterCloseAllFDs
  <2> QED BY <1>1, <2>1, <2>2 DEF SocketInv, TypeInv
<1>4. SocketTable'
  BY <1>1 DEF SocketInv, SocketTable, CloseOutput, CloseCancels, CloseReturns, Signal, Consume,
              AfterCloseAllFDs
<1>5. Launched' /\ CloserInv'
  BY <1>1 DEF SocketInv, TypeInv, Launched, CloserInv, CloseOutput, CloseCancels, CloseReturns,
              Signal, Consume, LoopsDone
<1> QED BY <1>2, <1>3, <1>4, <1>5 DEF SocketInv

(* The table of sockets and the loops agree at every point of Start, of    *)
(* its error path and of Close.                                            *)
THEOREM SocketSafety == Spec => []SocketInv
<1>1. SocketInv /\ [Next]_vars => SocketInv'
  <2> SUFFICES ASSUME SocketInv, [Next]_vars PROVE SocketInv'
    OBVIOUS
  <2>1. CASE Starting
    BY <2>1, SocketStart, SocketGo DEF Starting
  <2>2. CASE \E q \in Queues : Loop(q)
    BY <2>2, SocketLoop
  <2>3. CASE CloseOutput \/ CloseCancels \/ CloseReturns \/ Signal \/ Consume
    BY <2>3, SocketRest
  <2>4. CASE UNCHANGED vars
    BY <2>4 DEF vars, startVars, countVars, SocketInv, TypeInv, Launched, OwnSocket, SocketTable,
                CloserInv, Sockets
  <2> QED BY <2>1, <2>2, <2>3, <2>4 DEF Next
<1> QED BY <1>1, SocketInit, PTL DEF Spec

(* No descriptor stays open when Start has failed or Close has returned.   *)
THEOREM SocketsReleased == Spec => []NoSocketLeak
<1>1. SocketInv => NoSocketLeak
  BY DEF SocketInv, SocketTable, NoSocketLeak
<1> QED BY <1>1, SocketSafety, PTL

(* A running loop has an open socket that no other loop uses.              *)
THEOREM SocketsOwned == Spec => []LoopsHaveSockets
<1>1. SocketInv => LoopsHaveSockets
  <2> SUFFICES ASSUME SocketInv, spc # "failed",
                      NEW q \in Queues, loop[q] \notin {"none", "done"}
               PROVE  fdOf[q] \in open /\ \A r \in Queues : r # q => fdOf[r] # fdOf[q]
    BY DEF LoopsHaveSockets
  <2>1. fdOf[q] # NoFd /\ \A r \in Queues : r # q => fdOf[r] # fdOf[q]
    BY DEF SocketInv, OwnSocket
  <2>2. CASE spc \in Opening
    <3>1. i \in 1..NumQueues /\ q \in 1..i - 1
      BY <2>2, QueueCount DEF SocketInv, TypeInv, Launched
    <3>2. fdOf[q] \in Sockets(1..i - 1)
      BY <3>1 DEF Sockets
    <3> QED BY <2>1, <2>2, <3>2 DEF SocketInv, SocketTable
  <2>3. CASE spc \in Up
    <3>1. fdOf[q] \in Sockets(Queues)
      BY DEF Sockets
    <3> QED BY <2>1, <2>3, <3>1 DEF SocketInv, SocketTable
  <2>4. spc \in Opening \cup Up
    BY DEF SocketInv, TypeInv, Launched
  <2> QED BY <2>1, <2>2, <2>3, <2>4
<1> QED BY <1>1, SocketSafety, PTL

(* The output is closed only after the last loop has ended.                *)
THEOREM OutputClosedLast == Spec => []SendsOnOpen
<1>1. SocketInv => SendsOnOpen
  BY DEF SocketInv, CloserInv, SendsOnOpen
<1> QED BY <1>1, SocketSafety, PTL

-----------------------------------------------------------------------------
(* The statistics.                                                         *)

(* How many loops are at one of the places.                                *)
LEMMA AtType == \A places : At(places) \in Nat
<1> SUFFICES ASSUME NEW places PROVE At(places) \in Nat
  OBVIOUS
<1>1. IsFiniteSet(Queues)
  BY QueueCount, FS_Interval
<1> QED BY <1>1, FS_Subset, FS_CardinalityType DEF At

LEMMA AtMonotonic ==
  ASSUME NEW P, NEW Q, P \subseteq Q
  PROVE  At(P) <= At(Q)
<1>1. IsFiniteSet(Queues)
  BY QueueCount, FS_Interval
<1>2. IsFiniteSet({q \in Queues : loop[q] \in Q})
  BY <1>1, FS_Subset
<1>3. {q \in Queues : loop[q] \in P} \in SUBSET {q \in Queues : loop[q] \in Q}
  OBVIOUS
<1> QED BY <1>2, <1>3, FS_Subset DEF At

(* What a step of one loop does to the number at the places P.             *)
LEMMA AtStep ==
  ASSUME TypeInv, NEW q \in Queues, NEW to, loop' = [loop EXCEPT ![q] = to], NEW P
  PROVE  /\ At(P) \in Nat /\ At(P)' \in Nat
         /\ (loop[q] \in P <=> to \in P) => At(P)' = At(P)
         /\ loop[q] \notin P /\ to \in P => At(P)' = At(P) + 1
         /\ loop[q] \in P /\ to \notin P => At(P) = At(P)' + 1
<1> DEFINE here  == {r \in Queues : loop[r] \in P}
           there == {r \in Queues : loop'[r] \in P}
<1>1. IsFiniteSet(here) /\ IsFiniteSet(there)
  <2>1. IsFiniteSet(Queues)
    BY QueueCount, FS_Interval
  <2> QED BY <2>1, FS_Subset
<1>2. \A r \in Queues : loop'[r] = IF r = q THEN to ELSE loop[r]
  BY DEF TypeInv
<1>3. ASSUME loop[q] \in P <=> to \in P PROVE here = there
  BY <1>2, <1>3
<1>4. ASSUME loop[q] \notin P, to \in P PROVE there = here \cup {q} /\ q \notin here
  BY <1>2, <1>4
<1>5. ASSUME loop[q] \in P, to \notin P PROVE here = there \cup {q} /\ q \notin there
  BY <1>2, <1>5
<1>6. At(P) = Cardinality(here) /\ At(P)' = Cardinality(there)
  BY DEF At
<1> HIDE DEF here, there
<1> QED BY <1>1, <1>3, <1>4, <1>5, <1>6, FS_AddElement, FS_CardinalityType

(* The loops between the send and its counter; those that hold a packet.   *)
Sent == {"sent"}
Held == {"send", "sent", "full"}

LEMMA CountsLoop ==
  ASSUME TypeInv, CountsAgree, NEW q \in Queues, Loop(q)
  PROVE  CountsAgree'
<1>0. /\ received + At(Sent) = taken + output
      /\ reads = received + dropped + At(Held)
  BY DEF CountsAgree, Sent, Held
<1> SUFFICES /\ received' + At(Sent)' = taken' + output'
             /\ reads' = received' + dropped' + At(Held)'
  BY DEF CountsAgree, Sent, Held
<1>1. /\ output \in Nat /\ reads \in Nat /\ received \in Nat /\ dropped \in Nat /\ taken \in Nat
  BY CaptureAssumption DEF TypeInv
<1>2. CASE Check(q) \/ PollAgain(q) \/ PollReady(q) \/ LoopError(q) \/ RecvAgain(q)
  <2>1. PICK to \in {"check", "poll", "recv", "done"} : loop' = [loop EXCEPT ![q] = to]
    BY <1>2 DEF Check, PollAgain, PollReady, LoopError, RecvAgain, Step
  <2>2. UNCHANGED countVars
    BY <1>2 DEF Check, PollAgain, PollReady, LoopError, RecvAgain
  <2>3. loop[q] \notin Sent /\ to \notin Sent /\ loop[q] \notin Held /\ to \notin Held
    BY <1>2 DEF Check, PollAgain, PollReady, LoopError, RecvAgain, Step, Sent, Held
  <2>4. At(Sent)' = At(Sent) /\ At(Held)' = At(Held)
    BY <2>1, <2>3, AtStep
  <2> QED BY <1>0, <2>2, <2>4 DEF countVars
<1>3. CASE RecvPacket(q)
  <2>1. /\ loop' = [loop EXCEPT ![q] = "send"] /\ loop[q] \notin Sent /\ "send" \notin Sent
        /\ loop[q] \notin Held /\ "send" \in Held
    BY <1>3 DEF RecvPacket, Step, Sent, Held
  <2>2. At(Sent)' = At(Sent) /\ At(Held)' = At(Held) + 1 /\ At(Held) \in Nat
    BY <2>1, AtStep
  <2> QED BY <1>0, <1>1, <1>3, <2>2 DEF RecvPacket
<1>4. CASE Deliver(q)
  <2>1. CASE HasRoom /\ Step(q, "send", "sent") /\ output' = output + 1
    <3>1. /\ loop' = [loop EXCEPT ![q] = "sent"] /\ loop[q] \notin Sent /\ "sent" \in Sent
          /\ loop[q] \in Held /\ "sent" \in Held
      BY <2>1 DEF Step, Sent, Held
    <3>2. At(Sent)' = At(Sent) + 1 /\ At(Held)' = At(Held) /\ At(Sent) \in Nat
      BY <3>1, AtStep
    <3> QED BY <1>0, <1>1, <1>4, <2>1, <3>2 DEF Deliver
  <2>2. CASE ~HasRoom /\ Step(q, "send", "full") /\ UNCHANGED output
    <3>1. /\ loop' = [loop EXCEPT ![q] = "full"] /\ loop[q] \notin Sent /\ "full" \notin Sent
          /\ loop[q] \in Held /\ "full" \in Held
      BY <2>2 DEF Step, Sent, Held
    <3>2. At(Sent)' = At(Sent) /\ At(Held)' = At(Held)
      BY <3>1, AtStep
    <3> QED BY <1>0, <1>4, <2>2, <3>2 DEF Deliver
  <2> QED BY <1>4, <2>1, <2>2 DEF Deliver
<1>5. CASE Count(q)
  <2>0. "check" \notin Sent /\ "check" \notin Held
    BY DEF Sent, Held
  <2>1. CASE Step(q, "sent", "check") /\ received' = received + 1 /\ UNCHANGED dropped
    <3>1. loop' = [loop EXCEPT ![q] = "check"] /\ loop[q] \in Sent /\ loop[q] \in Held
      BY <2>1 DEF Step, Sent, Held
    <3>2. /\ At(Sent) = At(Sent)' + 1 /\ At(Held) = At(Held)' + 1
          /\ At(Sent)' \in Nat /\ At(Held)' \in Nat
      BY <2>0, <3>1, AtStep
    <3> QED BY <1>0, <1>1, <1>5, <2>1, <3>2 DEF Count
  <2>2. CASE Step(q, "full", "check") /\ dropped' = dropped + 1 /\ UNCHANGED received
    <3>1. loop' = [loop EXCEPT ![q] = "check"] /\ loop[q] \notin Sent /\ loop[q] \in Held
      BY <2>2 DEF Step, Sent, Held
    <3>2. At(Sent)' = At(Sent) /\ At(Held) = At(Held)' + 1 /\ At(Held)' \in Nat
      BY <2>0, <3>1, AtStep
    <3> QED BY <1>0, <1>1, <1>5, <2>2, <3>2 DEF Count
  <2> QED BY <1>5, <2>1, <2>2 DEF Count
<1> QED BY <1>2, <1>3, <1>4, <1>5 DEF Loop

LEMMA AtUnchanged ==
  ASSUME UNCHANGED loop
  PROVE  \A P : At(P)' = At(P)
BY DEF At

LEMMA CountsInit == Init => CountsAgree
<1> SUFFICES ASSUME Init PROVE CountsAgree
  OBVIOUS
<1>1. ASSUME NEW P, "none" \notin P PROVE At(P) = 0
  <2>1. {q \in Queues : loop[q] \in P} = {}
    BY <1>1 DEF Init
  <2> QED BY <2>1, FS_EmptySet DEF At
<1>2. At({"sent"}) = 0 /\ At({"send", "sent", "full"}) = 0
  BY <1>1
<1> QED BY <1>2 DEF Init, CountsAgree

(* Stats: every packet read is counted once, or still in its loop.         *)
THEOREM CountsExact == Spec => []CountsAgree
<1>1. SocketInv /\ CountsAgree /\ [Next]_vars => CountsAgree'
  <2> SUFFICES ASSUME SocketInv, TypeInv, CountsAgree, [Next]_vars PROVE CountsAgree'
    BY DEF SocketInv
  <2>1. CASE \E q \in Queues : Loop(q)
    BY <2>1, CountsLoop
  <2>2. CASE Go
    <3>1. i \in Queues /\ loop' = [loop EXCEPT ![i] = "check"] /\ UNCHANGED countVars
      BY <2>2 DEF Go, TypeInv
    <3>2. loop[i] = "none"
      BY <2>2, <3>1 DEF Go, SocketInv, Launched
    <3>3. /\ loop[i] \notin Sent /\ "check" \notin Sent
          /\ loop[i] \notin Held /\ "check" \notin Held
      BY <3>2 DEF Sent, Held
    <3>4. At(Sent)' = At(Sent) /\ At(Held)' = At(Held)
      BY <3>1, <3>3, AtStep
    <3> QED BY <3>1, <3>4 DEF CountsAgree, countVars, Sent, Held
  <2>3. CASE \/ StartRejects \/ StartAccepts \/ Socket \/ Bind \/ SetBuffer \/ StartFails
             \/ Fanout \/ StartReturns \/ CloseOutput \/ CloseCancels \/ CloseReturns \/ Signal
             \/ UNCHANGED vars
    <3>1. UNCHANGED loop /\ UNCHANGED countVars
      BY <2>3 DEF StartRejects, StartAccepts, Socket, Bind, SetBuffer, StartFails, Fanout,
                  StartReturns, CloseOutput, CloseCancels, CloseReturns, Signal, Advance, vars
    <3> QED BY <3>1, AtUnchanged DEF CountsAgree, countVars
  <2>4. CASE Consume
    <3>1. UNCHANGED <<loop, reads, received, dropped>> /\ taken' + output' = taken + output
      BY <2>4, CaptureAssumption DEF Consume, TypeInv
    <3> QED BY <3>1, AtUnchanged DEF CountsAgree
  <2> QED BY <2>1, <2>2, <2>3, <2>4 DEF Next, Starting
<1> QED BY <1>1, CountsInit, SocketSafety, PTL DEF Spec

(* The types, with the counters bounded by the packets read.               *)
THEOREM CaptureTypeCorrect == Spec => []TypeOK
<1>1. SocketInv /\ CountsAgree => TypeOK
  <2> SUFFICES ASSUME TypeInv, CountsAgree PROVE TypeOK
    BY DEF SocketInv
  <2>1. /\ At({"sent"}) \in Nat /\ At({"send", "sent", "full"}) \in Nat
        /\ At({"sent"}) <= At({"send", "sent", "full"})
    BY AtType, AtMonotonic
  <2>2. {reads, received, dropped, taken} \subseteq 0..MaxReads
    BY <2>1, CaptureAssumption DEF TypeInv, CountsAgree
  <2> QED BY <2>2 DEF TypeInv, TypeOK
<1> QED BY <1>1, SocketSafety, CountsExact, PTL
=============================================================================
