-------------------------- MODULE Reassembly_proofs --------------------------
(***************************************************************************)
(* For any connections, any sizes of segments, buffers and channel, and    *)
(* any number of bytes and of uses of a 4-tuple: a stream's buffers stay   *)
(* below the threshold, the dispatcher gets each direction in order and    *)
(* without repetition, complete as long as no chunk is dropped, and the    *)
(* close marker comes last.                                                *)
(***************************************************************************)
EXTENDS Reassembly, SequenceTheorems, TLAPS

(* Which streams exist, and what ReassemblyComplete has flushed so far.    *)
StreamInv ==
  /\ \A c \in Conns : open[c] => inc[c] >= 1
  /\ \A c \in Conns, d \in Dirs : ~open[c] => buf[c][d] = << >>
  /\ step # "idle" => open[cur]
  /\ step \in {"server", "marker"} => buf[cur]["client"] = << >>
  /\ step = "marker" => buf[cur]["server"] = << >>

(* The number of units of each direction that have left its buffer.        *)
Flushed == [c \in Conns |-> [d \in Dirs |-> sent[c][d] - Len(buf[c][d])]]

(* data is the units after n, in order.                                    *)
Follows(n, data) == \A x \in 1..Len(data) : data[x] = n + x

(* A buffer holds the last units the engine has brought.                   *)
BufInv ==
  \A c \in Conns, d \in Dirs : Flushed[c][d] >= 0 /\ Follows(Flushed[c][d], buf[c][d])

(* What is emitted belongs to a stream there has been, and of the present  *)
(* stream it is a part that has left the buffer; a marker belongs to a     *)
(* stream that is over.                                                    *)
PastInv ==
  \A a \in 1..Len(Emitted) :
    LET m == Emitted[a] IN
      /\ m.inc <= inc[m.conn]
      /\ m.closed => ~open[m.conn] \/ m.inc < inc[m.conn]
      /\ ~m.closed /\ m.inc = inc[m.conn] => \A n \in Units(m.data) : n <= Flushed[m.conn][m.dir]
      /\ Ascending(m.data)

OrderInv ==
  \A a, b \in 1..Len(Emitted) :
    a < b /\ SameDirection(Emitted[a], Emitted[b]) => Before(Emitted[a].data, Emitted[b].data)

(* Of a direction without a dropped chunk, all that has left the buffer    *)
(* has been emitted.                                                       *)
CompleteInv ==
  \A c \in Conns, d \in Dirs : <<c, inc[c], d>> \notin dropped =>
    \A n \in 1..Flushed[c][d] :
      \E a \in 1..Len(Emitted) : ChunkOf(Emitted[a], c, inc[c], d) /\ n \in Units(Emitted[a].data)

(* The inductive invariant.                                                *)
ReassemblyInv ==
  RTypeOK /\ StreamInv /\ BufInv /\ PastInv /\ OrderInv /\ CompleteInv /\ MarkerLast

-----------------------------------------------------------------------------
(* The channel and its reader as one sequence.                             *)

LEMMA EmittedType ==
  ASSUME RTypeOK
  PROVE  Emitted \in Seq(Messages) /\ Len(Emitted) \in Nat
         /\ \A a \in 1..Len(Emitted) : Emitted[a] \in Messages
BY DEF RTypeOK, Emitted

LEMMA EmittedStays ==
  ASSUME UNCHANGED <<output, rcvd>>
  PROVE  Emitted' = Emitted
BY DEF Emitted

LEMMA EmittedGrows ==
  ASSUME RTypeOK, NEW m \in Messages, output' = Append(output, m), rcvd' = rcvd
  PROVE  /\ Len(Emitted') = Len(Emitted) + 1
         /\ \A a \in 1..Len(Emitted) : Emitted'[a] = Emitted[a]
         /\ Emitted'[Len(Emitted) + 1] = m
<1>1. /\ output \in Seq(Messages) /\ rcvd \in Seq(Messages) /\ output' \in Seq(Messages)
      /\ Len(output') = Len(output) + 1 /\ Len(output) \in Nat /\ Len(rcvd) \in Nat
      /\ \A a \in 1..Len(output) : output'[a] = output[a]
      /\ output'[Len(output) + 1] = m
  BY DEF RTypeOK
<1>2. /\ Len(Emitted) = Len(rcvd) + Len(output)
      /\ \A a \in 1..Len(rcvd) + Len(output) :
           Emitted[a] = IF a <= Len(rcvd) THEN rcvd[a] ELSE output[a - Len(rcvd)]
  BY <1>1, ConcatProperties DEF Emitted
<1>3. /\ Len(Emitted') = Len(rcvd) + Len(output')
      /\ \A a \in 1..Len(rcvd) + Len(output') :
           Emitted'[a] = IF a <= Len(rcvd) THEN rcvd[a] ELSE output'[a - Len(rcvd)]
  BY <1>1, ConcatProperties DEF Emitted
<1>4. \A a \in 1..Len(Emitted) : Emitted'[a] = Emitted[a]
  <2> TAKE a \in 1..Len(Emitted)
  <2>1. CASE a <= Len(rcvd)
    BY <1>1, <1>2, <1>3, <2>1, SMTT(40)
  <2>2. CASE a > Len(rcvd)
    <3>1. a - Len(rcvd) \in 1..Len(output)
      BY <1>1, <1>2, <2>2
    <3> QED BY <1>1, <1>2, <1>3, <2>2, <3>1
  <2> QED BY <1>1, <1>2, <2>1, <2>2
<1>5. Emitted'[Len(Emitted) + 1] = m
  <2>1. /\ Len(Emitted) + 1 \in 1..Len(rcvd) + Len(output') /\ ~(Len(Emitted) + 1 <= Len(rcvd))
        /\ (Len(Emitted) + 1) - Len(rcvd) = Len(output) + 1
    BY <1>1, <1>2
  <2> QED BY <1>1, <1>3, <2>1
<1> QED BY <1>1, <1>2, <1>3, <1>4, <1>5

LEMMA EmittedMoves ==
  ASSUME RTypeOK, Consume
  PROVE  Emitted' = Emitted
<1>1. /\ output \in Seq(Messages) /\ rcvd \in Seq(Messages) /\ output # << >>
      /\ rcvd' = Append(rcvd, Head(output)) /\ output' = Tail(output)
  BY DEF RTypeOK, Consume
<1>2. /\ Head(output) \in Messages /\ Tail(output) \in Seq(Messages)
      /\ Append(rcvd, Head(output)) \in Seq(Messages)
      /\ Len(Append(rcvd, Head(output))) = Len(rcvd) + 1
      /\ Len(Tail(output)) = Len(output) - 1 /\ Len(output) \in Nat \ {0} /\ Len(rcvd) \in Nat
      /\ Head(output) = output[1]
      /\ \A a \in 1..Len(rcvd) : Append(rcvd, Head(output))[a] = rcvd[a]
      /\ Append(rcvd, Head(output))[Len(rcvd) + 1] = Head(output)
      /\ \A a \in 1..Len(output) - 1 : Tail(output)[a] = output[a + 1]
  BY <1>1
<1> DEFINE r == Append(rcvd, Head(output))
           o == Tail(output)
<1>3. r \o o \in Seq(Messages) /\ rcvd \o output \in Seq(Messages)
  BY <1>1, <1>2
<1>4. /\ Len(r \o o) = Len(rcvd) + Len(output) /\ Len(rcvd \o output) = Len(rcvd) + Len(output)
  BY <1>1, <1>2
<1>5. ASSUME NEW a \in 1..Len(rcvd) + Len(output) PROVE (r \o o)[a] = (rcvd \o output)[a]
  <2>1. /\ (r \o o)[a] = IF a <= Len(rcvd) + 1 THEN r[a] ELSE o[a - (Len(rcvd) + 1)]
        /\ (rcvd \o output)[a] = IF a <= Len(rcvd) THEN rcvd[a] ELSE output[a - Len(rcvd)]
    BY <1>1, <1>2, ConcatProperties
  <2>2. CASE a <= Len(rcvd)
    BY <1>2, <2>1, <2>2
  <2>3. CASE a = Len(rcvd) + 1
    BY <1>2, <2>1, <2>3
  <2>4. CASE a > Len(rcvd) + 1
    <3>1. a - (Len(rcvd) + 1) \in 1..Len(output) - 1 /\ (a - (Len(rcvd) + 1)) + 1 = a - Len(rcvd)
      BY <1>2, <2>4
    <3> QED BY <1>2, <2>1, <2>4, <3>1
  <2> QED BY <1>2, <2>2, <2>3, <2>4
<1>6. r \o o = rcvd \o output
  <2> HIDE DEF r, o
  <2> QED BY <1>3, <1>4, <1>5, SeqEqual
<1> QED BY <1>1, <1>6 DEF Emitted

-----------------------------------------------------------------------------
(* Steps of the invariant.                                                 *)

LEMMA UnitsType ==
  ASSUME NEW data \in Seq(1..MaxUnits), NEW u \in Units(data)
  PROVE  u \in Nat
<1>1. PICK x \in 1..Len(data) : u = data[x]
  BY DEF Units
<1>2. data[x] \in 1..MaxUnits
  BY ElementOfSeq
<1> QED BY <1>1, <1>2

LEMMA FollowingUnits ==
  ASSUME NEW data \in Seq(1..MaxUnits), NEW n \in Nat, Follows(n, data)
  PROVE  /\ \A u \in Units(data) : u \in Nat /\ u > n /\ u <= n + Len(data)
         /\ Ascending(data)
<1>0. Len(data) \in Nat
  OBVIOUS
<1>1. ASSUME NEW u \in Units(data) PROVE u \in Nat /\ u > n /\ u <= n + Len(data)
  <2>1. PICK x \in 1..Len(data) : u = data[x]
    BY DEF Units
  <2>2. u = n + x
    BY <2>1 DEF Follows
  <2> QED BY <1>0, <2>2
<1>2. Ascending(data)
  BY <1>0 DEF Ascending, Follows
<1> QED BY <1>1, <1>2

LEMMA FlushedType ==
  ASSUME ReassemblyInv, NEW c \in Conns, NEW d \in Dirs
  PROVE  /\ Flushed[c][d] = sent[c][d] - Len(buf[c][d]) /\ Flushed[c][d] \in Nat
         /\ Len(buf[c][d]) \in Nat /\ sent[c][d] \in 0..MaxUnits /\ MaxUnits \in Nat
         /\ buf[c][d] \in Seq(1..MaxUnits) /\ Follows(Flushed[c][d], buf[c][d])
<1>1. /\ Flushed[c][d] = sent[c][d] - Len(buf[c][d])
      /\ buf[c][d] \in Seq(1..MaxUnits) /\ sent[c][d] \in 0..MaxUnits
      /\ MaxUnits \in Nat
  BY ReassemblyAssumption DEF ReassemblyInv, RTypeOK, Flushed
<1>2. Flushed[c][d] >= 0 /\ Follows(Flushed[c][d], buf[c][d])
  BY DEF ReassemblyInv, BufInv
<1>3. Len(buf[c][d]) \in Nat
  BY <1>1
<1> QED BY <1>1, <1>2, <1>3

LEMMA ReassemblyInit == RInit => ReassemblyInv
<1> SUFFICES ASSUME RInit PROVE ReassemblyInv
  OBVIOUS
<1>1. Len(Emitted) = 0
  BY DEF RInit, Emitted
<1>2. RTypeOK
  BY ReassemblyAssumption DEF RInit, RTypeOK, Dirs
<1>3. StreamInv
  BY DEF RInit, StreamInv
<1>4. \A c \in Conns, d \in Dirs : Flushed[c][d] = 0 /\ Len(buf[c][d]) = 0
  BY DEF RInit, Flushed
<1>5. BufInv
  BY <1>4 DEF BufInv, Follows
<1>6. PastInv /\ OrderInv /\ MarkerLast
  BY <1>1 DEF PastInv, OrderInv, MarkerLast
<1>7. CompleteInv
  BY <1>4 DEF CompleteInv
<1> QED BY <1>2, <1>3, <1>5, <1>6, <1>7 DEF ReassemblyInv

(* Nothing is emitted, and no unit leaves a buffer.                        *)
LEMMA QuietEmission ==
  ASSUME ReassemblyInv, Emitted' = Emitted, UNCHANGED inc, dropped \subseteq dropped',
         \A c \in Conns : open'[c] => open[c],
         \A c \in Conns, d \in Dirs : Flushed'[c][d] = Flushed[c][d]
  PROVE  PastInv' /\ OrderInv' /\ CompleteInv' /\ MarkerLast'
<1>0. \A a \in 1..Len(Emitted) : Emitted[a].conn \in Conns /\ Emitted[a].dir \in Dirs
  BY EmittedType DEF ReassemblyInv, Messages
<1>1. PastInv'
  BY <1>0 DEF ReassemblyInv, PastInv
<1>2. OrderInv'
  BY DEF ReassemblyInv, OrderInv
<1>3. CompleteInv'
  BY DEF ReassemblyInv, CompleteInv
<1>4. MarkerLast'
  BY DEF ReassemblyInv, MarkerLast
<1> QED BY <1>1, <1>2, <1>3, <1>4

(* A direction's buffer, filled up to unit n with data, is flushed.        *)
LEMMA FlushStep ==
  ASSUME ReassemblyInv, NEW c \in Conns, NEW d \in Dirs, open[c],
         NEW data \in Seq(1..MaxUnits), NEW n \in 0..MaxUnits,
         Follows(Flushed[c][d], data), n = Flushed[c][d] + Len(data),
         SendChunk(c, d, data), buf' = [buf EXCEPT ![c][d] = << >>],
         sent' = [sent EXCEPT ![c][d] = n], UNCHANGED <<open, inc, rcvd>>
  PROVE  /\ BufInv' /\ PastInv' /\ OrderInv' /\ CompleteInv' /\ MarkerLast'
         /\ output' \in Seq(Messages) /\ Len(output') <= ChannelBuffer
         /\ dropped' \in SUBSET (Conns \X (1..MaxInc) \X Dirs)
<1>0. /\ inc[c] \in 1..MaxInc /\ MaxInc \in Nat /\ MaxUnits \in Nat /\ ChannelBuffer \in Nat
      /\ Flushed[c][d] \in Nat /\ Len(data) \in Nat /\ RTypeOK
      /\ buf \in [Conns -> [Dirs -> Seq(1..MaxUnits)]] /\ sent \in [Conns -> [Dirs -> 0..MaxUnits]]
  <2>1. /\ MaxInc \in Nat /\ MaxUnits \in Nat /\ ChannelBuffer \in Nat /\ RTypeOK
        /\ inc[c] \in 0..MaxInc /\ inc[c] >= 1
    BY ReassemblyAssumption DEF ReassemblyInv, RTypeOK, StreamInv
  <2>2. inc[c] \in 1..MaxInc
    BY <2>1
  <2>3. Flushed[c][d] \in Nat /\ Len(data) \in Nat
    BY FlushedType
  <2> QED BY <2>1, <2>2, <2>3 DEF RTypeOK
<1>1. /\ \A e \in Conns, f \in Dirs :
           e # c \/ f # d => Flushed'[e][f] = Flushed[e][f] /\ buf'[e][f] = buf[e][f]
      /\ Flushed'[c][d] = n /\ buf'[c][d] = << >> /\ Flushed[c][d] <= n
  BY <1>0, SMTT(40) DEF Flushed
<1>2. BufInv'
  <2>1. ASSUME NEW e \in Conns, NEW f \in Dirs
        PROVE  Flushed'[e][f] >= 0 /\ Follows(Flushed'[e][f], buf'[e][f])
    <3>1. CASE e = c /\ f = d
      BY <1>0, <1>1, <3>1 DEF Follows
    <3>2. CASE ~(e = c /\ f = d)
      BY <1>1, <3>2 DEF ReassemblyInv, BufInv
    <3> QED BY <3>1, <3>2
  <2> QED BY <2>1 DEF BufInv, Follows
<1>3. \A m \in Messages : m.conn \in Conns /\ m.dir \in Dirs /\ m.inc \in Nat
  BY <1>0 DEF Messages
<1>4. /\ \A a \in 1..Len(Emitted) : Emitted[a] \in Messages
      /\ Len(Emitted) \in Nat
  BY <1>0, EmittedType
<1>5. ASSUME NEW m \in Messages, ~m.closed, m.inc = inc[m.conn],
             \A u \in Units(m.data) : u <= Flushed[m.conn][m.dir], m.data \in Seq(1..MaxUnits)
      PROVE  \A u \in Units(m.data) : u <= Flushed'[m.conn][m.dir]
  <2> SUFFICES ASSUME NEW u \in Units(m.data) PROVE u <= Flushed'[m.conn][m.dir]
    OBVIOUS
  <2>1. u \in Nat
    BY <1>5, UnitsType
  <2>2. CASE m.conn = c /\ m.dir = d
    BY <1>0, <1>1, <1>5, <2>1, <2>2, SMTT(40)
  <2>3. CASE ~(m.conn = c /\ m.dir = d)
    BY <1>1, <1>3, <1>5, <2>3
  <2> QED BY <2>2, <2>3
<1>6. CASE Full
  <2>1. UNCHANGED output /\ dropped' = dropped \cup {<<c, inc[c], d>>}
    BY <1>6 DEF SendChunk
  <2>2. Emitted' = Emitted
    BY <2>1, EmittedStays
  <2>3. PastInv'
    BY <1>3, <1>4, <1>5, <2>2 DEF ReassemblyInv, PastInv, Messages
  <2>4. OrderInv' /\ MarkerLast'
    BY <2>2 DEF ReassemblyInv, OrderInv, MarkerLast
  <2>5. CompleteInv'
    BY <1>1, <2>1, <2>2 DEF ReassemblyInv, CompleteInv
  <2> QED BY <1>0, <1>2, <2>1, <2>3, <2>4, <2>5 DEF RTypeOK
<1>7. CASE ~Full
  <2> DEFINE m == [conn |-> c, inc |-> inc[c], closed |-> FALSE, dir |-> d, data |-> data]
             L == Len(Emitted)
  <2>1. m \in Messages /\ output' = Append(output, m) /\ UNCHANGED dropped
    BY <1>0, <1>7 DEF Messages, SendChunk, Chunk
  <2>2. /\ m.conn = c /\ m.inc = inc[c] /\ ~m.closed /\ m.dir = d /\ m.data = data
    OBVIOUS
  <2> HIDE DEF m
  <2>3. /\ Len(Emitted') = L + 1 /\ L \in Nat /\ \A a \in 1..L : Emitted'[a] = Emitted[a]
        /\ Emitted'[L + 1] = m
    BY <1>0, <1>4, <2>1, EmittedGrows
  <2>4. \A u \in Units(data) : u \in Nat /\ u > Flushed[c][d] /\ u <= n
    BY <1>0, FollowingUnits
  <2>5. Ascending(data)
    BY <1>0, FollowingUnits
  <2>6. PastInv'
    <3> SUFFICES ASSUME NEW a \in 1..L + 1
                 PROVE  LET e == Emitted'[a] IN
                          /\ e.inc <= inc[e.conn]
                          /\ e.closed => ~open[e.conn] \/ e.inc < inc[e.conn]
                          /\ ~e.closed /\ e.inc = inc[e.conn] =>
                               \A u \in Units(e.data) : u <= Flushed'[e.conn][e.dir]
                          /\ Ascending(e.data)
      BY <2>3 DEF PastInv
    <3>1. CASE a \in 1..L
      <4>1. Emitted[a] \in Messages /\ Emitted[a].data \in Seq(1..MaxUnits) /\ Emitted'[a] = Emitted[a]
        BY <1>4, <2>3, <3>1 DEF Messages
      <4>2. /\ Emitted[a].inc <= inc[Emitted[a].conn]
            /\ Emitted[a].closed => ~open[Emitted[a].conn] \/ Emitted[a].inc < inc[Emitted[a].conn]
            /\ ~Emitted[a].closed /\ Emitted[a].inc = inc[Emitted[a].conn] =>
                 \A u \in Units(Emitted[a].data) : u <= Flushed[Emitted[a].conn][Emitted[a].dir]
            /\ Ascending(Emitted[a].data)
        BY <3>1 DEF ReassemblyInv, PastInv
      <4>3. ~Emitted[a].closed /\ Emitted[a].inc = inc[Emitted[a].conn] =>
                 \A u \in Units(Emitted[a].data) : u <= Flushed'[Emitted[a].conn][Emitted[a].dir]
        BY <1>5, <4>1, <4>2
      <4> QED BY <4>1, <4>2, <4>3
    <3>2. CASE a = L + 1
      <4>1. Emitted'[a] = m /\ \A u \in Units(data) : u <= Flushed'[c][d]
        BY <1>1, <2>3, <2>4, <3>2
      <4> QED BY <1>0, <2>2, <2>5, <4>1
    <3> QED BY <2>3, <3>1, <3>2
  <2>7. OrderInv'
    <3> SUFFICES ASSUME NEW a \in 1..L + 1, NEW b \in 1..L + 1, a < b,
                        SameDirection(Emitted'[a], Emitted'[b])
                 PROVE  Before(Emitted'[a].data, Emitted'[b].data)
      BY <2>3 DEF OrderInv
    <3>1. CASE b \in 1..L
      BY <2>3, <3>1 DEF ReassemblyInv, OrderInv
    <3>2. CASE b = L + 1
      <4>1. a \in 1..L /\ Emitted'[a] = Emitted[a] /\ Emitted'[b] = m
        BY <2>3, <3>2
      <4>2. /\ ~Emitted[a].closed /\ Emitted[a].conn = c /\ Emitted[a].inc = inc[c]
            /\ Emitted[a].dir = d
        BY <2>2, <4>1 DEF SameDirection, ChunkOf
      <4>3. \A u \in Units(Emitted[a].data) : u \in Nat /\ u <= Flushed[c][d]
        <5>1. Emitted[a].data \in Seq(1..MaxUnits)
          BY <1>4, <4>1 DEF Messages
        <5>2. \A u \in Units(Emitted[a].data) : u \in Nat
          BY <5>1, UnitsType
        <5>3. \A u \in Units(Emitted[a].data) : u <= Flushed[c][d]
          BY <4>1, <4>2 DEF ReassemblyInv, PastInv
        <5> QED BY <5>2, <5>3
      <4> QED BY <1>0, <2>2, <2>4, <4>1, <4>3, SMTT(40) DEF Before
    <3> QED BY <2>3, <3>1, <3>2
  <2>8. MarkerLast'
    <3> SUFFICES ASSUME NEW a \in 1..L + 1, NEW b \in 1..L + 1, a < b, Emitted'[a].closed
                 PROVE  <<Emitted'[b].conn, Emitted'[b].inc>> # <<Emitted'[a].conn, Emitted'[a].inc>>
      BY <2>3 DEF MarkerLast
    <3>1. CASE b \in 1..L
      BY <2>3, <3>1 DEF ReassemblyInv, MarkerLast
    <3>2. CASE b = L + 1
      <4>1. a \in 1..L /\ Emitted'[a] = Emitted[a] /\ Emitted'[b] = m
        BY <2>3, <3>2
      <4>2. ~open[Emitted[a].conn] \/ Emitted[a].inc < inc[Emitted[a].conn]
        BY <4>1 DEF ReassemblyInv, PastInv
      <4> QED BY <1>0, <2>2, <4>1, <4>2
    <3> QED BY <2>3, <3>1, <3>2
  <2>9. CompleteInv'
    <3> SUFFICES ASSUME NEW e \in Conns, NEW f \in Dirs, <<e, inc[e], f>> \notin dropped,
                        NEW u \in 1..Flushed'[e][f]
                 PROVE  \E a \in 1..L + 1 : /\ ChunkOf(Emitted'[a], e, inc[e], f)
                                            /\ u \in Units(Emitted'[a].data)
      BY <2>1, <2>3 DEF CompleteInv
    <3>1. CASE u \in 1..Flushed[e][f]
      <4>1. PICK a \in 1..L : ChunkOf(Emitted[a], e, inc[e], f) /\ u \in Units(Emitted[a].data)
        BY <3>1 DEF ReassemblyInv, CompleteInv
      <4> QED BY <2>3, <4>1
    <3>2. CASE u \notin 1..Flushed[e][f]
      <4>1. e = c /\ f = d
        BY <1>1, <3>2
      <4>2. u - Flushed[c][d] \in 1..Len(data)
        <5>1. u \in 1..n /\ ~(u <= Flushed[c][d])
          BY <1>0, <1>1, <3>2, <4>1
        <5>2. ASSUME NEW i \in Nat, NEW j \in Nat, u \in 1..i + j, ~(u <= i) PROVE u - i \in 1..j
          BY <5>2
        <5> QED BY <1>0, <5>1, <5>2
      <4>3. u \in Units(data)
        <5>1. data[u - Flushed[c][d]] = Flushed[c][d] + (u - Flushed[c][d])
          BY <4>2 DEF Follows
        <5>2. data[u - Flushed[c][d]] = u
          BY <1>0, <1>1, <4>1, <5>1
        <5> QED BY <4>2, <5>2 DEF Units
      <4>4. ChunkOf(m, c, inc[c], d) /\ L + 1 \in 1..L + 1
        BY <2>2, <2>3 DEF ChunkOf
      <4> QED BY <2>2, <2>3, <4>1, <4>3, <4>4
    <3> QED BY <3>1, <3>2
  <2>10. output' \in Seq(Messages) /\ Len(output') <= ChannelBuffer
    BY <1>0, <1>7, <2>1 DEF RTypeOK, Full
  <2> QED BY <1>0, <1>2, <2>1, <2>6, <2>7, <2>8, <2>9, <2>10 DEF RTypeOK
<1> QED BY <1>6, <1>7

(* streamFactory.New: nothing emitted belongs to the new stream.           *)
LEMMA NewStep ==
  ASSUME ReassemblyInv, NEW c \in Conns, New(c)
  PROVE  ReassemblyInv'
<1> USE DEF streamVars, chanVars
<1>1. /\ step = "idle" /\ ~open[c] /\ inc[c] + 1 \in 1..MaxInc /\ inc[c] \in Nat /\ MaxInc \in Nat
      /\ open' = [open EXCEPT ![c] = TRUE] /\ inc' = [inc EXCEPT ![c] = @ + 1]
      /\ sent' = [sent EXCEPT ![c] = [d \in Dirs |-> 0]]
      /\ buf' = [buf EXCEPT ![c] = [d \in Dirs |-> << >>]]
      /\ UNCHANGED <<step, cur, output, dropped, unmarked, rcvd>>
  BY ReassemblyAssumption DEF New, ReassemblyInv, RTypeOK
<1>2. /\ open \in [Conns -> BOOLEAN] /\ inc \in [Conns -> 0..MaxInc]
      /\ sent \in [Conns -> [Dirs -> 0..MaxUnits]]
      /\ buf \in [Conns -> [Dirs -> Seq(1..MaxUnits)]]
      /\ \A e \in Conns, d \in Dirs : Len(buf[e][d]) < MaxBuffer
      /\ MaxUnits \in Nat /\ MaxBuffer \in Nat \ {0}
  BY ReassemblyAssumption DEF ReassemblyInv, RTypeOK
<1>3. /\ \A e \in Conns : e # c => /\ open'[e] = open[e] /\ inc'[e] = inc[e]
                                   /\ sent'[e] = sent[e] /\ buf'[e] = buf[e]
      /\ open'[c] /\ inc'[c] = inc[c] + 1
      /\ \A d \in Dirs : sent'[c][d] = 0 /\ buf'[c][d] = << >>
  BY <1>1, <1>2
<1>4. /\ \A e \in Conns, d \in Dirs : e # c => Flushed'[e][d] = Flushed[e][d]
      /\ \A d \in Dirs : Flushed'[c][d] = 0
  BY <1>3 DEF Flushed
<1>5. RTypeOK'
  <2>1. /\ open' \in [Conns -> BOOLEAN] /\ inc' \in [Conns -> 0..MaxInc]
    BY <1>1, <1>2
  <2>2. /\ sent' \in [Conns -> [Dirs -> 0..MaxUnits]]
    BY <1>1, <1>2
  <2>3. buf' \in [Conns -> [Dirs -> Seq(1..MaxUnits)]]
    BY <1>1, <1>2
  <2>4. \A e \in Conns, d \in Dirs : Len(buf'[e][d]) < MaxBuffer
    <3> TAKE e \in Conns, d \in Dirs
    <3>1. CASE e = c
      <4>1. buf'[e][d] = << >> /\ Len(<< >>) = 0
        BY <1>3, <3>1
      <4> QED BY <1>2, <4>1
    <3>2. CASE e # c
      BY <1>2, <1>3, <3>2
    <3> QED BY <3>1, <3>2
  <2> QED BY <1>1, <2>1, <2>2, <2>3, <2>4 DEF ReassemblyInv, RTypeOK
<1>6. StreamInv'
  BY <1>1, <1>2, <1>3 DEF ReassemblyInv, StreamInv
<1>7. BufInv'
  <2> SUFFICES ASSUME NEW e \in Conns, NEW d \in Dirs
               PROVE  Flushed'[e][d] >= 0 /\ Follows(Flushed'[e][d], buf'[e][d])
    BY DEF BufInv, Follows
  <2>1. CASE e = c
    BY <1>3, <1>4, <2>1 DEF Follows
  <2>2. CASE e # c
    BY <1>3, <1>4, <2>2 DEF ReassemblyInv, BufInv
  <2> QED BY <2>1, <2>2
<1>8. Emitted' = Emitted
  BY <1>1, EmittedStays
<1>9. \A a \in 1..Len(Emitted) : /\ Emitted[a].conn \in Conns /\ Emitted[a].dir \in Dirs
                                 /\ Emitted[a].inc \in Nat
  BY <1>1, EmittedType DEF ReassemblyInv, Messages
<1>10. PastInv'
  <2> SUFFICES ASSUME NEW a \in 1..Len(Emitted)
               PROVE  LET m == Emitted[a] IN
                        /\ m.inc <= inc'[m.conn]
                        /\ m.closed => ~open'[m.conn] \/ m.inc < inc'[m.conn]
                        /\ ~m.closed /\ m.inc = inc'[m.conn] =>
                             \A n \in Units(m.data) : n <= Flushed'[m.conn][m.dir]
                        /\ Ascending(m.data)
    BY <1>8 DEF PastInv
  <2>1. LET m == Emitted[a] IN
          /\ m.inc <= inc[m.conn]
          /\ m.closed => ~open[m.conn] \/ m.inc < inc[m.conn]
          /\ ~m.closed /\ m.inc = inc[m.conn] => \A n \in Units(m.data) : n <= Flushed[m.conn][m.dir]
          /\ Ascending(m.data)
    BY DEF ReassemblyInv, PastInv
  <2>2. CASE Emitted[a].conn = c
    BY <1>1, <1>3, <1>9, <2>1, <2>2
  <2>3. CASE Emitted[a].conn # c
    BY <1>3, <1>4, <1>9, <2>1, <2>3
  <2> QED BY <2>2, <2>3
<1>11. OrderInv' /\ MarkerLast'
  BY <1>8 DEF ReassemblyInv, OrderInv, MarkerLast
<1>12. CompleteInv'
  <2> SUFFICES ASSUME NEW e \in Conns, NEW d \in Dirs, <<e, inc'[e], d>> \notin dropped,
                      NEW n \in 1..Flushed'[e][d]
               PROVE  \E a \in 1..Len(Emitted) : /\ ChunkOf(Emitted[a], e, inc'[e], d)
                                                 /\ n \in Units(Emitted[a].data)
    BY <1>1, <1>8 DEF CompleteInv
  <2>1. CASE e = c
    BY <1>4, <2>1
  <2>2. CASE e # c
    BY <1>3, <1>4, <2>2 DEF ReassemblyInv, CompleteInv
  <2> QED BY <2>1, <2>2
<1> QED BY <1>5, <1>6, <1>7, <1>10, <1>11, <1>12 DEF ReassemblyInv

(* The end of ReassemblyComplete: the marker, if it finds room.            *)
LEMMA CloseStep ==
  ASSUME ReassemblyInv, EmitClose
  PROVE  ReassemblyInv'
<1>1. /\ step = "marker" /\ step' = "idle" /\ open' = [open EXCEPT ![cur] = FALSE]
      /\ output' = IF Full THEN output ELSE Append(output, Marker(cur))
      /\ unmarked' = IF Full THEN unmarked \cup {<<cur, inc[cur]>>} ELSE unmarked
      /\ UNCHANGED <<inc, sent, buf, cur, dropped, rcvd>>
  BY DEF EmitClose, Order
<1>2. /\ RTypeOK /\ cur \in Conns /\ open[cur] /\ open \in [Conns -> BOOLEAN]
      /\ buf[cur]["client"] = << >> /\ buf[cur]["server"] = << >>
      /\ MaxInc \in Nat /\ ChannelBuffer \in Nat
  BY <1>1, ReassemblyAssumption DEF ReassemblyInv, RTypeOK, StreamInv
<1>3. inc[cur] \in 1..MaxInc
  <2>1. inc[cur] \in 0..MaxInc /\ inc[cur] >= 1
    BY <1>2 DEF ReassemblyInv, RTypeOK, StreamInv
  <2> QED BY <1>2, <2>1
<1> DEFINE m == Marker(cur)
           L == Len(Emitted)
<1>4. /\ m \in Messages /\ m.conn = cur /\ m.inc = inc[cur] /\ m.closed /\ m.data = << >>
  BY <1>2, <1>3 DEF Marker, Messages, Dirs
<1> HIDE DEF m
<1>5. RTypeOK'
  <2>1. output' \in Seq(Messages) /\ Len(output') <= ChannelBuffer
    BY <1>1, <1>2, <1>4 DEF RTypeOK, Full, m
  <2>2. open' \in [Conns -> BOOLEAN] /\ unmarked' \in SUBSET (Conns \X (1..MaxInc))
    BY <1>1, <1>2, <1>3 DEF RTypeOK
  <2> QED BY <1>1, <1>2, <2>1, <2>2 DEF RTypeOK
<1>6. StreamInv'
  <2>1. \A d \in Dirs : buf[cur][d] = << >>
    BY <1>2 DEF Dirs
  <2> QED BY <1>1, <1>2, <2>1 DEF ReassemblyInv, StreamInv
<1>7. Flushed' = Flushed /\ BufInv'
  BY <1>1 DEF Flushed, ReassemblyInv, BufInv
<1>8. CASE Full
  <2>1. Emitted' = Emitted
    BY <1>1, <1>8, EmittedStays
  <2>2. \A c \in Conns : open'[c] => open[c]
    BY <1>1, <1>2
  <2>3. PastInv' /\ OrderInv' /\ CompleteInv' /\ MarkerLast'
    BY <1>1, <1>7, <2>1, <2>2, QuietEmission
  <2> QED BY <1>5, <1>6, <1>7, <2>3 DEF ReassemblyInv
<1>9. CASE ~Full
  <2>1. /\ Len(Emitted') = L + 1 /\ L \in Nat /\ \A a \in 1..L : Emitted'[a] = Emitted[a]
        /\ Emitted'[L + 1] = m
    BY <1>1, <1>2, <1>4, <1>9, EmittedGrows, EmittedType DEF m
  <2>2. \A a \in 1..L : Emitted[a].conn \in Conns
    BY <1>2, EmittedType DEF Messages
  <2>3. PastInv'
    <3> SUFFICES ASSUME NEW a \in 1..L + 1
                 PROVE  LET e == Emitted'[a] IN
                          /\ e.inc <= inc[e.conn]
                          /\ e.closed => ~open'[e.conn] \/ e.inc < inc[e.conn]
                          /\ ~e.closed /\ e.inc = inc[e.conn] =>
                               \A u \in Units(e.data) : u <= Flushed[e.conn][e.dir]
                          /\ Ascending(e.data)
      BY <1>1, <1>7, <2>1 DEF PastInv
    <3>1. CASE a \in 1..L
      BY <1>1, <1>2, <2>1, <2>2, <3>1 DEF ReassemblyInv, PastInv
    <3>2. CASE a = L + 1
      <4>1. Ascending(<< >>) /\ ~open'[cur]
        BY <1>1, <1>2 DEF Ascending
      <4>2. inc[cur] <= inc[cur]
        BY <1>3
      <4> QED BY <1>4, <2>1, <3>2, <4>1, <4>2
    <3> QED BY <2>1, <3>1, <3>2
  <2>4. OrderInv'
    <3> SUFFICES ASSUME NEW a \in 1..L + 1, NEW b \in 1..L + 1, a < b,
                        SameDirection(Emitted'[a], Emitted'[b])
                 PROVE  Before(Emitted'[a].data, Emitted'[b].data)
      BY <2>1 DEF OrderInv
    <3>1. CASE b \in 1..L
      BY <2>1, <3>1 DEF ReassemblyInv, OrderInv
    <3>2. CASE b = L + 1
      BY <1>4, <2>1, <3>2 DEF SameDirection, ChunkOf
    <3> QED BY <2>1, <3>1, <3>2
  <2>5. MarkerLast'
    <3> SUFFICES ASSUME NEW a \in 1..L + 1, NEW b \in 1..L + 1, a < b, Emitted'[a].closed
                 PROVE  <<Emitted'[b].conn, Emitted'[b].inc>> # <<Emitted'[a].conn, Emitted'[a].inc>>
      BY <2>1 DEF MarkerLast
    <3>1. CASE b \in 1..L
      BY <2>1, <3>1 DEF ReassemblyInv, MarkerLast
    <3>2. CASE b = L + 1
      <4>1. a \in 1..L /\ Emitted'[a] = Emitted[a] /\ Emitted'[b] = m
        BY <2>1, <3>2
      <4>2. ~open[Emitted[a].conn] \/ Emitted[a].inc < inc[Emitted[a].conn]
        BY <4>1 DEF ReassemblyInv, PastInv
      <4> QED BY <1>2, <1>3, <1>4, <4>1, <4>2
    <3> QED BY <2>1, <3>1, <3>2
  <2>6. CompleteInv'
    <3> SUFFICES ASSUME NEW e \in Conns, NEW f \in Dirs, <<e, inc[e], f>> \notin dropped,
                        NEW u \in 1..Flushed[e][f]
                 PROVE  \E a \in 1..L + 1 : /\ ChunkOf(Emitted'[a], e, inc[e], f)
                                            /\ u \in Units(Emitted'[a].data)
      BY <1>1, <1>7, <2>1 DEF CompleteInv
    <3>1. PICK a \in 1..L : ChunkOf(Emitted[a], e, inc[e], f) /\ u \in Units(Emitted[a].data)
      BY DEF ReassemblyInv, CompleteInv
    <3> QED BY <2>1, <3>1
  <2> QED BY <1>5, <1>6, <1>7, <2>3, <2>4, <2>5, <2>6 DEF ReassemblyInv
<1> QED BY <1>8, <1>9

(* What ReassembledSG has in a buffer before it compares with the          *)
(* threshold: the units that follow those flushed.                         *)
LEMMA Buffered ==
  ASSUME ReassemblyInv, NEW c \in Conns, NEW d \in Dirs, NEW n \in 1..MaxSegment,
         sent[c][d] + n <= MaxUnits,
         NEW data, data = buf[c][d] \o [i \in 1..n |-> sent[c][d] + i]
  PROVE  /\ data \in Seq(1..MaxUnits) /\ Follows(Flushed[c][d], data)
         /\ sent[c][d] + n = Flushed[c][d] + Len(data) /\ sent[c][d] + n \in 0..MaxUnits
<1>1. /\ Flushed[c][d] = sent[c][d] - Len(buf[c][d]) /\ Flushed[c][d] \in Nat
      /\ Len(buf[c][d]) \in Nat /\ sent[c][d] \in Nat /\ MaxUnits \in Nat
      /\ buf[c][d] \in Seq(1..MaxUnits) /\ Follows(Flushed[c][d], buf[c][d]) /\ n \in Nat \ {0}
  BY FlushedType, ReassemblyAssumption
<1> DEFINE old == buf[c][d]
           l == Len(buf[c][d])
           t == sent[c][d]
           f == Flushed[c][d]
           new == [i \in 1..n |-> t + i]
<1>2. /\ f = t - l /\ f \in Nat /\ l \in Nat /\ t \in Nat /\ t + n <= MaxUnits
      /\ old \in Seq(1..MaxUnits) /\ Len(old) = l /\ \A x \in 1..l : old[x] = f + x
      /\ data = old \o new
  BY <1>1 DEF Follows
<1> HIDE DEF old, l, t, f
<1>3. \A i \in 1..n : t + i \in 1..MaxUnits
  BY <1>1, <1>2
<1>4. /\ new \in [1..n -> 1..MaxUnits]
      /\ \A i \in 1..n : new[i] = t + i
  BY <1>3
<1> HIDE DEF new
<1>5. new \in Seq(1..MaxUnits)
  BY <1>1, <1>4, SeqDef
<1>6. Len(new) = n
  <2>1. DOMAIN new = 1..Len(new) /\ DOMAIN new = 1..n /\ Len(new) \in Nat
    BY <1>4, <1>5, LenProperties
  <2> QED BY <1>1, <2>1
<1>7. /\ data \in Seq(1..MaxUnits) /\ Len(data) = l + n
      /\ \A x \in 1..l + n : data[x] = IF x <= l THEN old[x] ELSE new[x - l]
  <2>1. /\ old \o new \in Seq(1..MaxUnits) /\ Len(old \o new) = Len(old) + Len(new)
        /\ \A x \in 1..Len(old) + Len(new) :
             (old \o new)[x] = IF x <= Len(old) THEN old[x] ELSE new[x - Len(old)]
    BY <1>2, <1>5, ConcatProperties
  <2> QED BY <1>2, <1>6, <2>1
<1>8. ASSUME NEW x \in 1..l + n PROVE data[x] = f + x
  <2>1. CASE x <= l
    <3>1. x \in 1..l
      BY <1>1, <1>2, <2>1
    <3> QED BY <1>2, <1>7, <2>1, <3>1
  <2>2. CASE ~(x <= l)
    <3>1. x - l \in 1..n
      BY <1>1, <1>2, <2>2
    <3>2. data[x] = t + (x - l)
      BY <1>4, <1>7, <2>2, <3>1
    <3>3. ASSUME NEW i \in Nat, NEW j \in Nat, NEW y \in Int PROVE i + (y - j) = (i - j) + y
      OBVIOUS
    <3>4. x \in Int
      BY <1>1, <1>2
    <3> QED BY <1>2, <3>2, <3>3, <3>4
  <2> QED BY <2>1, <2>2
<1>9. Follows(f, data)
  BY <1>7, <1>8 DEF Follows
<1>10. t + n = f + (l + n) /\ t + n \in 0..MaxUnits
  BY <1>1, <1>2
<1> QED BY <1>7, <1>9, <1>10 DEF t, f

LEMMA SegmentStep ==
  ASSUME ReassemblyInv, NEW c \in Conns, NEW d \in Dirs, NEW n \in 1..MaxSegment,
         ReassembledSG(c, d, n)
  PROVE  ReassemblyInv'
<1> DEFINE data == buf[c][d] \o [i \in 1..n |-> sent[c][d] + i]
           s == sent[c][d] + n
<1>1. /\ step = "idle" /\ open[c] /\ s <= MaxUnits
      /\ IF Threshold(data)
         THEN SendChunk(c, d, data) /\ buf' = [buf EXCEPT ![c][d] = << >>]
         ELSE buf' = [buf EXCEPT ![c][d] = data] /\ UNCHANGED <<output, dropped>>
      /\ sent' = [sent EXCEPT ![c][d] = s]
      /\ UNCHANGED <<open, inc, step, cur, unmarked, rcvd>>
  BY DEF ReassembledSG, Reset
<1>2. /\ data \in Seq(1..MaxUnits) /\ Follows(Flushed[c][d], data)
      /\ s = Flushed[c][d] + Len(data) /\ s \in 0..MaxUnits
  BY <1>1, Buffered
<1> HIDE DEF data, s
<1>3. /\ RTypeOK /\ StreamInv /\ sent \in [Conns -> [Dirs -> 0..MaxUnits]]
      /\ buf \in [Conns -> [Dirs -> Seq(1..MaxUnits)]]
      /\ \A e \in Conns, f \in Dirs : Len(buf[e][f]) < MaxBuffer
      /\ MaxBuffer \in Nat \ {0}
  BY ReassemblyAssumption DEF ReassemblyInv, RTypeOK
<1>4. sent' \in [Conns -> [Dirs -> 0..MaxUnits]]
  BY <1>1, <1>2, <1>3
<1>5. \A e \in Conns : e # c => buf'[e] = buf[e]
  BY <1>1, <1>3
<1>6. StreamInv'
  BY <1>1, <1>3, <1>5, ZenonT(60) DEF StreamInv
<1>7. CASE Threshold(data)
  <2>1. SendChunk(c, d, data) /\ buf' = [buf EXCEPT ![c][d] = << >>]
    BY <1>1, <1>7
  <2>2. /\ BufInv' /\ PastInv' /\ OrderInv' /\ CompleteInv' /\ MarkerLast'
        /\ output' \in Seq(Messages) /\ Len(output') <= ChannelBuffer
        /\ dropped' \in SUBSET (Conns \X (1..MaxInc) \X Dirs)
    BY <1>1, <1>2, <2>1, FlushStep
  <2>3. /\ buf' \in [Conns -> [Dirs -> Seq(1..MaxUnits)]]
        /\ \A e \in Conns, f \in Dirs : buf'[e][f] \in {buf[e][f], << >>}
    BY <1>3, <2>1
  <2>4. \A e \in Conns, f \in Dirs : Len(buf'[e][f]) < MaxBuffer
    BY <1>3, <2>3
  <2>5. RTypeOK'
    BY <1>1, <1>3, <1>4, <2>2, <2>3, <2>4 DEF RTypeOK
  <2> QED BY <1>6, <2>2, <2>5 DEF ReassemblyInv
<1>8. CASE ~Threshold(data)
  <2>1. buf' = [buf EXCEPT ![c][d] = data] /\ UNCHANGED <<output, dropped>>
    BY <1>1, <1>8
  <2>2. Len(data) < MaxBuffer /\ Len(data) \in Nat
    BY <1>2, <1>3, <1>8 DEF Threshold
  <2>3. buf' \in [Conns -> [Dirs -> Seq(1..MaxUnits)]]
    BY <1>2, <1>3, <2>1
  <2>4. \A e \in Conns, f \in Dirs : /\ e = c /\ f = d => buf'[e][f] = data /\ sent'[e][f] = s
                                     /\ ~(e = c /\ f = d) => buf'[e][f] = buf[e][f]
                                                             /\ sent'[e][f] = sent[e][f]
    BY <1>1, <1>3, <2>1
  <2>5. RTypeOK'
    <3>1. \A e \in Conns, f \in Dirs : Len(buf'[e][f]) < MaxBuffer
      BY <1>3, <2>2, <2>4
    <3> QED BY <1>1, <1>3, <1>4, <2>1, <2>3, <3>1 DEF RTypeOK
  <2>6. \A e \in Conns, f \in Dirs : Flushed'[e][f] = Flushed[e][f]
    <3> TAKE e \in Conns, f \in Dirs
    <3>1. Flushed'[e][f] = sent'[e][f] - Len(buf'[e][f])
      BY DEF Flushed
    <3>2. Flushed[e][f] = sent[e][f] - Len(buf[e][f]) /\ Flushed[e][f] \in Nat
      BY FlushedType
    <3> QED BY <1>2, <2>2, <2>4, <3>1, <3>2
  <2>7. BufInv'
    <3> SUFFICES ASSUME NEW e \in Conns, NEW f \in Dirs
                 PROVE  Flushed[e][f] >= 0 /\ Follows(Flushed[e][f], buf'[e][f])
      BY <2>6 DEF BufInv, Follows
    <3> QED BY <1>2, <2>4 DEF ReassemblyInv, BufInv
  <2>8. Emitted' = Emitted
    BY <1>1, <2>1, EmittedStays
  <2>9. PastInv' /\ OrderInv' /\ CompleteInv' /\ MarkerLast'
    BY <1>1, <2>1, <2>6, <2>8, QuietEmission
  <2> QED BY <1>6, <2>5, <2>7, <2>9 DEF ReassemblyInv
<1> QED BY <1>7, <1>8

(* Of a direction of the stream being completed, what is left is flushed.  *)
LEMMA RestStep ==
  ASSUME ReassemblyInv, NEW d \in Dirs, NEW next, FlushRest(d, next),
         \/ d = "client" /\ next = "server"
         \/ d = "server" /\ next = "marker"
  PROVE  ReassemblyInv'
<1>1. /\ step = d /\ step' = next /\ buf' = [buf EXCEPT ![cur][d] = << >>]
      /\ IF buf[cur][d] = << >> THEN UNCHANGED <<output, dropped>>
         ELSE SendChunk(cur, d, buf[cur][d])
      /\ UNCHANGED <<open, inc, sent, cur, unmarked, rcvd>>
  BY DEF FlushRest, Reset
<1>2. /\ RTypeOK /\ StreamInv /\ cur \in Conns /\ open[cur]
      /\ sent \in [Conns -> [Dirs -> 0..MaxUnits]]
      /\ buf \in [Conns -> [Dirs -> Seq(1..MaxUnits)]]
      /\ \A e \in Conns, f \in Dirs : Len(buf[e][f]) < MaxBuffer
      /\ MaxBuffer \in Nat \ {0}
  BY <1>1, ReassemblyAssumption DEF ReassemblyInv, RTypeOK, StreamInv, Dirs
<1>3. /\ buf' \in [Conns -> [Dirs -> Seq(1..MaxUnits)]]
      /\ \A e \in Conns, f \in Dirs : buf'[e][f] \in {buf[e][f], << >>}
      /\ buf'[cur][d] = << >>
  BY <1>1, <1>2
<1>4. \A e \in Conns, f \in Dirs : Len(buf'[e][f]) < MaxBuffer
  BY <1>2, <1>3
<1>5. StreamInv'
  <2>1. \A e \in Conns, f \in Dirs : buf[e][f] = << >> => buf'[e][f] = << >>
    BY <1>3
  <2>2. "client" \in Dirs /\ "server" \in Dirs
    BY DEF Dirs
  <2> QED BY <1>1, <1>2, <1>3, <2>1, <2>2 DEF StreamInv
<1>6. CASE buf[cur][d] = << >>
  <2>1. buf' = buf
    BY <1>1, <1>2, <1>6
  <2>2. UNCHANGED <<output, dropped>>
    BY <1>1, <1>6
  <2>3. RTypeOK'
    BY <1>1, <1>2, <2>1, <2>2 DEF RTypeOK
  <2>4. Flushed' = Flushed
    BY <1>1, <2>1 DEF Flushed
  <2>5. BufInv'
    BY <2>1, <2>4 DEF ReassemblyInv, BufInv
  <2>6. PastInv' /\ OrderInv' /\ CompleteInv' /\ MarkerLast'
    BY <1>1, <2>2, <2>4, EmittedStays, QuietEmission
  <2> QED BY <1>5, <2>3, <2>5, <2>6 DEF ReassemblyInv
<1>7. CASE buf[cur][d] # << >>
  <2> DEFINE data == buf[cur][d]
             n == sent[cur][d]
  <2>1. /\ data \in Seq(1..MaxUnits) /\ n \in 0..MaxUnits /\ Follows(Flushed[cur][d], data)
        /\ n = Flushed[cur][d] + Len(data)
    BY <1>2, FlushedType
  <2>2. SendChunk(cur, d, data) /\ sent' = [sent EXCEPT ![cur][d] = n]
    BY <1>1, <1>2, <1>7
  <2> HIDE DEF data, n
  <2>3. /\ BufInv' /\ PastInv' /\ OrderInv' /\ CompleteInv' /\ MarkerLast'
        /\ output' \in Seq(Messages) /\ Len(output') <= ChannelBuffer
        /\ dropped' \in SUBSET (Conns \X (1..MaxInc) \X Dirs)
    BY <1>1, <1>2, <2>1, <2>2, FlushStep
  <2>4. RTypeOK'
    BY <1>1, <1>2, <1>3, <1>4, <2>3 DEF RTypeOK
  <2> QED BY <1>5, <2>3, <2>4 DEF ReassemblyInv
<1> QED BY <1>6, <1>7

(* ReassemblyInv is inductive.                                             *)
THEOREM ReassemblySafety == RSpec => []ReassemblyInv
<1>1. RInit => ReassemblyInv
  BY ReassemblyInit
<1>2. ReassemblyInv /\ [RNext]_rvars => ReassemblyInv'
  <2> SUFFICES ASSUME ReassemblyInv, [RNext]_rvars PROVE ReassemblyInv'
    OBVIOUS
  <2> USE DEF rvars, streamVars, chanVars
  <2>1. ASSUME NEW c \in Conns, New(c) PROVE ReassemblyInv'
    BY <2>1, NewStep
  <2>2. ASSUME NEW c \in Conns, Begin(c) PROVE ReassemblyInv'
    <3>1. /\ step = "idle" /\ open[c] /\ step' = "client" /\ cur' = c
          /\ UNCHANGED <<open, inc, sent, buf, output, dropped, unmarked, rcvd>>
      BY <2>2 DEF Begin
    <3>2. RTypeOK' /\ StreamInv'
      BY <3>1 DEF ReassemblyInv, RTypeOK, StreamInv
    <3>3. Flushed' = Flushed /\ Emitted' = Emitted
      BY <3>1 DEF Flushed, Emitted
    <3>4. BufInv'
      BY <3>1, <3>3 DEF ReassemblyInv, BufInv
    <3>5. PastInv' /\ OrderInv' /\ CompleteInv' /\ MarkerLast'
      BY <3>1, <3>3, QuietEmission
    <3> QED BY <3>2, <3>4, <3>5 DEF ReassemblyInv
  <2>3. ASSUME NEW c \in Conns, NEW d \in Dirs, NEW n \in 1..MaxSegment, ReassembledSG(c, d, n)
        PROVE  ReassemblyInv'
    BY <2>3, SegmentStep
  <2>4. CASE FlushRest("client", Order["client"]) \/ FlushRest("server", Order["server"])
    <3>1. Order["client"] = "server" /\ Order["server"] = "marker" /\ Dirs = {"client", "server"}
      BY DEF Order, Dirs
    <3> QED BY <2>4, <3>1, RestStep
  <2>5. CASE EmitClose
    BY <2>5, CloseStep
  <2>6. CASE Consume
    <3>1. /\ output # << >> /\ rcvd' = Append(rcvd, Head(output)) /\ output' = Tail(output)
          /\ UNCHANGED <<open, inc, sent, buf, step, cur, dropped, unmarked>>
      BY <2>6 DEF Consume
    <3>2. Emitted' = Emitted /\ Flushed' = Flushed
      BY <2>6, <3>1, EmittedMoves DEF ReassemblyInv, Flushed
    <3>3. /\ output' \in Seq(Messages) /\ Len(output') <= ChannelBuffer /\ rcvd' \in Seq(Messages)
      BY <3>1, ReassemblyAssumption DEF ReassemblyInv, RTypeOK
    <3>4. RTypeOK'
      BY <3>1, <3>3 DEF ReassemblyInv, RTypeOK
    <3>5. StreamInv' /\ BufInv'
      BY <3>1, <3>2 DEF ReassemblyInv, StreamInv, BufInv
    <3>6. PastInv' /\ OrderInv' /\ CompleteInv' /\ MarkerLast'
      BY <3>1, <3>2, QuietEmission
    <3> QED BY <3>4, <3>5, <3>6 DEF ReassemblyInv
  <2>7. CASE UNCHANGED rvars
    <3>1. UNCHANGED <<open, inc, sent, buf, step, cur, output, dropped, unmarked, rcvd>>
      BY <2>7
    <3>2. Flushed' = Flushed /\ Emitted' = Emitted
      BY <3>1 DEF Flushed, Emitted
    <3>3. RTypeOK' /\ StreamInv' /\ BufInv'
      BY <3>1, <3>2 DEF ReassemblyInv, RTypeOK, StreamInv, BufInv
    <3>4. PastInv' /\ OrderInv' /\ CompleteInv' /\ MarkerLast'
      BY <3>1, <3>2, QuietEmission
    <3> QED BY <3>3, <3>4 DEF ReassemblyInv
  <2> QED BY <2>1, <2>2, <2>3, <2>4, <2>5, <2>6, <2>7 DEF RNext, Assemble
<1> QED BY <1>1, <1>2, PTL DEF RSpec

-----------------------------------------------------------------------------
(* What the invariant says of the properties.                              *)

LEMMA PendingUnits ==
  ASSUME ReassemblyInv, NEW c \in Conns, NEW d \in Dirs
  PROVE  /\ Pending(c, d) \in Seq(1..MaxUnits) /\ Pending(c, d) = buf[c][d]
         /\ Ascending(Pending(c, d))
         /\ \A u \in Units(Pending(c, d)) : u \in Nat /\ u > Flushed[c][d] /\ u <= sent[c][d]
<1>1. Pending(c, d) = buf[c][d]
  BY DEF Pending, ReassemblyInv, StreamInv
<1>2. /\ buf[c][d] \in Seq(1..MaxUnits) /\ Flushed[c][d] \in Nat /\ Follows(Flushed[c][d], buf[c][d])
      /\ Flushed[c][d] = sent[c][d] - Len(buf[c][d]) /\ sent[c][d] \in 0..MaxUnits
      /\ Len(buf[c][d]) \in Nat
  BY FlushedType
<1>3. /\ Ascending(buf[c][d])
      /\ \A u \in Units(buf[c][d]) : u \in Nat /\ u > Flushed[c][d]
                                     /\ u <= Flushed[c][d] + Len(buf[c][d])
  BY <1>2, FollowingUnits
<1>4. Flushed[c][d] + Len(buf[c][d]) = sent[c][d]
  BY <1>2
<1> QED BY <1>1, <1>2, <1>3, <1>4

LEMMA EmittedUnits ==
  ASSUME ReassemblyInv, NEW c \in Conns, NEW d \in Dirs, NEW a \in 1..Len(Emitted),
         ChunkOf(Emitted[a], c, inc[c], d), NEW u \in Units(Emitted[a].data)
  PROVE  u \in Nat /\ u >= 1 /\ u <= Flushed[c][d]
<1>1. Emitted[a].data \in Seq(1..MaxUnits)
  BY EmittedType DEF ReassemblyInv, Messages
<1>2. PICK x \in 1..Len(Emitted[a].data) : u = Emitted[a].data[x]
  BY DEF Units
<1>3. Emitted[a].data[x] \in 1..MaxUnits
  BY <1>1, ElementOfSeq
<1>4. u <= Flushed[c][d]
  BY DEF ReassemblyInv, PastInv, ChunkOf
<1> QED BY <1>2, <1>3, <1>4

LEMMA OrderHolds ==
  ASSUME ReassemblyInv
  PROVE  InOrder
<1>1. \A a \in 1..Len(Emitted) : Ascending(Emitted[a].data)
  BY DEF ReassemblyInv, PastInv
<1>2. ASSUME NEW c \in Conns, NEW d \in Dirs, NEW a \in 1..Len(Emitted),
             ChunkOf(Emitted[a], c, inc[c], d)
      PROVE  Before(Emitted[a].data, Pending(c, d))
  <2>1. Flushed[c][d] \in Nat
    BY FlushedType
  <2>2. \A u \in Units(Emitted[a].data) : u \in Nat /\ u <= Flushed[c][d]
    BY <1>2, EmittedUnits
  <2>3. \A u \in Units(Pending(c, d)) : u \in Nat /\ u > Flushed[c][d]
    BY PendingUnits
  <2> QED BY <2>1, <2>2, <2>3 DEF Before
<1>3. \A c \in Conns, d \in Dirs : Ascending(Pending(c, d))
  BY PendingUnits
<1> QED BY <1>1, <1>2, <1>3 DEF InOrder, ReassemblyInv, OrderInv

LEMMA CompletenessHolds ==
  ASSUME ReassemblyInv
  PROVE  NothingMissing
<1> SUFFICES ASSUME NEW c \in Conns, NEW d \in Dirs, <<c, inc[c], d>> \notin dropped
             PROVE  Delivered(c, inc[c], d) \cup Units(Pending(c, d)) = 1..sent[c][d]
  BY DEF NothingMissing
<1>1. /\ Flushed[c][d] \in Nat /\ Flushed[c][d] = sent[c][d] - Len(buf[c][d])
      /\ sent[c][d] \in Nat /\ Len(buf[c][d]) \in Nat /\ Follows(Flushed[c][d], buf[c][d])
  BY FlushedType
<1>2. \A u : u \in Delivered(c, inc[c], d) <=>
        \E a \in 1..Len(Emitted) : ChunkOf(Emitted[a], c, inc[c], d) /\ u \in Units(Emitted[a].data)
  BY DEF Delivered
<1>3. ASSUME NEW u \in Delivered(c, inc[c], d) PROVE u \in 1..sent[c][d]
  <2>1. u \in Nat /\ u >= 1 /\ u <= Flushed[c][d]
    BY <1>2, EmittedUnits
  <2> QED BY <1>1, <2>1
<1>4. ASSUME NEW u \in Units(Pending(c, d)) PROVE u \in 1..sent[c][d]
  <2>1. u \in Nat /\ u > Flushed[c][d] /\ u <= sent[c][d]
    BY PendingUnits
  <2> QED BY <1>1, <2>1
<1>5. ASSUME NEW u \in 1..sent[c][d]
      PROVE  u \in Delivered(c, inc[c], d) \/ u \in Units(Pending(c, d))
  <2>1. CASE u <= Flushed[c][d]
    <3>1. u \in 1..Flushed[c][d]
      BY <1>1, <2>1
    <3> QED BY <1>2, <3>1 DEF ReassemblyInv, CompleteInv
  <2>2. CASE ~(u <= Flushed[c][d])
    <3>1. ASSUME NEW i \in Nat, NEW j \in Nat, NEW l \in Nat, i = j - l, u \in 1..j, ~(u <= i)
          PROVE  u - i \in 1..l /\ i + (u - i) = u
      BY <3>1
    <3>2. /\ u - Flushed[c][d] \in 1..Len(buf[c][d])
          /\ Flushed[c][d] + (u - Flushed[c][d]) = u
      BY <1>1, <2>2, <3>1
    <3>3. buf[c][d][u - Flushed[c][d]] = u
      BY <1>1, <3>2 DEF Follows
    <3> QED BY <3>2, <3>3, PendingUnits DEF Units
  <2> QED BY <2>1, <2>2
<1> QED BY <1>3, <1>4, <1>5

(* Types, and the bound on what a stream buffers between two calls.        *)
THEOREM ReassemblyTypeCorrect == RSpec => []RTypeOK
BY ReassemblySafety, PTL DEF ReassemblyInv

(* The dispatcher sees a direction's bytes in order and none twice,        *)
(* whatever is dropped and however often the 4-tuple is used again.        *)
THEOREM DirectionsInOrder == RSpec => []InOrder
<1>1. ReassemblyInv => InOrder
  BY OrderHolds
<1> QED BY <1>1, ReassemblySafety, PTL

(* Without a dropped chunk nothing is missing of a direction.              *)
THEOREM DirectionsComplete == RSpec => []NothingMissing
<1>1. ReassemblyInv => NothingMissing
  BY CompletenessHolds
<1> QED BY <1>1, ReassemblySafety, PTL

(* The close marker follows every chunk of its stream, and is its only one.*)
THEOREM MarkersLast == RSpec => []MarkerLast
BY ReassemblySafety, PTL DEF ReassemblyInv
-----------------------------------------------------------------------------
(* How the chunks of a stream fit together.                                *)

(* A chunk is a run of units, and of a direction without a dropped chunk   *)
(* every unit before it is in an earlier one.                              *)
Tiled ==
  \A a \in 1..Len(Emitted) : LET m == Emitted[a] IN ~m.closed =>
    /\ m.data # << >> /\ Follows(m.data[1] - 1, m.data)
    /\ <<m.conn, m.inc, m.dir>> \notin dropped =>
         \A n \in 1..m.data[1] - 1 :
           \E b \in 1..a - 1 : ChunkOf(Emitted[b], m.conn, m.inc, m.dir) /\ n \in Units(Emitted[b].data)

(* The streams of a 4-tuple follow each other.                             *)
Generations ==
  \A a, b \in 1..Len(Emitted) :
    a < b /\ Emitted[a].conn = Emitted[b].conn => Emitted[a].inc <= Emitted[b].inc

MarkerOf(m, c, i) == m.closed /\ m.conn = c /\ m.inc = i

(* A stream that is over has its marker, or is known to lack it.           *)
Marked ==
  \A c \in Conns : \A i \in 1..inc[c] : i < inc[c] \/ ~open[c] =>
    <<c, i>> \in unmarked \/ \E a \in 1..Len(Emitted) : MarkerOf(Emitted[a], c, i)

TilingInv == Tiled /\ Generations /\ Marked

Grown(m) ==
  /\ Len(Emitted') = Len(Emitted) + 1
  /\ \A a \in 1..Len(Emitted) : Emitted'[a] = Emitted[a]
  /\ Emitted'[Len(Emitted) + 1] = m

(* A message of the present stream of its connection is emitted.           *)
EmitsChunk(m) ==
  /\ Grown(m) /\ ~m.closed /\ m.inc = inc[m.conn]
  /\ m.data # << >> /\ Follows(Flushed[m.conn][m.dir], m.data)
  /\ UNCHANGED <<open, inc, dropped, unmarked>>

EmitsMarker(m) ==
  /\ Grown(m) /\ MarkerOf(m, cur, inc[cur])
  /\ open' = [open EXCEPT ![cur] = FALSE] /\ UNCHANGED <<inc, dropped, unmarked>>

EmitsNothing ==
  /\ Emitted' = Emitted /\ dropped \subseteq dropped'
  /\ \/ UNCHANGED <<open, inc, unmarked>>
     \/ \E c \in Conns : /\ ~open[c] /\ inc' = [inc EXCEPT ![c] = @ + 1]
                         /\ open' = [open EXCEPT ![c] = TRUE] /\ UNCHANGED unmarked
     \/ /\ unmarked' = unmarked \cup {<<cur, inc[cur]>>} /\ UNCHANGED inc
        /\ open' = [open EXCEPT ![cur] = FALSE]

LEMMA ChunkEmission ==
  ASSUME ReassemblyInv, NEW c \in Conns, NEW d \in Dirs, open[c],
         NEW data \in Seq(1..MaxUnits), data # << >>, Follows(Flushed[c][d], data),
         SendChunk(c, d, data), UNCHANGED <<open, inc, rcvd, unmarked>>
  PROVE  EmitsNothing \/ \E m \in Messages : EmitsChunk(m)
<1>1. inc[c] \in 1..MaxInc /\ RTypeOK
  <2>1. MaxInc \in Nat /\ RTypeOK /\ inc[c] \in 0..MaxInc /\ inc[c] >= 1
    BY ReassemblyAssumption DEF ReassemblyInv, RTypeOK, StreamInv
  <2> QED BY <2>1
<1>2. CASE Full
  <2>1. Emitted' = Emitted /\ dropped \subseteq dropped'
    BY <1>2, EmittedStays DEF SendChunk
  <2> QED BY <2>1 DEF EmitsNothing
<1>3. CASE ~Full
  <2> DEFINE m == [conn |-> c, inc |-> inc[c], closed |-> FALSE, dir |-> d, data |-> data]
  <2>1. m \in Messages /\ output' = Append(output, m) /\ UNCHANGED dropped
    BY <1>1, <1>3 DEF Messages, SendChunk, Chunk
  <2>2. m.conn = c /\ m.inc = inc[c] /\ ~m.closed /\ m.dir = d /\ m.data = data
    OBVIOUS
  <2> HIDE DEF m
  <2>3. Grown(m)
    BY <1>1, <2>1, EmittedGrows DEF Grown
  <2>4. EmitsChunk(m)
    BY <2>1, <2>2, <2>3 DEF EmitsChunk
  <2> QED BY <2>1, <2>4
<1> QED BY <1>2, <1>3

(* What a step does to the sequence of messages.                           *)
LEMMA Emission ==
  ASSUME ReassemblyInv, [RNext]_rvars
  PROVE  EmitsNothing \/ \E m \in Messages : EmitsChunk(m) \/ EmitsMarker(m)
<1> USE DEF rvars, streamVars, chanVars
<1>1. ASSUME NEW c \in Conns, New(c) PROVE EmitsNothing
  BY <1>1, EmittedStays DEF New, EmitsNothing
<1>2. ASSUME NEW c \in Conns, Begin(c) PROVE EmitsNothing
  BY <1>2, EmittedStays DEF Begin, EmitsNothing
<1>3. ASSUME NEW c \in Conns, NEW d \in Dirs, NEW n \in 1..MaxSegment, ReassembledSG(c, d, n)
      PROVE  EmitsNothing \/ \E m \in Messages : EmitsChunk(m)
  <2> DEFINE data == buf[c][d] \o [i \in 1..n |-> sent[c][d] + i]
  <2>1. /\ open[c] /\ sent[c][d] + n <= MaxUnits
        /\ IF Threshold(data) THEN SendChunk(c, d, data) ELSE UNCHANGED <<output, dropped>>
        /\ UNCHANGED <<open, inc, unmarked, rcvd>>
    BY <1>3 DEF ReassembledSG
  <2>2. data \in Seq(1..MaxUnits) /\ Follows(Flushed[c][d], data)
    BY <2>1, Buffered
  <2> HIDE DEF data
  <2>3. CASE Threshold(data)
    <3>1. data # << >>
      BY <2>3, ReassemblyAssumption DEF Threshold
    <3> QED BY <2>1, <2>2, <2>3, <3>1, ChunkEmission
  <2>4. CASE ~Threshold(data)
    BY <2>1, <2>4, EmittedStays DEF EmitsNothing
  <2> QED BY <2>3, <2>4
<1>4. ASSUME NEW d \in Dirs, NEW next, FlushRest(d, next)
      PROVE  EmitsNothing \/ \E m \in Messages : EmitsChunk(m)
  <2>1. /\ step = d /\ UNCHANGED <<open, inc, unmarked, rcvd>>
        /\ IF buf[cur][d] = << >> THEN UNCHANGED <<output, dropped>>
           ELSE SendChunk(cur, d, buf[cur][d])
    BY <1>4 DEF FlushRest
  <2>2. cur \in Conns /\ open[cur]
    BY <2>1 DEF ReassemblyInv, RTypeOK, StreamInv, Dirs
  <2>3. buf[cur][d] \in Seq(1..MaxUnits) /\ Follows(Flushed[cur][d], buf[cur][d])
    BY <2>2, FlushedType
  <2>4. CASE buf[cur][d] = << >>
    BY <2>1, <2>4, EmittedStays DEF EmitsNothing
  <2>5. CASE buf[cur][d] # << >>
    BY <2>1, <2>2, <2>3, <2>5, ChunkEmission
  <2> QED BY <2>4, <2>5
<1>5. CASE EmitClose
  <2>1. /\ open' = [open EXCEPT ![cur] = FALSE] /\ UNCHANGED <<inc, dropped, rcvd>>
        /\ output' = IF Full THEN output ELSE Append(output, Marker(cur))
        /\ unmarked' = IF Full THEN unmarked \cup {<<cur, inc[cur]>>} ELSE unmarked
    BY <1>5 DEF EmitClose
  <2>2. cur \in Conns /\ inc[cur] \in 1..MaxInc /\ RTypeOK
    <3>1. MaxInc \in Nat /\ RTypeOK /\ cur \in Conns /\ inc[cur] \in 0..MaxInc /\ inc[cur] >= 1
      BY <1>5, ReassemblyAssumption DEF EmitClose, ReassemblyInv, RTypeOK, StreamInv
    <3> QED BY <3>1
  <2>3. CASE Full
    BY <2>1, <2>3, EmittedStays DEF EmitsNothing
  <2>4. CASE ~Full
    <3> DEFINE m == Marker(cur)
    <3>1. m \in Messages /\ MarkerOf(m, cur, inc[cur])
      BY <2>2 DEF Marker, Messages, Dirs, MarkerOf
    <3>2. output' = Append(output, m) /\ rcvd' = rcvd /\ UNCHANGED unmarked
      BY <2>1, <2>4
    <3> HIDE DEF m
    <3>3. Grown(m)
      BY <2>2, <3>1, <3>2, EmittedGrows DEF Grown
    <3>4. EmitsMarker(m)
      BY <2>1, <3>1, <3>2, <3>3 DEF EmitsMarker
    <3> QED BY <3>1, <3>4
  <2> QED BY <2>3, <2>4
<1>6. CASE Consume
  BY <1>6, EmittedMoves DEF Consume, EmitsNothing, ReassemblyInv
<1>7. CASE UNCHANGED rvars
  BY <1>7, EmittedStays DEF EmitsNothing
<1>8. "client" \in Dirs /\ "server" \in Dirs
  BY DEF Dirs
<1> QED BY <1>1, <1>2, <1>3, <1>4, <1>5, <1>6, <1>7, <1>8 DEF RNext, Assemble

LEMMA QuietTiling ==
  ASSUME ReassemblyInv, TilingInv, EmitsNothing
  PROVE  TilingInv'
<1>1. Emitted' = Emitted /\ dropped \subseteq dropped'
  BY DEF EmitsNothing
<1>2. Tiled' /\ Generations'
  <2>1. Tiled'
    BY <1>1 DEF TilingInv, Tiled, ChunkOf
  <2>2. Generations'
    BY <1>1 DEF TilingInv, Generations
  <2> QED BY <2>1, <2>2
<1>3. /\ open \in [Conns -> BOOLEAN] /\ inc \in [Conns -> 0..MaxInc] /\ MaxInc \in Nat /\ cur \in Conns
  BY ReassemblyAssumption DEF ReassemblyInv, RTypeOK
<1>4. Marked'
  <2> SUFFICES ASSUME NEW e \in Conns, NEW i \in 1..inc'[e], i < inc'[e] \/ ~open'[e]
               PROVE  <<e, i>> \in unmarked' \/ \E a \in 1..Len(Emitted) : MarkerOf(Emitted[a], e, i)
    BY <1>1 DEF Marked, MarkerOf
  <2>0. inc[e] \in Nat
    BY <1>3
  <2>1. ASSUME i \in 1..inc[e], i < inc[e] \/ ~open[e]
        PROVE  <<e, i>> \in unmarked \/ \E a \in 1..Len(Emitted) : MarkerOf(Emitted[a], e, i)
    BY <2>1 DEF TilingInv, Marked
  <2>2. CASE UNCHANGED <<open, inc, unmarked>>
    BY <2>1, <2>2
  <2>3. CASE \E c \in Conns : /\ ~open[c] /\ inc' = [inc EXCEPT ![c] = @ + 1]
                              /\ open' = [open EXCEPT ![c] = TRUE] /\ UNCHANGED unmarked
    <3>1. PICK c \in Conns : /\ ~open[c] /\ inc' = [inc EXCEPT ![c] = @ + 1]
                             /\ open' = [open EXCEPT ![c] = TRUE] /\ UNCHANGED unmarked
      BY <2>3
    <3>2. CASE e = c
      <4>1. inc'[e] = inc[e] + 1 /\ open'[e] /\ ~open[e]
        BY <1>3, <3>1, <3>2
      <4>2. i \in 1..inc[e]
        BY <2>0, <4>1
      <4> QED BY <2>1, <3>1, <4>1, <4>2
    <3>3. CASE e # c
      <4>1. inc'[e] = inc[e] /\ open'[e] = open[e]
        BY <1>3, <3>1, <3>3
      <4> QED BY <2>1, <3>1, <4>1
    <3> QED BY <3>2, <3>3
  <2>4. CASE /\ unmarked' = unmarked \cup {<<cur, inc[cur]>>} /\ UNCHANGED inc
             /\ open' = [open EXCEPT ![cur] = FALSE]
    <3>1. CASE e = cur /\ i = inc[e]
      BY <2>4, <3>1
    <3>2. CASE e = cur /\ i # inc[e]
      <4>1. i \in 1..inc[e] /\ i < inc[e]
        BY <2>0, <2>4, <3>2
      <4> QED BY <2>1, <2>4, <4>1
    <3>3. CASE e # cur
      <4>1. open'[e] = open[e] /\ inc'[e] = inc[e]
        BY <1>3, <2>4, <3>3
      <4> QED BY <2>1, <2>4, <4>1
    <3> QED BY <3>1, <3>2, <3>3
  <2> QED BY <2>2, <2>3, <2>4 DEF EmitsNothing
<1> QED BY <1>2, <1>4 DEF TilingInv

(* A message of the present stream comes after all there are.              *)
LEMMA GrownGenerations ==
  ASSUME ReassemblyInv, Generations, NEW m \in Messages, Grown(m), m.inc = inc[m.conn]
  PROVE  Generations'
<1>1. Len(Emitted) \in Nat
  BY EmittedType DEF ReassemblyInv
<1> SUFFICES ASSUME NEW a \in 1..Len(Emitted) + 1, NEW b \in 1..Len(Emitted) + 1, a < b,
                    Emitted'[a].conn = Emitted'[b].conn
             PROVE  Emitted'[a].inc <= Emitted'[b].inc
  BY DEF Generations, Grown
<1>2. CASE b \in 1..Len(Emitted)
  <2>1. a \in 1..Len(Emitted)
    BY <1>1, <1>2
  <2> QED BY <1>2, <2>1 DEF Generations, Grown
<1>3. CASE b = Len(Emitted) + 1
  <2>1. a \in 1..Len(Emitted) /\ Emitted'[a] = Emitted[a] /\ Emitted'[b] = m
    BY <1>1, <1>3 DEF Grown
  <2>2. Emitted[a].inc <= inc[Emitted[a].conn]
    BY <2>1 DEF ReassemblyInv, PastInv
  <2> QED BY <2>1, <2>2
<1> QED BY <1>1, <1>2, <1>3

LEMMA ChunkTiling ==
  ASSUME ReassemblyInv, TilingInv, NEW m \in Messages, EmitsChunk(m)
  PROVE  TilingInv'
<1> DEFINE L == Len(Emitted)
<1>1. /\ Len(Emitted') = L + 1 /\ \A a \in 1..L : Emitted'[a] = Emitted[a]
      /\ Emitted'[L + 1] = m /\ ~m.closed /\ m.inc = inc[m.conn] /\ m.data # << >>
      /\ Follows(Flushed[m.conn][m.dir], m.data) /\ UNCHANGED <<open, inc, dropped, unmarked>>
      /\ Grown(m)
  BY DEF EmitsChunk, Grown
<1>2. L \in Nat
  BY EmittedType DEF ReassemblyInv
<1>3. /\ m.conn \in Conns /\ m.dir \in Dirs /\ m.data \in Seq(1..MaxUnits)
  BY DEF Messages
<1>4. Flushed[m.conn][m.dir] \in Nat
  BY <1>3, FlushedType
<1>5. Generations'
  BY <1>1, GrownGenerations DEF TilingInv
<1>6. Marked'
  <2> SUFFICES ASSUME NEW e \in Conns, NEW i \in 1..inc[e], i < inc[e] \/ ~open[e]
               PROVE  <<e, i>> \in unmarked \/ \E a \in 1..L + 1 : MarkerOf(Emitted'[a], e, i)
    BY <1>1 DEF Marked
  <2>1. CASE <<e, i>> \in unmarked
    BY <2>1
  <2>2. CASE <<e, i>> \notin unmarked
    <3>1. PICK a \in 1..L : MarkerOf(Emitted[a], e, i)
      BY <2>2 DEF TilingInv, Marked
    <3>2. a \in 1..L + 1 /\ MarkerOf(Emitted'[a], e, i)
      BY <1>1, <1>2, <3>1
    <3> QED BY <3>2
  <2> QED BY <2>1, <2>2
<1>7. Tiled'
  <2> SUFFICES ASSUME NEW a \in 1..L + 1, ~Emitted'[a].closed
               PROVE  LET e == Emitted'[a] IN
                      /\ e.data # << >> /\ Follows(e.data[1] - 1, e.data)
                      /\ <<e.conn, e.inc, e.dir>> \notin dropped =>
                           \A n \in 1..e.data[1] - 1 :
                             \E b \in 1..a - 1 : /\ ChunkOf(Emitted'[b], e.conn, e.inc, e.dir)
                                                 /\ n \in Units(Emitted'[b].data)
    BY <1>1 DEF Tiled
  <2>0. \A b \in 1..a - 1 : b \in 1..L /\ Emitted'[b] = Emitted[b]
    BY <1>1, <1>2
  <2>1. CASE a \in 1..L
    <3>1. Emitted'[a] = Emitted[a]
      BY <1>1, <2>1
    <3>2. LET e == Emitted[a] IN
            /\ e.data # << >> /\ Follows(e.data[1] - 1, e.data)
            /\ <<e.conn, e.inc, e.dir>> \notin dropped =>
                 \A n \in 1..e.data[1] - 1 :
                   \E b \in 1..a - 1 : /\ ChunkOf(Emitted[b], e.conn, e.inc, e.dir)
                                       /\ n \in Units(Emitted[b].data)
      BY <2>1, <3>1 DEF TilingInv, Tiled
    <3> QED BY <2>0, <3>1, <3>2
  <2>2. CASE a = L + 1
    <3>1. Emitted'[a] = m
      BY <1>1, <2>2
    <3>2. Len(m.data) \in Nat /\ Len(m.data) >= 1
      BY <1>1, <1>3
    <3>3. m.data[1] - 1 = Flushed[m.conn][m.dir]
      <4>1. 1 \in 1..Len(m.data)
        BY <3>2
      <4>2. m.data[1] = Flushed[m.conn][m.dir] + 1
        BY <1>1, <4>1 DEF Follows
      <4> QED BY <1>4, <4>2
    <3>4. ASSUME <<m.conn, m.inc, m.dir>> \notin dropped, NEW n \in 1..m.data[1] - 1
          PROVE  \E b \in 1..a - 1 : /\ ChunkOf(Emitted'[b], m.conn, m.inc, m.dir)
                                     /\ n \in Units(Emitted'[b].data)
      <4>1. PICK b \in 1..L : ChunkOf(Emitted[b], m.conn, m.inc, m.dir) /\ n \in Units(Emitted[b].data)
        BY <1>1, <1>3, <3>3, <3>4 DEF ReassemblyInv, CompleteInv
      <4>2. b \in 1..a - 1 /\ Emitted'[b] = Emitted[b]
        BY <1>1, <1>2, <2>2
      <4> QED BY <4>1, <4>2
    <3> QED BY <1>1, <3>1, <3>3, <3>4
  <2> QED BY <1>2, <2>1, <2>2
<1> QED BY <1>5, <1>6, <1>7 DEF TilingInv

LEMMA MarkerTiling ==
  ASSUME ReassemblyInv, TilingInv, NEW m \in Messages, EmitsMarker(m)
  PROVE  TilingInv'
<1> DEFINE L == Len(Emitted)
<1>1. /\ Len(Emitted') = L + 1 /\ \A a \in 1..L : Emitted'[a] = Emitted[a]
      /\ Emitted'[L + 1] = m /\ m.closed /\ m.conn = cur /\ m.inc = inc[cur]
      /\ open' = [open EXCEPT ![cur] = FALSE] /\ UNCHANGED <<inc, dropped, unmarked>>
      /\ Grown(m)
  BY DEF EmitsMarker, Grown, MarkerOf
<1>2. L \in Nat
  BY EmittedType DEF ReassemblyInv
<1>3. /\ open \in [Conns -> BOOLEAN] /\ inc \in [Conns -> 0..MaxInc] /\ MaxInc \in Nat /\ cur \in Conns
  BY ReassemblyAssumption DEF ReassemblyInv, RTypeOK
<1>5. Generations'
  BY <1>1, GrownGenerations DEF TilingInv
<1>6. Marked'
  <2> SUFFICES ASSUME NEW e \in Conns, NEW i \in 1..inc[e], i < inc[e] \/ ~open'[e]
               PROVE  <<e, i>> \in unmarked \/ \E a \in 1..L + 1 : MarkerOf(Emitted'[a], e, i)
    BY <1>1 DEF Marked
  <2>0. inc[e] \in Nat
    BY <1>3
  <2>1. CASE e = cur /\ i = inc[e]
    <3>1. L + 1 \in 1..L + 1 /\ MarkerOf(Emitted'[L + 1], e, i)
      BY <1>1, <1>2, <2>1 DEF MarkerOf
    <3> QED BY <3>1
  <2>2. CASE ~(e = cur /\ i = inc[e])
    <3>0. i < inc[e] \/ ~open[e]
      BY <1>1, <1>3, <2>0, <2>2
    <3>1. CASE <<e, i>> \in unmarked
      BY <3>1
    <3>2. CASE <<e, i>> \notin unmarked
      <4>1. PICK a \in 1..L : MarkerOf(Emitted[a], e, i)
        BY <3>0, <3>2 DEF TilingInv, Marked
      <4>2. a \in 1..L + 1 /\ MarkerOf(Emitted'[a], e, i)
        BY <1>1, <1>2, <4>1
      <4> QED BY <4>2
    <3> QED BY <3>1, <3>2
  <2> QED BY <2>1, <2>2
<1>7. Tiled'
  <2> SUFFICES ASSUME NEW a \in 1..L + 1, ~Emitted'[a].closed
               PROVE  LET e == Emitted'[a] IN
                      /\ e.data # << >> /\ Follows(e.data[1] - 1, e.data)
                      /\ <<e.conn, e.inc, e.dir>> \notin dropped =>
                           \A n \in 1..e.data[1] - 1 :
                             \E b \in 1..a - 1 : /\ ChunkOf(Emitted'[b], e.conn, e.inc, e.dir)
                                                 /\ n \in Units(Emitted'[b].data)
    BY <1>1 DEF Tiled
  <2>0. \A b \in 1..a - 1 : b \in 1..L /\ Emitted'[b] = Emitted[b]
    BY <1>1, <1>2
  <2>1. a \in 1..L /\ Emitted'[a] = Emitted[a]
    BY <1>1, <1>2
  <2>2. LET e == Emitted[a] IN
          /\ e.data # << >> /\ Follows(e.data[1] - 1, e.data)
          /\ <<e.conn, e.inc, e.dir>> \notin dropped =>
               \A n \in 1..e.data[1] - 1 :
                 \E b \in 1..a - 1 : /\ ChunkOf(Emitted[b], e.conn, e.inc, e.dir)
                                     /\ n \in Units(Emitted[b].data)
    BY <2>1 DEF TilingInv, Tiled
  <2> QED BY <2>0, <2>1, <2>2
<1> QED BY <1>5, <1>6, <1>7 DEF TilingInv

(* The chunks of a stream without a drop are its units cut into runs, with *)
(* none missing between two of them; streams of a 4-tuple do not overlap;  *)
(* and a stream that is over has its marker unless it found the channel    *)
(* full.                                                                   *)
THEOREM ChunksTile == RSpec => []TilingInv
<1>1. RInit => TilingInv
  <2> SUFFICES ASSUME RInit PROVE TilingInv
    OBVIOUS
  <2>1. Len(Emitted) = 0
    BY DEF RInit, Emitted
  <2>2. Tiled /\ Generations
    BY <2>1 DEF Tiled, Generations
  <2>3. Marked
    BY DEF RInit, Marked
  <2> QED BY <2>2, <2>3 DEF TilingInv
<1>2. ReassemblyInv /\ TilingInv /\ [RNext]_rvars => TilingInv'
  BY Emission, QuietTiling, ChunkTiling, MarkerTiling
<1> QED BY <1>1, <1>2, ReassemblySafety, PTL DEF RSpec
=============================================================================
