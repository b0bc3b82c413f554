----------------------------- MODULE Reassembly -----------------------------
(***************************************************************************)
(* The TCP reassembler's output side: biStream buffers each direction of a *)
(* connection, flushes a direction that has reached the threshold, and on  *)
(* completion flushes both and emits a close marker, always by             *)
(* non-blocking sends into one bounded channel that the dispatcher's       *)
(* tcpLoop reads (internal/reassembly).                                    *)
(*                                                                         *)
(* gopacket's assembler is external: for a stream it calls ReassembledSG   *)
(* with the next bytes of one direction, in order, and ReassemblyComplete  *)
(* once.  Bytes are counted in units; unit n of a direction is the number  *)
(* n.  A connection here is a 4-tuple (a ConnID); it may be used again     *)
(* after its stream is complete, which "inc" counts: the code cannot see   *)
(* it, only the properties do.                                             *)
(***************************************************************************)
EXTENDS Naturals, Sequences

CONSTANTS
  Conns,          \* ConnIDs
  MaxBuffer,      \* maxBufferSize, in units
  ChannelBuffer,  \* capacity of the output channel
  MaxSegment,     \* most units ReassembledSG brings at once
  MaxUnits,       \* bound: units a direction carries in one incarnation
  MaxInc          \* bound: incarnations of a 4-tuple

ASSUME ReassemblyAssumption ==
  /\ MaxBuffer \in Nat \ {0} /\ ChannelBuffer \in Nat \ {0}
  /\ MaxSegment \in Nat \ {0} /\ MaxUnits \in Nat /\ MaxInc \in Nat

Dirs == {"client", "server"}

VARIABLES
  open,      \* open[c]: the pool has a stream for c
  inc,       \* inc[c]: how many streams c has had
  sent,      \* sent[c][d]: units ReassembledSG has brought in this stream
  buf,       \* buf[c][d]: clientBuf and serverBuf
  step, cur, \* where the reassembler goroutine is in ReassemblyComplete, and of whom
  output,    \* the channel of StreamData
  rcvd,      \* what tcpLoop has received, in order
  dropped,   \* <<c, i, d>>: a chunk found the channel full
  unmarked   \* <<c, i>>: the close marker found the channel full

streamVars == <<open, inc, sent, buf, step, cur>>
chanVars   == <<output, dropped, unmarked>>
rvars      == <<streamVars, chanVars, rcvd>>

Chunk(c, d, data) == [conn |-> c, inc |-> inc[c], closed |-> FALSE, dir |-> d, data |-> data]

Marker(c) == [conn |-> c, inc |-> inc[c], closed |-> TRUE, dir |-> "client", data |-> << >>]

Messages ==
  [conn : Conns, inc : 1..MaxInc, closed : BOOLEAN, dir : Dirs, data : Seq(1..MaxUnits)]

(* Types, and the bound on what a stream buffers: a buffer never holds     *)
(* maxBufferSize between two calls of the engine.                          *)
RTypeOK ==
  /\ open \in [Conns -> BOOLEAN]
  /\ inc \in [Conns -> 0..MaxInc]
  /\ sent \in [Conns -> [Dirs -> 0..MaxUnits]]
  /\ buf \in [Conns -> [Dirs -> Seq(1..MaxUnits)]]
  /\ \A c \in Conns, d \in Dirs : Len(buf[c][d]) < MaxBuffer
  /\ step \in {"idle", "client", "server", "marker"}
  /\ cur \in Conns
  /\ output \in Seq(Messages) /\ Len(output) <= ChannelBuffer
  /\ rcvd \in Seq(Messages)
  /\ dropped \in SUBSET (Conns \X (1..MaxInc) \X Dirs)
  /\ unmarked \in SUBSET (Conns \X (1..MaxInc))

RInit ==
  /\ open = [c \in Conns |-> FALSE]
  /\ inc = [c \in Conns |-> 0]
  /\ sent = [c \in Conns |-> [d \in Dirs |-> 0]]
  /\ buf = [c \in Conns |-> [d \in Dirs |-> << >>]]
  /\ step = "idle" /\ cur \in Conns
  /\ output = << >> /\ rcvd = << >>
  /\ dropped = {} /\ unmarked = {}

-----------------------------------------------------------------------------
Full == Len(output) >= ChannelBuffer

(* streamFactory.New: the first packet of a connection the pool does not   *)
(* know.                                                                   *)
New(c) ==
  /\ step = "idle" /\ ~open[c] /\ inc[c] < MaxInc
  /\ open' = [open EXCEPT ![c] = TRUE]
  /\ inc' = [inc EXCEPT ![c] = @ + 1]
  /\ sent' = [sent EXCEPT ![c] = [d \in Dirs |-> 0]]
  /\ buf' = [buf EXCEPT ![c] = [d \in Dirs |-> << >>]]
  /\ UNCHANGED <<step, cur, chanVars, rcvd>>

(* flushDirectionLocked on contents data: sent, or logged and dropped.     *)
SendChunk(c, d, data) ==
  /\ output' = IF Full THEN output ELSE Append(output, Chunk(c, d, data))
  /\ dropped' = IF Full THEN dropped \cup {<<c, inc[c], d>>} ELSE dropped

(* Mutant of Threshold: compared with > instead of >=.                     *)
ThresholdStrict(data) == Len(data) > MaxBuffer

Threshold(data) == Len(data) >= MaxBuffer

(* Mutant of Reset: the flushed bytes stay in the buffer.                  *)
ResetNothing(data) == data

(* buf.Reset().                                                            *)
Reset(data) == << >>

(* ReassembledSG: append to the direction's buffer, flush at the threshold.*)
ReassembledSG(c, d, n) ==
  /\ step = "idle" /\ open[c] /\ sent[c][d] + n <= MaxUnits
  /\ LET data == buf[c][d] \o [i \in 1..n |-> sent[c][d] + i] IN
       IF Threshold(data)
       THEN /\ SendChunk(c, d, data)
            /\ buf' = [buf EXCEPT ![c][d] = Reset(data)]
       ELSE /\ buf' = [buf EXCEPT ![c][d] = data]
            /\ UNCHANGED <<output, dropped>>
  /\ sent' = [sent EXCEPT ![c][d] = @ + n]
  /\ UNCHANGED <<open, inc, step, cur, unmarked, rcvd>>

(* The engine completes the stream: FIN or RST in both directions, idle    *)
(* for ConnectionTimeout at a tick, or FlushAll in Stop.                   *)
Begin(c) ==
  /\ step = "idle" /\ open[c]
  /\ step' = "client" /\ cur' = c
  /\ UNCHANGED <<open, inc, sent, buf, chanVars, rcvd>>

(* Flush one direction of the stream being completed, if it holds data.    *)
FlushRest(d, next) ==
  /\ step = d
  /\ IF buf[cur][d] = << >>
     THEN UNCHANGED <<output, dropped>>
     ELSE SendChunk(cur, d, buf[cur][d])
  /\ buf' = [buf EXCEPT ![cur][d] = Reset(@)]
  /\ step' = next
  /\ UNCHANGED <<open, inc, sent, cur, unmarked, rcvd>>

(* Mutant of Order: the marker is emitted before the server's data.        *)
MarkerEarly == [client |-> "marker", marker |-> "server", server |-> "idle"]

(* Mutant of Order: the server's buffer is forgotten.                      *)
ClientOnly == [client |-> "marker", marker |-> "idle", server |-> "idle"]

(* The order of the calls in ReassemblyComplete.                           *)
Order == [client |-> "server", server |-> "marker", marker |-> "idle"]

(* emitCloseLocked; returning false removes the stream from the pool.      *)
EmitClose ==
  /\ step = "marker"
  /\ output' = IF Full THEN output ELSE Append(output, Marker(cur))
  /\ unmarked' = IF Full THEN unmarked \cup {<<cur, inc[cur]>>} ELSE unmarked
  /\ open' = [open EXCEPT ![cur] = FALSE]
  /\ step' = Order["marker"]
  /\ UNCHANGED <<inc, sent, buf, cur, dropped, rcvd>>

(* tcpLoop receives the next StreamData.                                   *)
Consume ==
  /\ output # << >>
  /\ rcvd' = Append(rcvd, Head(output))
  /\ output' = Tail(output)
  /\ UNCHANGED <<streamVars, dropped, unmarked>>

Assemble ==
  \/ \E c \in Conns : New(c) \/ Begin(c)
  \/ \E c \in Conns, d \in Dirs, n \in 1..MaxSegment : ReassembledSG(c, d, n)
  \/ FlushRest("client", Order["client"])
  \/ FlushRest("server", Order["server"])
  \/ EmitClose

RNext == Assemble \/ Consume

RSpec == RInit /\ [][RNext]_rvars

-----------------------------------------------------------------------------
(* Properties.                                                             *)

Emitted == rcvd \o output

(* m is a chunk of direction d of the i-th stream of c.                    *)
ChunkOf(m, c, i, d) == m.conn = c /\ m.inc = i /\ m.dir = d /\ ~m.closed

SameDirection(m, n) == ChunkOf(n, m.conn, m.inc, m.dir) /\ ~m.closed

Units(data) == {data[x] : x \in 1..Len(data)}

(* What the dispatcher gets, or will get, of one direction of one stream.  *)
Delivered(c, i, d) ==
  UNION {Units(Emitted[a].data) : a \in {b \in 1..Len(Emitted) : ChunkOf(Emitted[b], c, i, d)}}

Pending(c, d) == IF open[c] THEN buf[c][d] ELSE << >>

Ascending(data) == \A x, y \in 1..Len(data) : x < y => data[x] < data[y]

Before(data, later) == \A n \in Units(data), m \in Units(later) : n < m

(* Within a direction the dispatcher sees bytes in the order they were     *)
(* sent and none twice, even when chunks are dropped: the copy and Reset   *)
(* in flushDirectionLocked lose and repeat nothing.  So it is within a     *)
(* chunk, between two chunks, and between a chunk and what is buffered.    *)
InOrder ==
  /\ \A a \in 1..Len(Emitted) : Ascending(Emitted[a].data)
  /\ \A a, b \in 1..Len(Emitted) :
       a < b /\ SameDirection(Emitted[a], Emitted[b]) => Before(Emitted[a].data, Emitted[b].data)
  /\ \A c \in Conns, d \in Dirs :
       /\ Ascending(Pending(c, d))
       /\ \A a \in 1..Len(Emitted) :
            ChunkOf(Emitted[a], c, inc[c], d) => Before(Emitted[a].data, Pending(c, d))

(* As long as no chunk found the channel full, every byte the engine has   *)
(* brought is delivered or buffered, and no other is, while the stream is  *)
(* open and after ReassemblyComplete.                                      *)
NothingMissing ==
  \A c \in Conns, d \in Dirs :
    <<c, inc[c], d>> \notin dropped =>
      Delivered(c, inc[c], d) \cup Units(Pending(c, d)) = 1..sent[c][d]

(* tcp.go:23-25, stream.go:109-111: the close marker follows every chunk   *)
(* of its stream, so a parser may drop its state on seeing it; and there   *)
(* is one marker per stream at most.                                       *)
MarkerLast ==
  \A a, b \in 1..Len(Emitted) :
    a < b /\ Emitted[a].closed =>
      <<Emitted[b].conn, Emitted[b].inc>> # <<Emitted[a].conn, Emitted[a].inc>>
=============================================================================
