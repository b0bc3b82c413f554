----------------------------- MODULE HttpPairing -----------------------------
(***************************************************************************)
(* What the reassembler's chunks do to the request/response numbering of   *)
(* the HTTP parser: the dispatcher resolves a parser anew for each chunk   *)
(* of a connection to port 80, which HTTP and WebSocket share; the HTTP    *)
(* parser numbers the messages of each direction with a counter kept per   *)
(* ConnID, and drops the counters in OnConnClose on a close marker         *)
(* (internal/dispatch, internal/protocol/http, .../websocket).             *)
(*                                                                         *)
(* A direction's bytes are messages of the given sizes, each with a header *)
(* of one unit or more: http.ReadRequest and ReadResponse (external) need  *)
(* the header whole, and accept a body cut off by the end of the chunk.    *)
(* The first unit holds what the Probes look for at the front: the method  *)
(* or the version and status.  Evicting counters by age is left to         *)
(* HttpConnState.                                                          *)
(***************************************************************************)
EXTENDS Reassembly, Detection, FiniteSets

CONSTANTS
  Scripts,  \* what the two sides of a connection may send, see Kinds
  Window    \* units of a chunk that the WebSocket parser's Probe looks at: 512 bytes

(* A script is a sequence of messages for each direction, with the size of *)
(* their header and their own, and the exchange they belong to: the i-th   *)
(* request and, as HTTP/1.1 answers in order, the i-th response, unless    *)
(* interim ones are before it.  Frames follow an upgrade, and nothing else *)
(* follows its grant.  "trace" is a request whose method is not among      *)
(* httpPrefixes (TRACE, CONNECT, PROPFIND).                                *)
Kinds == [client |-> {"get", "head", "trace", "upgrade", "frame"},
          server |-> {"response", "interim", "headResponse", "switching", "frame"}]

ASSUME ScriptsAssumption ==
  /\ Window \in Nat
  /\ \A s \in Scripts : \A d \in Dirs :
       /\ s[d] \in Seq([kind : Kinds[d], head : Nat \ {0}, size : Nat \ {0}, exchange : Nat])
       /\ \A i \in 1..Len(s[d]) :
            /\ s[d][i].head <= s[d][i].size
            /\ (\A j \in 1..i - 1 : s[d][j].kind # "interim") => s[d][i].exchange = i
            /\ s[d][i].kind = "frame" =>
                 \E j \in 1..i - 1 : s[d][j].kind \in {"upgrade", "switching"}
            /\ s[d][i].kind = "switching" => \A j \in i + 1..Len(s[d]) : s[d][j].kind = "frame"

VARIABLES
  script,  \* the script of this behaviour's connections
  seq,     \* seq[c][d]: reqSeq and respSeq of c's connState (0, 0 when there is none)
  events,  \* the HTTP events emitted: their UID, and the message they are really about
  split    \* <<c, i, d>>: a chunk began inside a message

vars == <<rvars, script, seq, events, split>>

(* The unit at which the m-th message of a direction starts.               *)
HeadOf(d, m) ==
  LET head[n \in 0..Len(script[d])] == IF n = 0 THEN 1 ELSE head[n - 1] + script[d][n].size
  IN  head[m - 1]

(* The message that starts at unit n, or 0.                                *)
StartsAt(d, n) ==
  LET at == {m \in 1..Len(script[d]) : HeadOf(d, m) = n}
  IN  IF at = {} THEN 0 ELSE CHOOSE m \in at : TRUE

(* The header of message m is whole in these units.                        *)
HeaderIn(d, m, units) == HeadOf(d, m)..HeadOf(d, m) + script[d][m].head - 1 \subseteq units

-----------------------------------------------------------------------------
(* The classes the chunk may fall in for the Probes.  The WebSocket Probe  *)
(* looks for the upgrade field anywhere in its window, so a request in     *)
(* front of an upgrade passes for one; of a header that the window or the  *)
(* chunk cuts, the field may be in sight or not.  The middle of a message  *)
(* may be anything.                                                        *)
SamplesOf(d, data) ==
  LET m      == StartsAt(d, data[1])
      kind   == script[d][m].kind
      window == {data[n] : n \in (1..Window) \cap (1..Len(data))}
      begun  == {x \in 1..Len(script[d]) : script[d][x].kind = "upgrade" /\ HeadOf(d, x) \in window}
      whole  == {x \in begun : HeaderIn(d, x, window)}
  IN  CASE m = 0 -> {"text", "wsFrame"}
        [] m # 0 /\ kind = "frame" -> {"wsFrame"}
        [] m # 0 /\ kind = "switching" ->
             {"switching"} \cup (IF HeaderIn(d, m, window) THEN {} ELSE {"response"})
        [] m # 0 /\ kind \in {"get", "upgrade"} ->
             (IF begun # {} THEN {"upgrade"} ELSE {}) \cup (IF whole = {} THEN {"get"} ELSE {})
        [] m # 0 /\ kind = "head" -> {"get"}
        [] m # 0 /\ kind = "trace" -> {"text"}
        [] OTHER -> {"response"}

(* byPort of the registry that buildRegistry makes, registering parser     *)
(* after parser: an ephemeral and the server's port.                       *)
PortIndex ==
  [q \in {9, 80} |->
     LET index[i \in 0..Len(BuildOrder)] ==
           IF i = 0 THEN <<>>
           ELSE IF q \in Ports(BuildOrder[i]) THEN Append(index[i - 1], BuildOrder[i])
           ELSE index[i - 1]
     IN  index[Len(BuildOrder)]]

ParserFor(d, sample) == Resolve(PortIndex, BuildOrder, 9, 80, sample, d = "client")

(* The units readRequest or readResponse consumes for message m.  Without  *)
(* the request, ReadResponse takes the length in an answer to HEAD for the *)
(* length of a body, here of one unit.                                     *)
SpanOf(d, m) == script[d][m].size + (IF script[d][m].kind = "headResponse" THEN 1 ELSE 0)

(* Mutant of Parsed: Parse returns after the first message.                *)
ParsedFirst(d, data) == {StartsAt(d, data[1])} \ {0}

(* Parser.Parse of http reads message after message from the start of the  *)
(* chunk.  What is no HTTP message where one should start, and a header    *)
(* that the chunk's end cuts, ends the loop.                               *)
Parsed(d, data) ==
  LET read[m \in 0..Len(script[d])] ==
        IF m = 0 THEN [next |-> data[1], msgs |-> {}]
        ELSE LET r == read[m - 1] IN
             IF /\ r.next = HeadOf(d, m) /\ HeaderIn(d, m, Units(data))
                /\ script[d][m].kind # "frame"
             THEN [next |-> r.next + SpanOf(d, m), msgs |-> r.msgs \cup {m}]
             ELSE r
  IN  read[Len(script[d])].msgs

(* readRequest / readResponse: UID = ConnID and the counter, post-         *)
(* incremented.                                                            *)
Numbered(c, i, d, ms) ==
  {[conn |-> c, inc |-> i, dir |-> d,
    seq |-> seq[c][d] + Cardinality({x \in ms : x < m}), msg |-> m] : m \in ms}

Init ==
  /\ RInit /\ script \in Scripts
  /\ seq = [c \in Conns |-> [d \in Dirs |-> 0]] /\ events = {} /\ split = {}

(* handleTCP on a data chunk.  The WebSocket parser keeps and numbers      *)
(* nothing; if no parser claims the chunk it is given up.                  *)
HandleData ==
  /\ Consume /\ ~Head(output).closed
  /\ LET m == Head(output) IN
     \E sample \in SamplesOf(m.dir, m.data) :
       LET ms == IF ParserFor(m.dir, sample) = "http" THEN Parsed(m.dir, m.data) ELSE {}
       IN  /\ events' = events \cup Numbered(m.conn, m.inc, m.dir, ms)
           /\ seq' = [seq EXCEPT ![m.conn][m.dir] = @ + Cardinality(ms)]
           /\ split' = IF StartsAt(m.dir, m.data[1]) = 0
                       THEN split \cup {<<m.conn, m.inc, m.dir>>} ELSE split
  /\ UNCHANGED script

(* Mutant of Forget: OnConnClose leaves the counters.                      *)
ForgetNothing(c) == seq' = seq

(* Parser.OnConnClose: connStates.Delete.                                  *)
Forget(c) == seq' = [seq EXCEPT ![c] = [d \in Dirs |-> 0]]

(* handleTCP on a close marker: Registry.NotifyClose.                      *)
HandleClose ==
  /\ Consume /\ Head(output).closed
  /\ Forget(Head(output).conn)
  /\ UNCHANGED <<script, events, split>>

Next ==
  \/ Assemble /\ UNCHANGED <<script, seq, events, split>>
  \/ HandleData
  \/ HandleClose

Spec == Init /\ [][Next]_vars

-----------------------------------------------------------------------------
Exchange(e) == script[e.dir][e.msg].exchange

(* Events with the same UID and opposite directions are of one exchange.   *)
Paired(e, f) ==
  /\ e.conn = f.conn /\ e.inc = f.inc /\ e.seq = f.seq
  /\ e.dir = "client" /\ f.dir = "server"
  => Exchange(e) = Exchange(f)

(* proto/event.go:24-25: "the Nth request from the client pairs with the   *)
(* Nth response from the server".  ReassembledSG may cut a message, after  *)
(* which readRequest and readResponse no longer count in step.             *)
PairsMatch == \A e, f \in events : Paired(e, f)

(* What can go wrong with a stream on the way to the parser: a chunk was   *)
(* dropped, or began inside a message, or the previous stream of the       *)
(* 4-tuple lost its close marker so that its counters were inherited.      *)
Disturbed(c, i) ==
  \/ \E d \in Dirs : <<c, i, d>> \in dropped \cup split
  \/ <<c, i - 1>> \in unmarked

(* Kinds behind which the counter of a direction is off: an upgrade        *)
(* request, which goes uncounted to the WebSocket parser with the requests *)
(* in its chunk (if the server refuses it and the client goes on, the      *)
(* requests lag behind the responses); a request whose chunk no Probe      *)
(* knows; an interim response, counted as a response of its own; an answer *)
(* to HEAD, read together with what follows.                               *)
Skewing == {"upgrade", "trace", "interim", "headResponse"}

Skewed(d, m) == \E x \in 1..m - 1 : script[d][x].kind \in Skewing

(* With none of these, the event with sequence number n is about exchange  *)
(* n + 1, so that equal UIDs pair the request with its own response, also  *)
(* when the 4-tuple is used again (docs/user-guide.md:994-996), and also   *)
(* when a WebSocket upgrade is granted: whatever parser Resolve picks for  *)
(* each chunk, the messages in front of the switch keep their numbers.     *)
NumberingExact ==
  \A e \in events :
    ~Disturbed(e.conn, e.inc) /\ ~Skewed(e.dir, e.msg) => Exchange(e) = e.seq + 1

(* Choosing the parser chunk by chunk and reading the chunk to its end     *)
(* lose nothing but what the chunk's end cuts: of a chunk that starts with *)
(* a message, the messages that start in it have an event if and only if   *)
(* their header is whole in it, when the direction has nothing but HTTP of *)
(* the methods the Probe knows and no answer to HEAD, and whatever chunks  *)
(* were dropped or cut before.  So one message at most is lost, the last:  *)
(* Parse drops the "partial follow-up", and no later chunk makes up for it.*)
AllReported ==
  \A k \in 1..Len(rcvd) :
    LET r     == rcvd[k]
        begun == {m \in 1..Len(script[r.dir]) : HeadOf(r.dir, m) \in Units(r.data)}
    IN  /\ ~r.closed /\ StartsAt(r.dir, r.data[1]) # 0
        /\ \A m \in 1..Len(script[r.dir]) :
             script[r.dir][m].kind \notin {"trace", "upgrade", "switching", "frame", "headResponse"}
        => \A m \in begun :
             HeaderIn(r.dir, m, Units(r.data)) <=>
               \E e \in events : <<e.conn, e.inc, e.dir, e.msg>> = <<r.conn, r.inc, r.dir, m>>
=============================================================================
