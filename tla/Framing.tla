------------------------------ MODULE Framing -------------------------------
(***************************************************************************)
(* The parsers of length-prefixed protocols: MySQL, PostgreSQL, MongoDB    *)
(* and MQTT (internal/protocol/{mysql,postgres,mongodb,mqtt}/parser.go).   *)
(* Each Parse reads a length from the front of its data, gives the message *)
(* to a decode function that makes an event of it or not, and goes on      *)
(* behind it until a length does not fit.                                  *)
(*                                                                         *)
(* A chunk is a window of the byte stream of one direction, cut anywhere   *)
(* by the reassembler.  Bytes are units and headers may be shorter than    *)
(* the real ones.  A length read where no message starts may be anything.  *)
(***************************************************************************)
EXTENDS ParseCall, FiniteSets, SequencesExt

CONSTANTS
  Framed,       \* the parsers considered
  Header,       \* units of the smallest header: 4, 5, 16 and 2 bytes in the code
  MaxBody,      \* bound: units behind the header of a message
  MaxMessages   \* bound: messages of a stream

ASSUME FramingAssumption ==
  /\ Framed \subseteq {"mysql", "postgres", "mongodb", "mqtt"}
  /\ Header \in Nat \ {0} /\ MaxBody \in Nat /\ MaxMessages \in Nat

-----------------------------------------------------------------------------
(* The parsers.  client and server: the kinds of messages each side sends, *)
(* and whether the decode functions make an event of one.  least: the      *)
(* least total length with which the loop goes on.  opening: kinds without *)
(* a tag, sent only at the start of a connection.  refused: kinds that end *)
(* the loop before their length is read.                                   *)

(* decodeCommand knows COM_QUERY and COM_STMT_PREPARE; decodeResponse OK,  *)
(* and ERR if it has a code.  A payload of length 0 ends the loop.         *)
MysqlFrames ==
  [client |-> [command |-> TRUE, other |-> FALSE],
   server |-> [ok |-> TRUE, err |-> TRUE, other |-> FALSE],
   least |-> Header + 1, opening |-> {}, refused |-> {}]

(* decodeMessage knows Q, P (if its statement name is terminated), and E   *)
(* from the server.  An SSLRequest has no tag and is not known to Parse.   *)
PostgresFrames ==
  [client |-> [startup |-> FALSE, ssl |-> FALSE, query |-> TRUE, other |-> FALSE],
   server |-> [error |-> TRUE, other |-> FALSE],
   least |-> Header, opening |-> {"startup", "ssl"}, refused |-> {}]

(* decodeOpMsg knows a body of kind 0 whose document has a first key (see  *)
(* extractFirstKey), decodeOpQuery one with a collection's name.           *)
MongodbFrames ==
  [client |-> [opMsg |-> TRUE, opQuery |-> TRUE, other |-> FALSE],
   server |-> [opMsg |-> TRUE, other |-> FALSE],
   least |-> Header, opening |-> {}, refused |-> {}]

(* Every packet of type 1 to 14 is an event; type 15, which is AUTH in     *)
(* MQTT 5, ends the loop.  (If the chunk ends inside the remaining length, *)
(* decodeRemainingLength fails: a length that does not fit, as here.)      *)
MqttFrames ==
  [client |-> [packet |-> TRUE, auth |-> FALSE], server |-> [packet |-> TRUE, auth |-> FALSE],
   least |-> Header, opening |-> {}, refused |-> {"auth"}]

Frames == [mysql |-> MysqlFrames, postgres |-> PostgresFrames, mongodb |-> MongodbFrames,
           mqtt |-> MqttFrames]

(* What a side of a connection sends, and what is made of it.              *)
Known(p, client) == IF client THEN Frames[p].client ELSE Frames[p].server

-----------------------------------------------------------------------------
(* Streams: sequences of [kind, size].                                     *)

MessagesOf(p, c) == [kind : DOMAIN Known(p, c), size : Header..Header + MaxBody]

(* An untagged message is the first of its stream, or follows SSLRequest.  *)
Streams(p, c) ==
  {s \in UNION {[1..n -> MessagesOf(p, c)] : n \in 1..MaxMessages} :
     \A i \in 1..Len(s) :
       s[i].kind \in Frames[p].opening => i = 1 \/ s[i - 1].kind = "ssl"}

(* Where the messages of stream s end, counting from 0; where message i    *)
(* starts; the stream's end.                                               *)
Ends(s) == LET end[j \in 0..Len(s)] == IF j = 0 THEN 0 ELSE end[j - 1] + s[j].size IN end

StartOf(s, i) == Ends(s)[i - 1]

StreamEnd(s) == StartOf(s, Len(s) + 1)

FramingInit ==
  /\ \E p \in Framed, c \in BOOLEAN : \E s \in Streams(p, c) :
       \E a \in 0..StreamEnd(s) - 1 : \E b \in a + 1..StreamEnd(s) :
         call = [parser |-> p, client |-> c, stream |-> s, from |-> a, to |-> b]
  /\ local = [pos |-> call.from, loop |-> FALSE] /\ out = <<>> /\ status = "run"

-----------------------------------------------------------------------------
Framing(p) == p \in Framed /\ Running(p)

(* The message that starts at unit n of the stream, or 0.                  *)
MessageAt(n) ==
  LET at == {i \in 1..Len(call.stream) : StartOf(call.stream, i) = n}
  IN  IF at = {} THEN 0 ELSE CHOOSE i \in at : TRUE

Kind(i) == call.stream[i].kind

Tagged(i) == i # 0 /\ Kind(i) \notin Frames[call.parser].opening

(* Postgres skips a startup message at the front of a client's chunk, and  *)
(* bytes inside a message that happen to look like one.                    *)
Skipped(n) ==
  LET i == MessageAt(n) IN
  CASE call.parser # "postgres" \/ ~call.client -> {n}
    [] call.parser = "postgres" /\ call.client /\ i = 0 -> n..call.to
    [] OTHER -> {IF Kind(i) = "startup" /\ n + call.stream[i].size <= call.to
                 THEN n + call.stream[i].size ELSE n}

Enter ==
  /\ \E p \in Framed : Framing(p)
  /\ ~local.loop
  /\ \E n \in Skipped(local.pos) : local' = [pos |-> n, loop |-> TRUE]
  /\ UNCHANGED <<call, out, status>>

(* The total length read at the front of the data.                         *)
Declared(n) ==
  IF Tagged(MessageAt(n)) THEN {call.stream[MessageAt(n)].size}
  ELSE 0..Header + MaxBody + 1

(* Mutant of Fits: a message that ends with the chunk does not fit.        *)
FitsStrictly(total, rest) == total >= Frames[call.parser].least /\ total < rest

(* The loop goes on with a message of this length.                         *)
Fits(total, rest) == total >= Frames[call.parser].least /\ total <= rest

Refused(i) == i # 0 /\ Kind(i) \in Frames[call.parser].refused

(* The decode functions: an event, or nil.  Of bytes that are not at the   *)
(* start of a message either may come; the first byte of an untagged       *)
(* message, of its length, is no tag.                                      *)
Decoded(i) ==
  CASE i = 0 -> {<<>>, <<0>>}
    [] i # 0 /\ Tagged(i) /\ Known(call.parser, call.client)[Kind(i)] -> {<<i>>}
    [] OTHER -> {<<>>}

(* One turn of the loop.  The body is sliced out behind the header.        *)
FrameStep ==
  /\ \E p \in Framed : Framing(p)
  /\ local.loop
  /\ LET rest == call.to - local.pos IN
     IF rest < Header \/ Refused(MessageAt(local.pos)) THEN Return("ok")
     ELSE \E total \in Declared(local.pos) :
            IF ~Fits(total, rest) THEN Return("ok")
            ELSE IF total < Header \/ total > rest THEN Panic
            ELSE /\ \E ev \in Decoded(MessageAt(local.pos)) : out' = out \o ev
                 /\ local' = [local EXCEPT !.pos = @ + total]
                 /\ UNCHANGED <<call, status>>

FramingNext == Enter \/ FrameStep

-----------------------------------------------------------------------------
(* Messages behind which Parse reads nothing sensible in the chunk: an     *)
(* empty MySQL packet; an SSLRequest (one the server refused is followed   *)
(* by the startup and the queries in the clear); a startup message that is *)
(* not whole, or not at the front; an AUTH packet of MQTT, with which the  *)
(* packets behind it in the chunk are lost.                                *)
Stops(i) ==
  \/ call.parser = "mysql" /\ call.stream[i].size = Header
  \/ Kind(i) = "ssl"
  \/ Kind(i) = "startup" /\ (StartOf(call.stream, i) # call.from
                             \/ StartOf(call.stream, i + 1) > call.to)
  \/ Refused(i)

(* The whole messages of the chunk that the decode functions know, up to   *)
(* the first that stops the loop.                                          *)
WholeKnown ==
  LET inChunk(i) == call.from <= StartOf(call.stream, i) /\ StartOf(call.stream, i + 1) <= call.to
  IN  {i \in 1..Len(call.stream) :
         /\ inChunk(i) /\ Known(call.parser, call.client)[Kind(i)]
         /\ \A j \in 1..i : inChunk(j) => ~Stops(j)}

(* Of a chunk that starts with a message, Parse makes exactly one event of *)
(* each whole message its decode functions know, in order, up to the first *)
(* of those that stop it (Stops): apart from what is behind that, only the *)
(* message cut off at the chunk's end is lost, and none is made up.  (Of a *)
(* chunk that starts inside a message nothing can be said: the parsers     *)
(* keep no bytes between chunks and do not resynchronise.)                 *)
WholeMessages ==
  /\ status = "ok" /\ call.parser \in Framed
  /\ MessageAt(call.from) # 0 /\ ~Stops(MessageAt(call.from))
  => Range(out) = WholeKnown /\ Ascending(out)
=============================================================================
