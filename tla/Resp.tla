-------------------------------- MODULE Resp --------------------------------
(***************************************************************************)
(* The Redis parser (internal/protocol/redis/parser.go): Parse decodes one *)
(* RESP value after the other, descending into arrays, until one is not    *)
(* complete or not understood.                                             *)
(*                                                                         *)
(* A unit is a value other than an array with its line (and, for a bulk    *)
(* string, its data), or the line that announces an array of n values; n   *)
(* is -1 for the null array, and for a line that is not understood.  A     *)
(* chunk is a window of a direction's units.  A unit cut off at its end is *)
(* like none: readLine does not find its end, or the bulk string does not  *)
(* fit.                                                                    *)
(*                                                                         *)
(* Parse keeps nothing between chunks, so one that begins inside a bulk    *)
(* string reads that string's bytes as RESP, and they may be anything: any *)
(* units, and the line of a bulk string of any length an int can hold.     *)
(***************************************************************************)
EXTENDS ParseCall, FiniteSets, SequencesExt

CONSTANTS
  MaxValues,  \* bound: top-level values of a stream
  MaxCut,     \* bound: units of a chunk that begins inside a bulk string
  MaxInt      \* the largest int

ASSUME ValuesAssumption ==
  MaxValues \in Nat /\ MaxCut \in Nat /\ MaxInt \in Nat /\ MaxInt > MaxCut + 3

Value    == [kind |-> "value", n |-> 0]  \* simple or bulk string, integer, inline
Error    == [kind |-> "error", n |-> 0]
Array(n) == [kind |-> "array", n |-> n]
Bulk(n)  == [kind |-> "bulk", n |-> n]   \* a line that announces n units of data

(* Commands, replies of several values, of EXEC (with an error or a null   *)
(* array inside), and the empty and the null array, unit by unit.          *)
Values ==
  {<<Value>>, <<Error>>, <<Array(0)>>, <<Array(-1)>>, <<Array(2), Value, Value>>,
   <<Array(2), Array(1), Value, Value>>, <<Array(1), Error>>, <<Array(1), Array(-1)>>}

(* What the bytes of a bulk string may read as.                            *)
Strays == {Value, Error, Array(2), Array(-1), Bulk(0), Bulk(MaxInt - 3), Bulk(MaxInt)}

Aligned ==
  \E n \in 1..MaxValues : \E s \in [1..n -> Values] :
    LET u == FlattenSeq(s) IN
    \E a \in 1..Len(u) : \E b \in a..Len(u) :
      call = [parser |-> "redis", cut |-> FALSE, stream |-> s, from |-> a, data |-> SubSeq(u, a, b)]

Stray ==
  \E n \in 1..MaxCut : \E u \in [1..n -> Strays] :
    call = [parser |-> "redis", cut |-> TRUE, stream |-> <<>>, from |-> 1, data |-> u]

RespInit ==
  /\ Aligned \/ Stray
  /\ local = [pos |-> 1] /\ out = <<>> /\ status = "run"

(* Sums of ints wrap around.                                               *)
Wrap(x) == IF x > MaxInt THEN x - 2 * (MaxInt + 1) ELSE x

(* readRESPValue of a bulk string of n units whose line is the first of    *)
(* rest units: the units it consumes, 0 if it is not all there, and -1 if  *)
(* data[pos : pos+length] is out of range.  The final CR LF counts 2.      *)
BulkSpan(n, rest) ==
  LET end == Wrap(1 + n + 2) IN
  IF end > rest THEN 0
  ELSE IF Wrap(1 + n) \notin 1..rest THEN -1
  ELSE end

(* Mutant of ReadValues: an array inside an array is not descended into.   *)
ReadFlat(i, n) == IF i + n <= Len(call.data) + 1 THEN i + n ELSE 0

(* readRESPValue, called n times: the unit after n values from unit i on,  *)
(* 0 if they are not all there, -1 after a panic.                          *)
ReadValues(i, n) ==
  LET u == call.data
      read[x \in (-1..Len(u) + 1) \X (0..2)] ==
        LET j    == x[1]
            m    == x[2]
            span == BulkSpan(u[j].n, Len(u) - j + 1)
        IN  IF j <= 0 \/ m = 0 THEN j
            ELSE IF j > Len(u) THEN 0
            ELSE IF u[j].kind = "bulk" THEN IF span <= 0 THEN span ELSE read[<<j + span, m - 1>>]
            ELSE IF u[j].kind # "array" THEN read[<<j + 1, m - 1>>]
            ELSE IF u[j].n < 0 THEN 0
            ELSE read[<<read[<<j + 1, u[j].n>>], m - 1>>]
  IN  read[<<i, n>>]

(* decodeOne at unit i: whether there is an event, and the next unit, 0 if *)
(* the value is not complete or a null array, -1 after a panic.            *)
DecodeOne(i) ==
  LET u == call.data[i] IN
  CASE u.kind = "array" -> [event |-> u.n > 0,
                            next |-> IF u.n < 0 THEN 0 ELSE ReadValues(i + 1, u.n)]
    [] u.kind = "error" -> [event |-> TRUE, next |-> i + 1]
    [] OTHER            -> [event |-> FALSE, next |-> ReadValues(i, 1)]

RespStep ==
  /\ Running("redis")
  /\ IF local.pos > Len(call.data) THEN Return("ok")
     ELSE LET d == DecodeOne(local.pos) IN
          IF d.next < 0 \/ d.next > Len(call.data) + 1 THEN Panic
          ELSE IF d.next = 0 THEN Return("ok")
          ELSE /\ out' = IF d.event THEN Append(out, local.pos) ELSE out
               /\ local' = [pos |-> d.next]
               /\ UNCHANGED <<call, status>>

-----------------------------------------------------------------------------
(* Where the values of a stream end, counted in units.                     *)
ValueEnds(s) == LET end[j \in 0..Len(s)] == IF j = 0 THEN 0 ELSE end[j - 1] + Len(s[j]) IN end

(* Where top-level value i of the stream starts, in units of the chunk.    *)
ValueStart(i) == 2 + ValueEnds(call.stream)[i - 1] - call.from

ValueWhole(i) == 1 <= ValueStart(i) /\ ValueStart(i + 1) <= Len(call.data) + 1

ValueNull(i) == Array(-1) \in Range(call.stream[i])

(* The events due of the chunk: for each whole command, reply or error in  *)
(* it, up to the first null array, which is not understood wherever it is. *)
EventsDue ==
  LET due(i) == /\ ValueWhole(i) /\ call.stream[i][1] \notin {Value, Array(0)}
                /\ \A j \in 1..i : ValueWhole(j) => ~ValueNull(j)
  IN  {ValueStart(i) : i \in {j \in 1..Len(call.stream) : due(j)}}

(* Of a chunk that starts with a value, Parse makes one event of each      *)
(* whole array and error at top level, in order, and none of what is       *)
(* nested in them, whatever the nesting: the count of an array is the      *)
(* count of its values, not of its lines.                                  *)
TopLevelOnly ==
  /\ status = "ok" /\ call.parser = "redis" /\ ~call.cut
  /\ \E i \in 1..Len(call.stream) : ValueStart(i) = 1
  => Range(out) = EventsDue /\ Ascending(out)
=============================================================================
