--------------------------------- MODULE Dns ---------------------------------
(***************************************************************************)
(* The DNS parser (internal/protocol/dns/parser.go): Parse walks the       *)
(* question and the answer section, decodeName follows labels and          *)
(* compression pointers, formatRData decodes the data of an answer.        *)
(*                                                                         *)
(* Data are bytes, offsets count from 0 as in the code.  The widths of the *)
(* fixed fields are parameters, so that short messages hold every part;    *)
(* the record type and the data's length are the first and the last byte   *)
(* of an answer's fixed part.  The counts of the header are given apart    *)
(* from its bytes.                                                         *)
(***************************************************************************)
EXTENDS ParseCall, FiniteSets, SequencesExt

CONSTANTS
  HeaderSize, QuestionFixed, AnswerFixed,  \* 12, 4 and 10 in the code
  PrefSize,                                \* an MX record's preference: 2
  Pointer,                                 \* the byte with the top two bits set
  AliasType, MxType, TxtType,              \* bytes for CNAME, NS, PTR; MX; TXT
  Bytes, MaxBytes, MaxCount                \* bounds: bytes, length and counts of a message

ASSUME DnsAssumption ==
  /\ {HeaderSize, QuestionFixed, AnswerFixed, PrefSize} \cup Bytes \subseteq Nat
  /\ AnswerFixed > 0 /\ Pointer # 0

Data == call.data
Size == Len(Data)

(* data[i].                                                                *)
At(i) == Data[i + 1]

Inside(i) == 0 <= i /\ i < Size

(* The locals of Parse, and below them those of decodeName.                *)
Fresh == [offset |-> HeaderSize, qd |-> call.qd, an |-> call.an, at |-> "section",
          cur |-> 0, visited |-> {}, newOffset |-> -1, rdata |-> 0, end |-> 0, start |-> 0]

DnsInit ==
  /\ \E n \in 0..MaxBytes, qd, an \in 0..MaxCount :
       \E d \in [1..n -> Bytes] :
         call = [parser |-> "dns", data |-> d, qd |-> qd, an |-> an]
  /\ local = Fresh /\ out = <<>> /\ status = "run"

(* decodeName(data, offset) is called from the place for.                  *)
DecodeName(offset, for, l) ==
  local' = [l EXCEPT !.at = for, !.cur = offset, !.visited = {}, !.newOffset = -1,
                     !.start = offset]

(* The two section loops.                                                  *)
Section ==
  /\ Running("dns") /\ local.at = "section"
  /\ IF Size < HeaderSize THEN Return("err")
     ELSE IF local.qd > 0
     THEN DecodeName(local.offset, "question", local) /\ UNCHANGED <<call, out, status>>
     ELSE IF local.an > 0
     THEN DecodeName(local.offset, "answer", local) /\ UNCHANGED <<call, out, status>>
     ELSE Return("ok")

InName == Running("dns") /\ local.at \in {"question", "answer", "alias", "mx"}

(* decodeName fails: Parse fails with it, formatRData falls back to hex.   *)
NameFails ==
  IF local.at \in {"question", "answer"}
  THEN Return("err")
  ELSE local' = [local EXCEPT !.at = "section"] /\ UNCHANGED <<call, out, status>>

(* What follows a name that ends with the offset n.                        *)
NameEnds(n) ==
  LET l == [local EXCEPT !.offset = n] IN
  /\ out' = Append(out, [from |-> local.start, next |-> n])
  /\ CASE local.at = "question" ->
            IF n + QuestionFixed > Size
            THEN status' = "err" /\ UNCHANGED local
            ELSE /\ local' = [l EXCEPT !.at = "section", !.offset = n + QuestionFixed,
                                       !.qd = @ - 1]
                 /\ UNCHANGED status
       [] local.at = "answer" ->
            LET rd == n + AnswerFixed IN
            IF rd > Size \/ rd + At(rd - 1) > Size
            THEN status' = "err" /\ UNCHANGED local
            ELSE /\ local' = [l EXCEPT !.at = "rdata", !.rdata = rd, !.end = rd + At(rd - 1),
                                       !.offset = rd + At(rd - 1), !.an = @ - 1]
                 /\ UNCHANGED status
       [] OTHER -> local' = [local EXCEPT !.at = "section"] /\ UNCHANGED status
  /\ UNCHANGED call

(* Mutant of Looped: no loop detection.                                    *)
LoopedNever(ptr) == FALSE

(* Mutant of Looped: any second pointer is taken for a loop.               *)
LoopedTwice(ptr) == local.visited # {}

(* visited[ptr].                                                           *)
Looped(ptr) == ptr \in local.visited

(* Mutant of PointerCut: the second byte is not checked.                   *)
PointerUncut == FALSE

(* The pointer's second byte is missing.                                   *)
PointerCut == local.cur + 1 >= Size

(* A compression pointer.                                                  *)
Follow ==
  IF PointerCut THEN NameFails
  ELSE IF ~Inside(local.cur + 1) THEN Panic
  ELSE LET ptr == At(local.cur + 1) IN
    IF Looped(ptr) THEN NameFails
    ELSE /\ local' = [local EXCEPT !.cur = ptr, !.visited = @ \cup {ptr},
                                   !.newOffset = IF @ < 0 THEN local.cur + 2 ELSE @]
         /\ UNCHANGED <<call, out, status>>

(* A label.                                                                *)
Label ==
  LET end == local.cur + 1 + At(local.cur) IN
    IF end > Size THEN NameFails
    ELSE local' = [local EXCEPT !.cur = end] /\ UNCHANGED <<call, out, status>>

(* One turn of decodeName's loop.  (An offset below 0 passes the check     *)
(* against len(data).)                                                     *)
NameStep ==
  /\ InName
  /\ IF local.cur >= Size THEN NameFails
     ELSE IF ~Inside(local.cur) THEN Panic
     ELSE CASE At(local.cur) = 0 ->
                 NameEnds(IF local.newOffset < 0 THEN local.cur + 1 ELSE local.newOffset)
            [] At(local.cur) = Pointer -> Follow
            [] OTHER -> Label

(* formatRData.  findOffset finds the data, a slice of the packet, where   *)
(* Parse cut it out.                                                       *)
FormatRData ==
  /\ Running("dns") /\ local.at = "rdata"
  /\ LET type   == At(local.rdata - AnswerFixed)
         length == local.end - local.rdata
     IN  CASE type = AliasType -> DecodeName(-1, "alias", local)
           [] type = MxType /\ length >= PrefSize + 1 ->
                DecodeName(local.rdata + PrefSize, "mx", local)
           [] type = TxtType -> local' = [local EXCEPT !.at = "txt", !.cur = local.rdata]
           [] OTHER -> local' = [local EXCEPT !.at = "section"]
  /\ UNCHANGED <<call, out, status>>

(* One turn of the TXT loop.                                               *)
TxtStep ==
  /\ Running("dns") /\ local.at = "txt"
  /\ LET next == local.cur + 1 + At(local.cur) IN
     IF local.cur >= local.end
     THEN local' = [local EXCEPT !.at = "section"] /\ UNCHANGED <<call, out, status>>
     ELSE IF ~Inside(local.cur) THEN Panic
     ELSE /\ local' = IF next > local.end THEN [local EXCEPT !.at = "section"]
                      ELSE [local EXCEPT !.cur = next]
          /\ UNCHANGED <<call, out, status>>

DnsNext == Section \/ NameStep \/ FormatRData \/ TxtStep

-----------------------------------------------------------------------------
(* Reference: the walk from offset i, as a function of the number of steps *)
(* taken; it has ended when it is at a zero byte, and is lost (-1) when it *)
(* leaves the data.                                                        *)
Succ(i) ==
  IF ~Inside(i) THEN -1
  ELSE CASE At(i) = 0 -> i
         [] At(i) = Pointer -> IF Inside(i + 1) THEN At(i + 1) ELSE -1
         [] OTHER -> IF i + 1 + At(i) <= Size THEN i + 1 + At(i) ELSE -1

WalkFrom(i) ==
  LET walk[n \in 0..Size] == IF n = 0 THEN i ELSE Succ(walk[n - 1]) IN walk

(* A name can be read at i: no walk over Size offsets is longer than Size  *)
(* steps without a repetition.                                             *)
Readable(i) == Inside(WalkFrom(i)[Size]) /\ At(WalkFrom(i)[Size]) = 0

(* The offset after the name at i: past its first pointer, or its zero.    *)
AfterName(i) ==
  LET w    == WalkFrom(i)
      stop == CHOOSE n \in 0..Size :
                /\ At(w[n]) \in {0, Pointer}
                /\ \A m \in 0..n - 1 : At(w[m]) \notin {0, Pointer}
  IN  w[stop] + (IF At(w[stop]) = 0 THEN 1 ELSE 2)

(* The fixed part after the name at i, or the data it announces, is cut.   *)
Truncated(at, i) ==
  LET n == AfterName(i) IN
  IF at = "question" THEN n + QuestionFixed > Size
  ELSE n + AnswerFixed > Size \/ n + AnswerFixed + At(n + AnswerFixed - 1) > Size

(* dns/parser.go:135-136: decodeName reads every name whose labels and     *)
(* pointers lead to a terminator -- a pointer forward, into the header or  *)
(* into the middle of a name included -- and returns the offset past the   *)
(* name field; Parse fails only on a name that cannot be read, or on what  *)
(* is cut behind it.                                                       *)
NamesAsWritten ==
  call.parser = "dns" =>
    /\ \A i \in 1..Len(out) : Readable(out[i].from) /\ out[i].next = AfterName(out[i].from)
    /\ status = "err" /\ Size >= HeaderSize /\ Readable(local.start)
         => Truncated(local.at, local.start)
=============================================================================
