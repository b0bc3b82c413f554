-------------------------------- MODULE Lines --------------------------------
(***************************************************************************)
(* The parsers of line protocols: SMTP, FTP, IMAP and POP3                 *)
(* (internal/protocol/{smtp,ftp,imap,pop3}/parser.go).  Parse splits its   *)
(* data at every CR LF and makes an event of each piece that is not empty  *)
(* and, in an answer of SMTP or FTP, starts with a three-digit code.       *)
(*                                                                         *)
(* A line is the number of units of its text and whether it starts with a  *)
(* code; CR and LF are units.  A chunk is a window of the stream of one    *)
(* direction, cut anywhere, also between CR and LF.                        *)
(***************************************************************************)
EXTENDS ParseCall, FiniteSets, SequencesExt

CONSTANTS
  CodeSize,     \* units of a code: 3 bytes
  MaxText,      \* bound: units of a line's text
  MaxLines      \* bound: lines of a stream

ASSUME LinesAssumption == CodeSize \in Nat \ {0} /\ MaxText \in Nat /\ MaxLines \in Nat

LineParsers == {"smtp", "ftp", "imap", "pop3"}

TextLines == {l \in [text : 0..MaxText, code : BOOLEAN] : l.code => l.text >= CodeSize}

(* The units of line i: <<i, n>> for the n-th unit of its text, which CR   *)
(* and LF follow.                                                          *)
UnitsOf(i, l) == [n \in 1..l.text + 2 |-> <<i, n>>]

LinesInit ==
  \E p \in LineParsers, c \in BOOLEAN, n \in 1..MaxLines : \E s \in [1..n -> TextLines] :
    LET u == FlattenSeq([i \in 1..n |-> UnitsOf(i, s[i])]) IN
    \E a \in 1..Len(u) : \E b \in a..Len(u) :
      /\ call = [parser |-> p, client |-> c, stream |-> s, data |-> SubSeq(u, a, b)]
      /\ local = [pos |-> 1] /\ out = <<>> /\ status = "run"

LineAt(j) == call.data[j][1]

IsCR(j) == call.data[j][2] = call.stream[LineAt(j)].text + 1
IsLF(j) == call.data[j][2] = call.stream[LineAt(j)].text + 2

(* bytes.Split: the piece from unit i on ends before the next CR LF, or    *)
(* with the data.                                                          *)
Breaks(i) == {j \in i..Len(call.data) - 1 : IsCR(j) /\ IsLF(j + 1)}

PieceEnd(i) ==
  IF Breaks(i) = {} THEN Len(call.data)
  ELSE (CHOOSE j \in Breaks(i) : \A m \in Breaks(i) : j <= m) - 1

(* Mutant of AfterBreak: the LF stays with the next line.                  *)
AfterCR(e) == e + 2

AfterBreak(e) == e + 3

(* strconv.Atoi of the first three bytes of the piece i..e succeeds: it    *)
(* does for a code, may in the middle of a text, and does not for a piece  *)
(* that is too short or starts with the LF of a cut line.                  *)
StartsWithCode(i, e) ==
  IF e - i + 1 < CodeSize \/ IsLF(i) \/ IsCR(i) THEN {FALSE}
  ELSE IF call.data[i][2] = 1 THEN {call.stream[LineAt(i)].code}
  ELSE {TRUE, FALSE}

(* Whether the parsers make an event of the piece i..e: of every command;  *)
(* of an answer if it has a code, in SMTP and FTP, or always.              *)
SmtpEvent(i, e) == IF call.client THEN {TRUE} ELSE StartsWithCode(i, e)
FtpEvent(i, e)  == IF call.client THEN {TRUE} ELSE StartsWithCode(i, e)
ImapEvent(i, e) == {TRUE}
Pop3Event(i, e) == {TRUE}

(* An empty piece is passed over.                                          *)
Eligible(i, e) ==
  IF i > e THEN {FALSE}
  ELSE CASE call.parser = "smtp" -> SmtpEvent(i, e)
         [] call.parser = "ftp"  -> FtpEvent(i, e)
         [] call.parser = "imap" -> ImapEvent(i, e)
         [] call.parser = "pop3" -> Pop3Event(i, e)

(* One turn of the loop over the pieces; the event is named by the line    *)
(* the piece ends in.                                                      *)
PieceStep ==
  /\ call.parser \in LineParsers /\ Running(call.parser)
  /\ IF local.pos > Len(call.data) THEN Return("ok")
     ELSE LET e == PieceEnd(local.pos) IN
       /\ \E event \in Eligible(local.pos, e) :
            out' = IF event THEN Append(out, LineAt(e)) ELSE out
       /\ local' = [pos |-> AfterBreak(e)]
       /\ UNCHANGED <<call, status>>

-----------------------------------------------------------------------------
(* A chunk makes at most one event of a line, in order; it makes one of    *)
(* every line that is in it from its first unit to its LF and is not       *)
(* empty, for an answer of SMTP or FTP if and only if it has a code.  So a *)
(* cut costs one more event for the line it is in (each half is one), and  *)
(* no more -- except a cut between CR and LF, after which the next answer  *)
(* of SMTP or FTP, now preceded by a LF, is not recognised.                *)
OneEventPerLine ==
  status = "ok" /\ call.parser \in LineParsers =>
    /\ Ascending(out)
    /\ \A i \in 1..Len(call.stream) :
         LET l == call.stream[i]
             coded == ~call.client /\ call.parser \in {"smtp", "ftp"}
             whole == Range(UnitsOf(i, l)) \subseteq Range(call.data)
             behindLF == i > 1 /\ call.data[1] = <<i - 1, call.stream[i - 1].text + 2>>
         IN  whole /\ ~behindLF =>
               (i \in Range(out) <=> l.text > 0 /\ (coded => l.code))
=============================================================================
