------------------------------ MODULE ParseCall ------------------------------
(***************************************************************************)
(* One call of a parser's Parse(data, meta, isFromClient), as the          *)
(* dispatcher makes it for every chunk and every datagram.  The parsers of *)
(* this module's clients keep nothing between two calls, so a call is all  *)
(* there is to say of them.  The modules Dns, Framing, Resp, Lines and     *)
(* ClientHello say what the loops in their Parse do.                       *)
(***************************************************************************)
EXTENDS Integers, Sequences

VARIABLES
  call,    \* the parser and its input
  local,   \* the local variables of the loop
  out,     \* what the call has produced so far
  status   \* "none" (no call), "run", "ok", "err" (an error is returned) or "panic"

callVars == <<call, local, out, status>>

(* No call is made.                                                        *)
NoCall == call = [parser |-> "none"] /\ local = <<>> /\ out = <<>> /\ status = "none"

Running(parser) == status = "run" /\ call.parser = parser

(* The call ends.                                                          *)
Return(s) == status' = s /\ UNCHANGED <<call, local, out>>

(* Data an index or a slice is outside of.                                 *)
Panic == Return("panic")

(* A sequence of numbers is in order, without repetition.                  *)
Ascending(s) == \A i, j \in 1..Len(s) : i < j => s[i] < s[j]
=============================================================================
