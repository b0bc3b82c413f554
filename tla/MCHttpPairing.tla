---------------------------- MODULE MCHttpPairing ----------------------------
(* Instances of HttpPairing, and so of Reassembly, for TLC. *)
EXTENDS HttpPairing

Msg(kind, head, size, exchange) ==
  [kind |-> kind, head |-> head, size |-> size, exchange |-> exchange]

(* A message without a body, with a header of one unit.                    *)
Short(kind, exchange) == Msg(kind, 1, 1, exchange)

Gets(n) == [i \in 1..n |-> Short("get", i)]

(* Three units a direction: the second response may be cut by a flush, in  *)
(* its body or, as the first one, in its header; an upgrade that is        *)
(* granted; one that is refused; an upgrade and a grant with long headers; *)
(* an interim response and a long request; an answer to HEAD, and a method *)
(* that is not probed for.                                                 *)
ShortScripts ==
  {[client |-> Gets(3), server |-> <<Msg("response", 2, 2, 1), Short("response", 2)>>],
   [client |-> <<Short("get", 1), Short("upgrade", 2), Short("frame", 3)>>,
    server |-> <<Short("response", 1), Short("switching", 2), Short("frame", 3)>>],
   [client |-> <<Short("upgrade", 1), Short("get", 2), Short("get", 3)>>,
    server |-> <<Short("response", 1), Msg("response", 1, 2, 2)>>],
   [client |-> <<Short("get", 1), Msg("upgrade", 2, 2, 2)>>,
    server |-> <<Short("response", 1), Msg("switching", 2, 2, 2)>>],
   [client |-> <<Short("get", 1), Msg("get", 2, 2, 2)>>,
    server |-> <<Short("interim", 1), Short("response", 1), Short("response", 2)>>],
   [client |-> <<Short("head", 1), Short("trace", 2), Short("get", 3)>>,
    server |-> <<Short("headResponse", 1), Short("response", 2), Short("response", 3)>>]}

(* Three exchanges, the first response longer than the threshold.          *)
LongResponse ==
  {[client |-> <<Short("get", 1), Short("get", 2), Msg("get", 1, 3, 3)>>,
    server |-> <<Msg("response", 1, 3, 1), Short("response", 2), Short("response", 3)>>]}
=============================================================================
