------------------------------ MODULE MCParsers ------------------------------
(***************************************************************************)
(* The registry and the parsers it leads to, for TLC: a behaviour either   *)
(* builds a registry, or makes one call of one parser's Parse.             *)
(***************************************************************************)
EXTENDS Registry, Dns, Framing, Resp, Lines, ClientHello

ClientSuites == <<4865, 2571>>
ClientGroups == <<29, 10>>
ServerHost   == <<97, 98>>
Sessions     == {<<>>, <<7, 7>>}
ClientLists  == {<<>>, <<ServerName>>, <<GroupsExt, PointsExt, ServerName, Alpn>>,
                 <<Alpn, ServerName, GroupsExt>>}

MCInit ==
  /\ Init
  /\ NoCall \/ DnsInit \/ FramingInit \/ RespInit \/ LinesInit \/ HelloInit

ParseStep ==
  /\ DnsNext \/ FramingNext \/ RespStep \/ PieceStep \/ HelloNext
  /\ UNCHANGED vars

MCNext ==
  \/ status = "none" /\ Next /\ UNCHANGED callVars
  \/ ParseStep

(* A goroutine inside Parse waits for nothing.                             *)
MCSpec == MCInit /\ [][MCNext]_<<vars, callVars>> /\ WF_<<vars, callVars>>(ParseStep)

-----------------------------------------------------------------------------
(* A length the Redis parser adds up beyond the largest int.               *)
Overflows == \E u \in Range(call.data) : u.kind = "bulk" /\ u.n + 3 > MaxInt

(* Nothing in the program recovers from a panic, and bytes on the wire can *)
(* cause one in two places only.  Over any bytes in a DNS message, and     *)
(* over streams of well-formed messages cut anywhere for the MySQL,        *)
(* PostgreSQL, MongoDB, MQTT, Redis and TLS parsers, no Parse slices or    *)
(* indexes outside its data, except that formatRData asks decodeName for a *)
(* CNAME, NS or PTR at offset -1 (dns/parser.go:243), and that a chunk     *)
(* that begins inside a Redis bulk string may hold the line of another     *)
(* whose length overflows in readRESPValue (redis/parser.go:191-195).      *)
(* (The line parsers slice only behind a check of that very length; Lines  *)
(* has nothing to say of them.)                                            *)
KnownPanics ==
  status = "panic" =>
    \/ call.parser = "dns" /\ local.at = "alias"
    \/ call.parser = "redis" /\ call.cut /\ Overflows

(* Every call of Parse ends: the DNS pointers, whose targets are recorded  *)
(* in visited (dns/parser.go:137-185), and the lengths that drive the      *)
(* other loops cannot hold the dispatcher's loop for ever.                 *)
Returns == status = "run" ~> status # "run"
=============================================================================
