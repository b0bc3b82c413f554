----------------------------- MODULE ClientHello -----------------------------
(***************************************************************************)
(* The TLS parser (internal/protocol/tls/parser.go): Parse takes the first *)
(* record, parseClientHello walks the ClientHello in it and its            *)
(* extensions, buildJA3 makes the fingerprint, without GREASE values.      *)
(*                                                                         *)
(* The input is a well-formed ClientHello, whole or cut off by the end of  *)
(* the chunk or of the record (the message then goes on in another one),   *)
(* or another handshake message.  A unit is a field of one or two bytes,   *)
(* or a byte of a name; version and random are one unit.  Lengths count    *)
(* units.                                                                  *)
(***************************************************************************)
EXTENDS ParseCall, FiniteSets, SequencesExt

CONSTANTS
  Suites, Groups,  \* the cipher suites and groups of a client
  GreaseValues,    \* values it may put in front of every list (RFC 8701)
  HostName,        \* the bytes of its server name
  SessionIds,      \* the session ids it may send
  ExtensionLists   \* the types of the extensions it may send, in order

ServerName == 0
Alpn       == 16
GroupsExt  == 10
PointsExt  == 11

(* isGREASE: both bytes are equal and end in 0xa.                          *)
IsGREASE(v) == v \div 256 = v % 256 /\ v % 16 = 10

ASSUME GreaseAssumption ==
  /\ Suites \in Seq(Nat) /\ Groups \in Seq(Nat) /\ HostName \in Seq(Nat)
  /\ GreaseValues \subseteq Nat /\ \A v \in GreaseValues : IsGREASE(v)
  /\ \A v \in Range(Suites) \cup Range(Groups) : ~IsGREASE(v)
  /\ SessionIds \subseteq Seq(Nat) /\ ExtensionLists \subseteq Seq(Nat)

-----------------------------------------------------------------------------
(* What a client sends.                                                    *)

Prefixed(s) == <<Len(s)>> \o s

(* "h2" and "h".                                                           *)
Protocols == <<<<104, 50>>, <<104>>>>

(* The bodies of the extensions; g is the GREASE values put in front.      *)
Body(type, g) ==
  CASE type = ServerName -> Prefixed(<<0>> \o Prefixed(HostName))
    [] type = Alpn       -> Prefixed(FlattenSeq([i \in 1..2 |-> Prefixed(Protocols[i])]))
    [] type = GroupsExt  -> Prefixed(g \o Groups)
    [] type = PointsExt  -> Prefixed(<<0>>)
    [] OTHER             -> <<>>

Extensions(types, g) ==
  FlattenSeq([i \in 1..Len(types) |-> <<types[i]>> \o Prefixed(Body(types[i], g))])

(* version, session id, cipher suites, compression methods, extensions.    *)
Hello(sid, types, g) ==
  <<771>> \o Prefixed(sid) \o Prefixed(g \o Suites) \o Prefixed(<<0>>)
    \o Prefixed(Extensions(g \o types, g))

(* Where the part of a hello that parseClientHello insists on ends.        *)
Mandatory(sid, g) == 1 + Len(Prefixed(sid)) + Len(Prefixed(g \o Suites)) + 2

(* A record of content type ct that holds kept units of the message, and   *)
(* the first n units of it with, if it is all there, more behind it.       *)
HelloInit ==
  /\ \E sid \in SessionIds, types \in ExtensionLists, ct \in {22, 23}, type \in {1, 2},
        g \in {<<>>} \cup {<<v>> : v \in GreaseValues} :
       LET hs == Hello(sid, types, g) IN
       \E kept \in {Len(hs) \div 2, Len(hs)} :
         LET record == <<ct>> \o Prefixed(<<type, Len(hs)>> \o SubSeq(hs, 1, kept)) IN
         \E n \in 0..Len(record), more \in {<<>>, <<22, 9>>} :
           /\ n < Len(record) => more = <<>>
           /\ call = [parser |-> "tls", type |-> type, sid |-> sid, types |-> types, grease |-> g,
                      hello |-> ct = 22 /\ type = 1 /\ n > 3, units |-> n - 4,
                      data |-> SubSeq(record, 1, n) \o more]
  /\ local = [at |-> "record", hs |-> <<>>, off |-> 0, end |-> 0]
  /\ out = [suites |-> <<>>, types |-> <<>>, name |-> <<>>, alpn |-> <<>>, groups |-> <<>>,
            points |-> <<>>]
  /\ status = "run"

-----------------------------------------------------------------------------
(* Parse.                                                                  *)

Shortest(m, n) == IF m < n THEN m ELSE n

(* hs[i], counting from 0.                                                 *)
U(i) == local.hs[i + 1]

Length == Len(local.hs)

(* The units from i on, n of them at most.                                 *)
Slice(s, i, n) == SubSeq(s, i + 1, Shortest(i + n, Len(s)))

(* The record and handshake headers.  A record that is cut off is taken as *)
(* it is; of a message other than a ClientHello only the type is reported. *)
Record ==
  /\ Running("tls") /\ local.at = "record"
  /\ LET payload == Slice(call.data, 2, call.data[2])
         hs      == Slice(payload, 2, payload[2])
     IN  IF Len(call.data) < 2 \/ call.data[1] # 22 \/ Len(payload) < 2 THEN Return("err")
         ELSE IF payload[1] # 1 THEN Return("ok")
         ELSE IF Len(hs) < 4 THEN Return("err")
         ELSE /\ local' = [local EXCEPT !.at = "sid", !.hs = hs, !.off = 1]
              /\ UNCHANGED <<call, out, status>>

(* Session id and compression methods: a length, and as much is skipped.   *)
Vector(at, next) ==
  /\ Running("tls") /\ local.at = at
  /\ IF local.off >= Length \/ local.off + 1 + U(local.off) > Length THEN Return("err")
     ELSE /\ local' = [local EXCEPT !.at = next, !.off = @ + 1 + U(@)]
          /\ UNCHANGED <<call, out, status>>

CipherSuites ==
  /\ Running("tls") /\ local.at = "suites"
  /\ IF local.off >= Length \/ local.off + 1 + U(local.off) > Length THEN Return("err")
     ELSE /\ out' = [out EXCEPT !.suites = Slice(local.hs, local.off + 1, U(local.off))]
          /\ local' = [local EXCEPT !.at = "compression", !.off = @ + 1 + U(@)]
          /\ UNCHANGED <<call, status>>

(* The extensions, if any: as many as are announced or there.              *)
ExtensionLength ==
  /\ Running("tls") /\ local.at = "extensions"
  /\ IF local.off >= Length THEN Return("ok")
     ELSE /\ local' = [local EXCEPT !.at = "loop", !.off = @ + 1,
                                    !.end = Shortest(local.off + 1 + U(local.off), Length)]
          /\ UNCHANGED <<call, out, status>>

(* parseU16List, parseU8List: a length, and at most as many values.        *)
ListIn(data) == IF data = <<>> THEN <<>> ELSE Slice(data, 1, data[1])

(* Mutant of NameIn: the name's length is not compared with the data.      *)
NameUnchecked(data) ==
  IF Len(data) < 3 \/ data[2] # 0 THEN <<>> ELSE Slice(data, 3, data[3])

(* parseSNI.                                                               *)
NameIn(data) ==
  IF Len(data) < 3 \/ data[2] # 0 \/ 3 + data[3] > Len(data) THEN <<>>
  ELSE Slice(data, 3, data[3])

(* parseALPN: names with their lengths, up to one that is cut off.         *)
ProtocolsIn(data) ==
  LET list == ListIn(data)
      from[i \in 1..Len(list) + 1] ==
        IF i > Len(list) \/ i + list[i] > Len(list) THEN <<>>
        ELSE <<Slice(list, i, list[i])>> \o from[i + 1 + list[i]]
  IN  from[1]

(* One turn of the loop over the extensions.                               *)
Extension ==
  /\ Running("tls") /\ local.at = "loop"
  /\ IF local.off + 2 > local.end THEN Return("ok")
     ELSE IF local.off + 1 >= Length THEN Panic
     ELSE LET type == U(local.off)
              data == Slice(local.hs, local.off + 2, U(local.off + 1))
              o    == [out EXCEPT !.types = Append(@, type)]
          IN  /\ out' = CASE type = ServerName -> [o EXCEPT !.name = NameIn(data)]
                          [] type = Alpn       -> [o EXCEPT !.alpn = ProtocolsIn(data)]
                          [] type = GroupsExt  -> [o EXCEPT !.groups = ListIn(data)]
                          [] type = PointsExt  -> [o EXCEPT !.points = ListIn(data)]
                          [] OTHER             -> o
              /\ local' = [local EXCEPT !.off = @ + 2 + U(@ + 1)]
              /\ UNCHANGED <<call, status>>

HelloNext ==
  \/ Record \/ Vector("sid", "suites") \/ CipherSuites \/ Vector("compression", "extensions")
  \/ ExtensionLength \/ Extension

(* filterGREASE: the values that are not GREASE, in order.                 *)
FilterGREASE(s) ==
  LET kept[i \in 0..Len(s)] ==
        IF i = 0 THEN <<>>
        ELSE IF IsGREASE(s[i]) THEN kept[i - 1] ELSE Append(kept[i - 1], s[i])
  IN  kept[Len(s)]

(* buildJA3, before it is joined and hashed.                               *)
JA3(o) == <<FilterGREASE(o.suites), FilterGREASE(o.types), FilterGREASE(o.groups), o.points>>

-----------------------------------------------------------------------------
Has(type) == type \in Range(call.types)

(* What a whole hello without GREASE gives.                                *)
Expected ==
  [suites |-> Suites, types |-> call.types,
   name   |-> IF Has(ServerName) THEN HostName ELSE <<>>,
   alpn   |-> IF Has(Alpn) THEN Protocols ELSE <<>>,
   groups |-> IF Has(GroupsExt) THEN Groups ELSE <<>>,
   points |-> IF Has(PointsExt) THEN <<0>> ELSE <<>>]

(* tls/parser.go:294: the fingerprint of a client does not depend on the   *)
(* GREASE values it draws, nor the server name on the extensions around    *)
(* it.  A hello cut off ("work with what we have", line 54) is refused if  *)
(* and only if it ends before the extensions; otherwise its lists are      *)
(* prefixes of the client's, and the server name is the client's or        *)
(* missing, never a part of it.                                            *)
HelloAsSent ==
  call.parser = "tls" /\ call.hello /\ status # "run" =>
    /\ status = "err" <=> call.units < Mandatory(call.sid, call.grease)
    /\ status = "ok" =>
         /\ \A i \in 1..4 : IsPrefix(JA3(out)[i], JA3(Expected)[i])
         /\ out.name \in {<<>>, Expected.name} /\ IsPrefix(out.alpn, Expected.alpn)
         /\ call.units = Len(Hello(call.sid, call.types, call.grease)) =>
              JA3(out) = JA3(Expected) /\ out.name = Expected.name /\ out.alpn = Expected.alpn
=============================================================================
