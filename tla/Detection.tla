----------------------------- MODULE Detection ------------------------------
(***************************************************************************)
(* What protocol detection is made of: the Ports and the Probe of each     *)
(* parser, and how a registry of parsers chooses among them                *)
(* (internal/protocol/registry.go and the fifteen parsers).                *)
(*                                                                         *)
(* A payload is one of the classes the Probes tell apart, named for a      *)
(* typical member; its scores are what the Probes compute on that member.  *)
(* Probe also depends on the direction, so a score is given for each value *)
(* of isFromClient.                                                        *)
(***************************************************************************)
EXTENDS Naturals, Sequences, SequencesExt

CONSTANT NoParser   \* nil

Names == {"http", "dns", "tls", "mysql", "postgres", "redis", "mongodb", "smtp",
          "ftp", "imap", "pop3", "mqtt", "websocket", "ssh", "unknown"}

ASSUME NoParserAssumption == NoParser \notin Names

Text == {"get",          \* GET /, POST /, ...
         "upgrade",      \* GET / with Upgrade: websocket
         "response",     \* HTTP/1.1 200
         "switching",    \* HTTP/1.1 101 with Upgrade: websocket
         "greeting220",  \* 220 ready
         "reply250",     \* 250 ok, any other three-digit reply
         "ehlo",         \* EHLO, MAIL FROM:
         "user",         \* USER, PASS, RETR: commands of FTP and of POP3
         "list",         \* LIST, STOR
         "status",       \* +OK or -ERR line
         "imapOK",       \* * OK
         "untagged",     \* * 3 EXISTS
         "tagged",       \* a1 LOGIN
         "resp",         \* *1, $4, PING
         "sshVersion",   \* SSH-2.0-
         "text"}         \* any other line of letters

Binary == {"hello",          \* TLS handshake record, 6 bytes or more
           "shortHello",     \* the first 3 to 5 bytes of one
           "dnsMessage",     \* header with 1 to 10 questions
           "mysqlQuery",     \* COM_QUERY of fewer than 16 bytes
           "mysqlGreeting",  \* 4a 00 00 00 0a
           "pgStartup",      \* version 3.0 at byte 4
           "pgMessage",      \* Q, length, text
           "opMsg", "opQuery",
           "mqttConnect",    \* 10 0c 00 04 MQTT
           "wsFrame",        \* 81 05: FIN, text frame
           "noise"}          \* ff ff ff ff

Samples == Text \cup Binary \cup {"empty", "oneByte"}

-----------------------------------------------------------------------------
(* The parsers.  probe[fromClient][sample] is the confidence.              *)

(* score(fromClient, sample) as a table.                                   *)
Table(score(_, _)) == [fromClient \in BOOLEAN |-> [s \in Samples |-> score(fromClient, s)]]

HttpParser ==
  [ports |-> {80, 8080, 8000, 8888, 3000},
   probe |-> Table(LAMBDA c, s :
     IF s \in {"get", "upgrade", "response", "switching"} THEN 90 ELSE 0)]

DnsParser ==
  [ports |-> {53, 5353},
   probe |-> Table(LAMBDA c, s : IF s \in {"dnsMessage", "pgStartup"} THEN 80 ELSE 0)]

TlsParser ==
  [ports |-> {443, 8443, 993, 995, 465, 636},
   probe |-> Table(LAMBDA c, s : CASE s = "hello" -> 85 [] s = "shortHello" -> 60 [] OTHER -> 0)]

MysqlParser ==
  [ports |-> {3306, 33060},
   probe |-> Table(LAMBDA c, s :
     CASE s = "mysqlGreeting" /\ ~c -> 90 [] s = "mysqlQuery" -> 70 [] OTHER -> 0)]

PostgresParser ==
  [ports |-> {5432},
   probe |-> Table(LAMBDA c, s :
     CASE s = "pgStartup" /\ c -> 90 [] s = "pgMessage" -> 80 [] OTHER -> 0)]

RedisParser ==
  [ports |-> {6379, 6380},
   probe |-> Table(LAMBDA c, s :
     IF s \in {"status", "imapOK", "untagged", "resp"} THEN 85 ELSE 0)]

MongodbParser ==
  [ports |-> {27017, 27018, 27019},
   probe |-> Table(LAMBDA c, s : CASE s = "opMsg" -> 90 [] s = "opQuery" -> 75 [] OTHER -> 0)]

SmtpParser ==
  [ports |-> {25, 587},
   probe |-> Table(LAMBDA c, s :
     CASE s \in {"greeting220", "ehlo"} -> 90 [] s = "reply250" -> 60 [] OTHER -> 0)]

FtpParser ==
  [ports |-> {21},
   probe |-> Table(LAMBDA c, s : IF s \in {"greeting220", "user", "list"} THEN 90 ELSE 0)]

ImapParser ==
  [ports |-> {143, 993},
   probe |-> Table(LAMBDA c, s :
     CASE s = "imapOK" -> 90 [] s = "tagged" -> 80 [] s = "untagged" -> 60 [] OTHER -> 0)]

Pop3Parser ==
  [ports |-> {110, 995},
   probe |-> Table(LAMBDA c, s : IF s \in {"status", "user"} THEN 90 ELSE 0)]

(* A first byte 10..ef and a valid remaining length: letters qualify, and  *)
(* 16 03 of a TLS record reads as a CONNECT.                               *)
MqttParser ==
  [ports |-> {1883, 8883},
   probe |-> Table(LAMBDA c, s :
     CASE s \in {"mqttConnect", "hello", "shortHello"} /\ c -> 95
       [] s \in {"empty", "oneByte", "noise", "dnsMessage", "mysqlQuery", "pgStartup"} -> 0
       [] OTHER -> 70)]

WebsocketParser ==
  [ports |-> {80, 443, 8080},
   probe |-> Table(LAMBDA c, s :
     CASE (s = "upgrade" /\ c) \/ (s = "switching" /\ ~c) -> 95
       [] s = "wsFrame" -> 40
       [] OTHER -> 0)]

SshParser ==
  [ports |-> {22}, probe |-> Table(LAMBDA c, s : IF s = "sshVersion" THEN 95 ELSE 0)]

UnknownParser ==
  [ports |-> {}, probe |-> Table(LAMBDA c, s : IF s = "empty" THEN 0 ELSE 1)]

Parser ==
  [http |-> HttpParser, dns |-> DnsParser, tls |-> TlsParser, mysql |-> MysqlParser,
   postgres |-> PostgresParser, redis |-> RedisParser, mongodb |-> MongodbParser,
   smtp |-> SmtpParser, ftp |-> FtpParser, imap |-> ImapParser, pop3 |-> Pop3Parser,
   mqtt |-> MqttParser, websocket |-> WebsocketParser, ssh |-> SshParser,
   unknown |-> UnknownParser]

Ports(p)       == Parser[p].ports
Probe(p, s, c) == Parser[p].probe[c][s]

(* The order of buildRegistry.                                             *)
BuildOrder == <<"http", "dns", "tls", "mysql", "postgres", "redis", "mongodb", "smtp",
                "ftp", "imap", "pop3", "mqtt", "websocket", "ssh", "unknown">>

-----------------------------------------------------------------------------
(* Mutants of Better: the first parser with any confidence wins; a score   *)
(* of 1 does not count.                                                    *)
FirstScore(score, best) == score > 0 /\ best = 0
ScoreAbove1(score, best) == score > best /\ score > 1

Better(score, best) == score > best

(* The loop of bestProbe: the best parser and score after i parsers.       *)
BestOf(parsers, s, c) ==
  LET best[i \in 0..Len(parsers)] ==
        IF i = 0 THEN [parser |-> NoParser, score |-> 0]
        ELSE LET p == parsers[i] b == best[i - 1] IN
             IF Better(Probe(p, s, c), b.score) THEN [parser |-> p, score |-> Probe(p, s, c)]
             ELSE b
  IN  best

(* bestProbe: the first parser with the highest positive score, or nil.    *)
BestProbe(parsers, s, c) == BestOf(parsers, s, c)[Len(parsers)].parser

(* Registry.Resolve among the parsers ps, indexed by port as in index.     *)
Resolve(index, ps, srcPort, dstPort, s, c) ==
  LET among(candidates) == IF Len(candidates) = 1 THEN candidates[1]
                           ELSE BestProbe(candidates, s, c)
  IN  CASE index[dstPort] # <<>> -> among(index[dstPort])
        [] index[dstPort] = <<>> /\ index[srcPort] # <<>> -> among(index[srcPort])
        [] OTHER -> BestProbe(ps, s, c)
=============================================================================
