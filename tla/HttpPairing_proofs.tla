-------------------------- MODULE HttpPairing_proofs -------------------------
(***************************************************************************)
(* The dispatcher and the parsers change nothing about what they read: the *)
(* composition implements Reassembly, so what is proved of the reassembler *)
(* holds of the chunks the HTTP parser numbers.  From it, that messages of *)
(* an undisturbed stream get the number of their exchange, and that no     *)
(* message of a plain chunk goes unreported, by an invariant on where the  *)
(* counters stand when a chunk begins a message.                           *)
(***************************************************************************)
EXTENDS HttpPairing, Reassembly_proofs, FiniteSetTheorems, Detection_proofs

(* Resolving a parser, parsing and OnConnClose take one message from the   *)
(* channel and leave the reassembler alone.                                *)
THEOREM PairingRefinesReassembly == Spec => RSpec
<1>1. Init => RInit
  BY DEF Init
<1>2. [Next]_vars => [RNext]_rvars
  BY DEF RNext, Next, HandleData, HandleClose, vars
<1> QED BY <1>1, <1>2, PTL DEF Spec, RSpec

(* So the chunks HandleData and HandleClose see are of the right size, in  *)
(* order and complete unless dropped, and a marker is the last of its      *)
(* stream when Forget drops the counters.                                  *)
THEOREM ChunksAsReassembled == Spec => [](RTypeOK /\ InOrder /\ NothingMissing /\ MarkerLast)
BY PairingRefinesReassembly, ReassemblyTypeCorrect, DirectionsInOrder, DirectionsComplete,
   MarkersLast, PTL
-----------------------------------------------------------------------------
(* The parsers of port 80.                                                 *)

LEMMA PortsOf ==
  \A q \in {9, 80} : \A p \in Names : q \in Ports(p) <=> q = 80 /\ p \in {"http", "websocket"}
<1> SUFFICES ASSUME NEW q \in {9, 80}, NEW p \in Names
             PROVE  q \in Ports(p) <=> q = 80 /\ p \in {"http", "websocket"}
  OBVIOUS
<1> USE DEF Ports, Parser, Table
<1>1. CASE p = "http"
  BY <1>1 DEF HttpParser
<1>2. CASE p = "dns"
  BY <1>2 DEF DnsParser
<1>3. CASE p = "tls"
  BY <1>3 DEF TlsParser
<1>4. CASE p = "mysql"
  BY <1>4 DEF MysqlParser
<1>5. CASE p = "postgres"
  BY <1>5 DEF PostgresParser
<1>6. CASE p = "redis"
  BY <1>6 DEF RedisParser
<1>7. CASE p = "mongodb"
  BY <1>7 DEF MongodbParser
<1>8. CASE p = "smtp"
  BY <1>8 DEF SmtpParser
<1>9. CASE p = "ftp"
  BY <1>9 DEF FtpParser
<1>10. CASE p = "imap"
  BY <1>10 DEF ImapParser
<1>11. CASE p = "pop3"
  BY <1>11 DEF Pop3Parser
<1>12. CASE p = "mqtt"
  BY <1>12 DEF MqttParser
<1>13. CASE p = "websocket"
  BY <1>13 DEF WebsocketParser
<1>14. CASE p = "ssh"
  BY <1>14 DEF SshParser
<1>15. CASE p = "unknown"
  BY <1>15 DEF UnknownParser
<1> HIDE DEF Ports, Parser, Table
<1> QED BY <1>1, <1>2, <1>3, <1>4, <1>5, <1>6, <1>7, <1>8, <1>9, <1>10, <1>11, <1>12, <1>13,
          <1>14, <1>15 DEF Names

LEMMA HttpScores ==
  /\ Probe("http", "get", TRUE) = 90 /\ Probe("websocket", "get", TRUE) = 0
  /\ Probe("http", "response", FALSE) = 90 /\ Probe("websocket", "response", FALSE) = 0
<1>1. "get" \in Samples /\ "response" \in Samples
  BY DEF Samples, Text
<1>2. \A s \in Samples, c \in BOOLEAN :
        Probe("http", s, c) = IF s \in {"get", "upgrade", "response", "switching"} THEN 90 ELSE 0
  BY DEF Probe, Parser, Table, HttpParser
<1>3. \A s \in Samples, c \in BOOLEAN :
        s \in {"get", "response"} => Probe("websocket", s, c) = 0
  BY DEF Probe, Parser, Table, WebsocketParser
<1> QED BY <1>1, <1>2, <1>3

LEMMA AppendTwo ==
  ASSUME NEW S, NEW a \in S, NEW b \in S
  PROVE  Append(<<a>>, b) = <<a, b>>
<1>1. <<a>> \in Seq(S) /\ <<a, b>> \in Seq(S) /\ Len(<<a>>) = 1 /\ Len(<<a, b>>) = 2
  OBVIOUS
<1>2. /\ Append(<<a>>, b) \in Seq(S) /\ Len(Append(<<a>>, b)) = 2
      /\ Append(<<a>>, b)[1] = a /\ Append(<<a>>, b)[2] = b
  BY <1>1, AppendProperties
<1>3. \A i \in 1..2 : Append(<<a>>, b)[i] = <<a, b>>[i]
  BY <1>2
<1> QED BY <1>1, <1>2, <1>3, SeqEqual

(* Register puts http and websocket, in this order, at port 80, and nobody *)
(* at the ephemeral port.                                                  *)
LEMMA PortIndexed == PortIndex[80] = <<"http", "websocket">> /\ PortIndex[9] = <<>>
<1> DEFINE N == Len(BuildOrder)
<1>1. N = 15
  BY DEF BuildOrder
<1>3. BuildOrder[1] = "http" /\ BuildOrder[13] = "websocket"
  BY DEF BuildOrder
<1>4. \A i \in 1..15 : BuildOrder[i] \in {"http", "websocket"} => i = 1 \/ i = 13
  BY DEF BuildOrder
<1>5. BuildOrder \in Seq(Names)
  BY DEF BuildOrder, Names
<1>6. \A i \in 1..N : BuildOrder[i] \in Names
  BY <1>5
<1> HIDE DEF N
<1>2. ASSUME NEW q \in {9, 80}
      PROVE  PortIndex[q] = IF q = 80 THEN <<"http", "websocket">> ELSE <<>>
  <2> DEFINE turn(i, l) == IF q \in Ports(BuildOrder[i]) THEN Append(l, BuildOrder[i]) ELSE l
             S == Seq(Names)
             G == [x \in (1..N) \X S |-> turn(x[1], x[2])]
             none == <<>>
             Eq(f) == f = [i \in 0..N |-> IF i = 0 THEN none ELSE turn(i, f[i - 1])]
  <2>0. PICK h : h = CHOOSE f : Eq(f)
    OBVIOUS
  <2>1. PortIndex[q] = h[N]
    BY <2>0 DEF PortIndex, N
  <2>2. G \in [(1..N) \X S -> S] /\ \A i \in 1..N, l \in S : G[<<i, l>>] = turn(i, l)
    BY <1>6
  <2>15. none \in S
    OBVIOUS
  <2> HIDE DEF G, turn, none
  <2>4. PICK f \in [0..N -> S] : Recurs(f, N, none, G)
    <3>1. N \in Nat
      BY <1>1
    <3> HIDE DEF S
    <3> QED BY <2>2, <2>15, <3>1, Recursion
  <2>5. ASSUME NEW i \in 1..N PROVE i - 1 \in 0..N /\ f[i - 1] \in S /\ f[i] = turn(i, f[i - 1])
    <3>1. i - 1 \in 0..N
      BY <1>1
    <3>2. f[i - 1] \in S
      BY <3>1
    <3>3. f[i] = G[<<i, f[i - 1]>>]
      BY <2>4 DEF Recurs
    <3> HIDE DEF S
    <3> QED BY <2>2, <3>1, <3>2, <3>3
  <2>6. Eq(f)
    <3>1. ASSUME NEW i \in 0..N PROVE f[i] = IF i = 0 THEN none ELSE turn(i, f[i - 1])
      <4>1. CASE i = 0
        BY <2>4, <4>1 DEF Recurs
      <4>2. CASE i # 0
        <5>1. i \in 1..N
          BY <1>1, <4>2
        <5> QED BY <2>5, <4>2, <5>1
      <4> QED BY <4>1, <4>2
    <3> QED BY <3>1
  <2>7. Eq(h)
    <3> HIDE DEF Eq
    <3> QED BY <2>0, <2>6
  <2>8. \A g : Eq(g) => /\ g[0] = none
                        /\ \A i \in 1..N : g[i] = turn(i, g[i - 1])
    BY <1>1
  <2> HIDE DEF Eq
  <2>9. h[0] = none /\ \A i \in 1..N : h[i] = turn(i, h[i - 1])
    BY <2>7, <2>8
  <2>10. \A i \in 1..15 : /\ q \notin Ports(BuildOrder[i]) => h[i] = h[i - 1]
                          /\ q \in Ports(BuildOrder[i]) => h[i] = Append(h[i - 1], BuildOrder[i])
    BY <1>1, <2>9, Zenon DEF turn
  <2>11. \A i \in 1..15 : q \in Ports(BuildOrder[i]) <=> q = 80 /\ (i = 1 \/ i = 13)
    <3> TAKE i \in 1..15
    <3>1. BuildOrder[i] \in Names
      BY <1>1, <1>6
    <3>2. q \in Ports(BuildOrder[i]) <=> q = 80 /\ BuildOrder[i] \in {"http", "websocket"}
      BY <3>1, PortsOf
    <3>3. BuildOrder[i] \in {"http", "websocket"} <=> i = 1 \/ i = 13
      BY <1>3, <1>4
    <3> QED BY <3>2, <3>3
  <2>12. CASE q = 80
    <3>1. \A i \in 1..15 : i # 1 /\ i # 13 => h[i] = h[i - 1]
      BY <2>10, <2>11, <2>12
    <3>2. h[1] = <<"http">>
      <4>1. h[1] = Append(none, "http")
        <5>1. 1 \in 1..15 /\ 1 - 1 = 0
          OBVIOUS
        <5>2. h[1] = Append(h[0], BuildOrder[1])
          BY <2>10, <2>11, <2>12, <5>1
        <5> QED BY <1>3, <2>9, <5>2
      <4> QED BY <4>1 DEF none
    <3>3. h[12] = h[1] /\ h[15] = h[13]
      BY <3>1
    <3>4. h[13] = Append(h[12], "websocket")
      BY <1>3, <2>10, <2>11, <2>12
    <3>5. h[15] = Append(<<"http">>, "websocket")
      BY <3>2, <3>3, <3>4
    <3>6. "http" \in Names /\ "websocket" \in Names
      BY DEF Names
    <3>7. h[15] = <<"http", "websocket">>
      BY <3>5, <3>6, AppendTwo
    <3> QED BY <1>1, <2>1, <2>12, <3>7
  <2>13. CASE q = 9
    <3>1. \A i \in 1..15 : h[i] = h[i - 1]
      BY <2>10, <2>11, <2>13
    <3>2. h[15] = h[0]
      BY <3>1
    <3> QED BY <1>1, <2>1, <2>9, <2>13, <3>2 DEF none
  <2> QED BY <2>12, <2>13
<1> QED BY <1>2

(* A plain request or response goes to the HTTP parser.                    *)
LEMMA PlainIsHttp ==
  ParserFor("client", "get") = "http" /\ ParserFor("server", "response") = "http"
<1> DEFINE ps == <<"http", "websocket">>
<1>1. ASSUME NEW s \in Samples, NEW c \in BOOLEAN,
             Probe("http", s, c) = 90, Probe("websocket", s, c) = 0
      PROVE  Resolve(PortIndex, BuildOrder, 9, 80, s, c) = "http"
  <2>1. /\ ps \in Seq(Names) /\ Len(ps) = 2 /\ ps[1] = "http" /\ ps[2] = "websocket"
        /\ 1 \in 1..2 /\ ps # <<>> /\ \A i \in 1..2 : i = 1 \/ i = 2
    BY DEF Names
  <2> HIDE DEF ps
  <2>2. PICK i \in 1..Len(ps) : BestProbe(ps, s, c) = ps[i] /\ FirstBest(ps, s, c, Len(ps), i)
    <3>1. ~\A j \in 1..Len(ps) : Probe(ps[j], s, c) = 0
      BY <1>1, <2>1
    <3> QED BY <2>1, <3>1, BestProbeFirst
  <2>3. i = 1
    BY <1>1, <2>1, <2>2 DEF FirstBest
  <2>4. PortIndex[80] = ps
    BY PortIndexed DEF ps
  <2> QED BY <2>1, <2>2, <2>3, <2>4 DEF Resolve
<1>2. "get" \in Samples /\ "response" \in Samples
  BY DEF Samples, Text
<1> QED BY <1>1, <1>2, HttpScores DEF ParserFor
-----------------------------------------------------------------------------
(* The messages of a direction.                                            *)

KindOf(d, m) == script[d][m].kind

LEMMA ScriptType ==
  ASSUME script \in Scripts, NEW d \in Dirs
  PROVE  /\ Len(script[d]) \in Nat
         /\ \A m \in 1..Len(script[d]) :
              /\ KindOf(d, m) \in Kinds[d] /\ script[d][m].size \in Nat /\ script[d][m].size >= 1
              /\ script[d][m].head \in Nat /\ script[d][m].head >= 1
              /\ script[d][m].head <= script[d][m].size
              /\ (\A j \in 1..m - 1 : KindOf(d, j) # "interim") => script[d][m].exchange = m
              /\ KindOf(d, m) = "frame" => \E j \in 1..m - 1 : KindOf(d, j) \in {"upgrade", "switching"}
              /\ KindOf(d, m) = "switching" =>
                   \A j \in m + 1..Len(script[d]) : KindOf(d, j) = "frame"
<1> DEFINE M == [kind : Kinds[d], head : Nat \ {0}, size : Nat \ {0}, exchange : Nat]
<1>1. script[d] \in Seq(M)
  BY ScriptsAssumption
<1>2. \A x \in M : /\ x.kind \in Kinds[d] /\ x.size \in Nat /\ x.size >= 1
                   /\ x.head \in Nat /\ x.head >= 1
  OBVIOUS
<1> HIDE DEF M
<1>3. Len(script[d]) \in Nat /\ \A m \in 1..Len(script[d]) : script[d][m] \in M
  BY <1>1
<1>4. \A m \in 1..Len(script[d]) :
        /\ script[d][m].head <= script[d][m].size
        /\ (\A j \in 1..m - 1 : KindOf(d, j) # "interim") => script[d][m].exchange = m
        /\ KindOf(d, m) = "frame" => \E j \in 1..m - 1 : KindOf(d, j) \in {"upgrade", "switching"}
        /\ KindOf(d, m) = "switching" =>
             \A j \in m + 1..Len(script[d]) : KindOf(d, j) = "frame"
  BY ScriptsAssumption DEF KindOf
<1> QED BY <1>2, <1>3, <1>4 DEF KindOf

(* HeadOf is what its recursion says.                                      *)
LEMMA HeadLoop ==
  ASSUME script \in Scripts, NEW d \in Dirs
  PROVE  /\ HeadOf(d, 1) = 1
         /\ \A m \in 1..Len(script[d]) : /\ HeadOf(d, m) \in Nat /\ HeadOf(d, m + 1) \in Nat
                                         /\ HeadOf(d, m + 1) = HeadOf(d, m) + script[d][m].size
<1> DEFINE N == Len(script[d])
           size(n) == script[d][n].size
           G == [x \in (1..N) \X Nat |-> x[2] + size(x[1])]
           Eq(f) == f = [n \in 0..N |-> IF n = 0 THEN 1 ELSE f[n - 1] + size(n)]
<1>1. N \in Nat /\ \A n \in 1..N : size(n) \in Nat
  BY ScriptType
<1>2. \A m : HeadOf(d, m) = (CHOOSE f : Eq(f))[m - 1]
  BY DEF HeadOf
<1> HIDE DEF N, size
<1>3. G \in [(1..N) \X Nat -> Nat] /\ \A n \in 1..N, x \in Nat : G[<<n, x>>] = x + size(n)
  BY <1>1
<1> HIDE DEF G
<1>4. PICK f \in [0..N -> Nat] : Recurs(f, N, 1, G)
  BY <1>1, <1>3, Recursion
<1>5. ASSUME NEW n \in 1..N PROVE n - 1 \in 0..N /\ f[n - 1] \in Nat /\ f[n] = f[n - 1] + size(n)
  <2>1. n - 1 \in 0..N
    BY <1>1
  <2>2. f[n - 1] \in Nat
    BY <2>1
  <2>3. f[n] = G[<<n, f[n - 1]>>]
    BY <1>4 DEF Recurs
  <2> QED BY <1>3, <2>1, <2>2, <2>3
<1>6. Eq(f)
  <2>1. ASSUME NEW n \in 0..N PROVE f[n] = IF n = 0 THEN 1 ELSE f[n - 1] + size(n)
    <3>1. CASE n = 0
      BY <1>4, <3>1 DEF Recurs
    <3>2. CASE n # 0
      <4>1. n \in 1..N
        BY <1>1, <3>2
      <4> QED BY <1>5, <3>2, <4>1
    <3> QED BY <3>1, <3>2
  <2> QED BY <2>1
<1>7. \A g : Eq(g) => /\ g[0] = 1
                      /\ \A n \in 1..N : g[n] = g[n - 1] + size(n)
  BY <1>1
<1>8. PICK h : h = CHOOSE g : Eq(g)
  OBVIOUS
<1>9. Eq(h)
  <2> HIDE DEF Eq
  <2> QED BY <1>6, <1>8
<1> HIDE DEF Eq
<1>10. h[0] = 1 /\ \A n \in 1..N : h[n] = h[n - 1] + size(n)
  BY <1>7, <1>9
<1>11. 0..N \subseteq {n \in 0..N : h[n] \in Nat}
  <2> DEFINE H == {n \in 0..N : h[n] \in Nat}
  <2>1. 0 \in H
    BY <1>1, <1>10
  <2>2. ASSUME NEW n \in 0..N, n + 1 <= N, n \in H PROVE n + 1 \in H
    <3>1. n + 1 \in 1..N /\ (n + 1) - 1 = n /\ n + 1 \in 0..N
      BY <1>1, <2>2
    <3>2. h[n + 1] = h[n] + size(n + 1)
      BY <1>10, <3>1
    <3> QED BY <1>1, <2>2, <3>1, <3>2
  <2> HIDE DEF H
  <2>3. 0..N \subseteq H
    BY <1>1, <2>1, <2>2, Induct
  <2> QED BY <2>3 DEF H
<1>12. HeadOf(d, 1) = 1
  BY <1>2, <1>8, <1>10
<1>13. ASSUME NEW m \in 1..N
       PROVE  /\ HeadOf(d, m) \in Nat /\ HeadOf(d, m + 1) \in Nat
              /\ HeadOf(d, m + 1) = HeadOf(d, m) + size(m)
  <2>1. m - 1 \in 0..N /\ (m + 1) - 1 = m /\ m \in 0..N
    BY <1>1
  <2>2. HeadOf(d, m) = h[m - 1] /\ HeadOf(d, m + 1) = h[m]
    BY <1>2, <1>8, <2>1
  <2> QED BY <1>10, <1>11, <2>1, <2>2
<1> QED BY <1>12, <1>13 DEF N, size

(* A later message starts later, at the end of the one before or behind.   *)
LEMMA HeadsAscend ==
  ASSUME script \in Scripts, NEW d \in Dirs,
         NEW m \in 1..Len(script[d]), NEW n \in 1..Len(script[d]) + 1, m < n
  PROVE  HeadOf(d, m) < HeadOf(d, n)
<1> DEFINE N == Len(script[d])
           H == {k \in 0..N : k >= m => HeadOf(d, m) < HeadOf(d, k + 1)}
<1>1. /\ N \in Nat
      /\ \A k \in 1..N : /\ HeadOf(d, k) \in Nat /\ HeadOf(d, k + 1) \in Nat
                         /\ HeadOf(d, k + 1) > HeadOf(d, k)
  <2>1. N \in Nat /\ \A k \in 1..N : script[d][k].size \in Nat /\ script[d][k].size >= 1
    BY ScriptType
  <2>2. ASSUME NEW k \in 1..N
        PROVE  /\ HeadOf(d, k) \in Nat /\ HeadOf(d, k + 1) \in Nat
               /\ HeadOf(d, k + 1) > HeadOf(d, k)
    <3>1. /\ HeadOf(d, k) \in Nat /\ HeadOf(d, k + 1) \in Nat
          /\ HeadOf(d, k + 1) = HeadOf(d, k) + script[d][k].size
      BY HeadLoop
    <3> QED BY <2>1, <3>1
  <2> QED BY <2>1, <2>2
<1> HIDE DEF N
<1>2. 0 \in H
  BY <1>1 DEF N
<1>3. ASSUME NEW k \in 0..N, k + 1 <= N, k \in H PROVE k + 1 \in H
  <2>1. k + 1 \in 1..N /\ k + 1 \in 0..N /\ m \in 1..N /\ m \in Int /\ k \in Int
    BY <1>1, <1>3 DEF N
  <2>2. HeadOf(d, k + 1) \in Nat /\ HeadOf(d, (k + 1) + 1) \in Nat /\ HeadOf(d, m) \in Nat
        /\ HeadOf(d, (k + 1) + 1) > HeadOf(d, k + 1)
    BY <1>1, <2>1
  <2>3. CASE k + 1 = m
    BY <2>1, <2>2, <2>3
  <2>4. CASE k >= m
    <3>1. HeadOf(d, m) < HeadOf(d, k + 1)
      BY <1>3, <2>4
    <3> QED BY <2>1, <2>2, <3>1
  <2>5. CASE k + 1 < m
    BY <2>1, <2>5
  <2> QED BY <2>1, <2>3, <2>4, <2>5
<1>4. 0..N \subseteq H
  <2> HIDE DEF H
  <2> QED BY <1>1, <1>2, <1>3, Induct
<1>5. n - 1 \in 0..N /\ n - 1 >= m /\ (n - 1) + 1 = n
  BY <1>1 DEF N
<1> QED BY <1>4, <1>5

LEMMA HeadsApart ==
  ASSUME script \in Scripts, NEW d \in Dirs, NEW m \in 1..Len(script[d]),
         NEW n \in 1..Len(script[d]), HeadOf(d, m) <= HeadOf(d, n)
  PROVE  m <= n
<1>1. Len(script[d]) \in Nat /\ HeadOf(d, m) \in Nat /\ HeadOf(d, n) \in Nat
  BY ScriptType, HeadLoop
<1>2. n < m => HeadOf(d, n) < HeadOf(d, m)
  BY <1>1, HeadsAscend
<1> QED BY <1>1, <1>2

(* A message's header is not empty and ends before the next message.       *)
LEMMA HeaderEnds ==
  ASSUME script \in Scripts, NEW d \in Dirs, NEW m \in 1..Len(script[d])
  PROVE  /\ HeadOf(d, m) \in Nat /\ HeadOf(d, m + 1) \in Nat
         /\ script[d][m].head \in Nat /\ script[d][m].head >= 1
         /\ HeadOf(d, m) + script[d][m].head <= HeadOf(d, m + 1)
<1>1. /\ HeadOf(d, m) \in Nat /\ HeadOf(d, m + 1) \in Nat
      /\ HeadOf(d, m + 1) = HeadOf(d, m) + script[d][m].size
  BY HeadLoop
<1>2. /\ script[d][m].head \in Nat /\ script[d][m].head >= 1 /\ script[d][m].size \in Nat
      /\ script[d][m].head <= script[d][m].size
  BY ScriptType
<1> QED BY <1>1, <1>2

(* What holds the header holds the head.                                   *)
LEMMA HeaderHead ==
  ASSUME script \in Scripts, NEW d \in Dirs, NEW m \in 1..Len(script[d]), NEW units,
         HeaderIn(d, m, units)
  PROVE  HeadOf(d, m) \in units
<1>1. HeadOf(d, m) \in Nat /\ script[d][m].head \in Nat /\ script[d][m].head >= 1
  BY HeaderEnds
<1>2. HeadOf(d, m) \in HeadOf(d, m)..HeadOf(d, m) + script[d][m].head - 1
  BY <1>1
<1> QED BY <1>2 DEF HeaderIn

LEMMA Starts ==
  ASSUME script \in Scripts, NEW d \in Dirs
  PROVE  /\ \A m \in 1..Len(script[d]) : StartsAt(d, HeadOf(d, m)) = m
         /\ \A n : \/ StartsAt(d, n) = 0
                   \/ StartsAt(d, n) \in 1..Len(script[d]) /\ HeadOf(d, StartsAt(d, n)) = n
<1>1. Len(script[d]) \in Nat
  BY ScriptType
<1>2. ASSUME NEW m \in 1..Len(script[d]) PROVE StartsAt(d, HeadOf(d, m)) = m
  <2>1. \A k \in 1..Len(script[d]) : HeadOf(d, k) = HeadOf(d, m) => k = m
    <3> SUFFICES ASSUME NEW k \in 1..Len(script[d]), HeadOf(d, k) = HeadOf(d, m) PROVE k = m
      OBVIOUS
    <3>1. HeadOf(d, m) \in Nat
      BY HeadLoop
    <3>2. k <= m /\ m <= k
      BY <3>1, HeadsApart
    <3> QED BY <1>1, <3>2
  <2>2. {k \in 1..Len(script[d]) : HeadOf(d, k) = HeadOf(d, m)} = {m}
    BY <2>1
  <2> QED BY <2>2 DEF StartsAt
<1>3. ASSUME NEW n
      PROVE  \/ StartsAt(d, n) = 0
             \/ StartsAt(d, n) \in 1..Len(script[d]) /\ HeadOf(d, StartsAt(d, n)) = n
  BY DEF StartsAt
<1> QED BY <1>2, <1>3

-----------------------------------------------------------------------------
(* Parse: the messages read from a chunk.                                  *)

(* r is the loop of Parse: where it is and what it has read after each     *)
(* message.                                                                *)
Reads(d, data, r) ==
  /\ r[0] = [next |-> data[1], msgs |-> {}]
  /\ \A m \in 1..Len(script[d]) :
       r[m] = IF /\ r[m - 1].next = HeadOf(d, m) /\ HeaderIn(d, m, Units(data))
                 /\ KindOf(d, m) # "frame"
              THEN [next |-> r[m - 1].next + SpanOf(d, m), msgs |-> r[m - 1].msgs \cup {m}]
              ELSE r[m - 1]

LEMMA SpanType ==
  ASSUME script \in Scripts, NEW d \in Dirs, NEW m \in 1..Len(script[d])
  PROVE  /\ SpanOf(d, m) \in Nat
         /\ KindOf(d, m) # "headResponse" => SpanOf(d, m) = script[d][m].size
<1>1. script[d][m].size \in Nat
  BY ScriptType
<1> QED BY <1>1 DEF SpanOf, KindOf

LEMMA ReadLoop ==
  ASSUME script \in Scripts, NEW d \in Dirs, NEW data, data[1] \in Nat
  PROVE  \E r \in [0..Len(script[d]) -> [next : Nat, msgs : SUBSET (1..Len(script[d]))]] :
           Reads(d, data, r) /\ Parsed(d, data) = r[Len(script[d])].msgs
<1> DEFINE N == Len(script[d])
           S == [next : Nat, msgs : SUBSET (1..N)]
           cond(m, x) == /\ x.next = HeadOf(d, m) /\ HeaderIn(d, m, Units(data))
                         /\ KindOf(d, m) # "frame"
           turn(m, x) == IF cond(m, x) THEN [next |-> x.next + SpanOf(d, m), msgs |-> x.msgs \cup {m}]
                         ELSE x
           G == [x \in (1..N) \X S |-> turn(x[1], x[2])]
           zero == [next |-> data[1], msgs |-> {}]
           Eq(f) == f = [m \in 0..N |-> IF m = 0 THEN zero ELSE turn(m, f[m - 1])]
<1>1. N \in Nat /\ zero \in S
  BY ScriptType
<1>2. ASSUME NEW m \in 1..N, NEW x \in S PROVE turn(m, x) \in S
  <2>1. SpanOf(d, m) \in Nat
    BY SpanType
  <2>2. x.next + SpanOf(d, m) \in Nat /\ x.msgs \cup {m} \in SUBSET (1..N)
    BY <2>1
  <2> QED BY <2>2
<1>3. G \in [(1..N) \X S -> S] /\ \A m \in 1..N, x \in S : G[<<m, x>>] = turn(m, x)
  <2> HIDE DEF turn, S
  <2> QED BY <1>2
<1>4. Parsed(d, data) = (CHOOSE f : Eq(f))[N].msgs
  BY DEF Parsed, KindOf
<1>5. \A f : f[0] = zero /\ (\A m \in 1..N : f[m] = turn(m, f[m - 1])) => Reads(d, data, f)
  BY DEF Reads
<1> HIDE DEF N, S, turn, G, zero
<1>6. PICK f \in [0..N -> S] : Recurs(f, N, zero, G)
  BY <1>1, <1>3, Recursion
<1>7. ASSUME NEW m \in 1..N PROVE m - 1 \in 0..N /\ f[m - 1] \in S /\ f[m] = turn(m, f[m - 1])
  <2>1. m - 1 \in 0..N
    BY <1>1
  <2>2. f[m - 1] \in S
    BY <2>1
  <2>3. f[m] = G[<<m, f[m - 1]>>]
    BY <1>6 DEF Recurs
  <2> QED BY <1>3, <2>1, <2>2, <2>3
<1>8. f[0] = zero
  BY <1>6 DEF Recurs
<1>9. Eq(f)
  <2>1. ASSUME NEW m \in 0..N PROVE f[m] = IF m = 0 THEN zero ELSE turn(m, f[m - 1])
    <3>1. CASE m = 0
      BY <1>8, <3>1
    <3>2. CASE m # 0
      <4>1. m \in 1..N
        BY <1>1, <3>2
      <4> QED BY <1>7, <3>2, <4>1
    <3> QED BY <3>1, <3>2
  <2> QED BY <2>1
<1>10. PICK h : h = CHOOSE g : Eq(g)
  OBVIOUS
<1>11. Eq(h)
  <2> HIDE DEF Eq
  <2> QED BY <1>9, <1>10
<1>12. \A g : Eq(g) => /\ g[0] = zero /\ DOMAIN g = 0..N /\ g = [m \in 0..N |-> g[m]]
                       /\ \A m \in 1..N : g[m] = turn(m, g[m - 1])
  BY <1>1, SMTT(40)
<1> HIDE DEF Eq
<1>13. /\ h[0] = zero /\ h = [m \in 0..N |-> h[m]]
       /\ \A m \in 1..N : h[m] = turn(m, h[m - 1])
  BY <1>11, <1>12
<1>14. 0..N \subseteq {m \in 0..N : h[m] \in S}
  <2> DEFINE H == {m \in 0..N : h[m] \in S}
  <2>1. 0 \in H
    BY <1>1, <1>13
  <2>2. ASSUME NEW m \in 0..N, m + 1 <= N, m \in H PROVE m + 1 \in H
    <3>1. m + 1 \in 1..N /\ (m + 1) - 1 = m /\ m + 1 \in 0..N
      BY <1>1, <2>2
    <3>2. h[m + 1] = turn(m + 1, h[m])
      BY <1>13, <3>1
    <3> QED BY <1>2, <2>2, <3>1, <3>2
  <2> HIDE DEF H
  <2>3. 0..N \subseteq H
    BY <1>1, <2>1, <2>2, Induct
  <2> QED BY <2>3 DEF H
<1>15. h \in [0..N -> S]
  BY <1>13, <1>14
<1>16. Reads(d, data, h) /\ Parsed(d, data) = h[N].msgs
  BY <1>4, <1>5, <1>10, <1>13
<1> QED BY <1>15, <1>16 DEF N, S

LEMMA ReadBounds ==
  ASSUME script \in Scripts, NEW d \in Dirs, NEW data,
         NEW r \in [0..Len(script[d]) -> [next : Nat, msgs : SUBSET (1..Len(script[d]))]],
         Reads(d, data, r)
  PROVE  \A k \in 0..Len(script[d]) : \A x \in r[k].msgs :
           /\ x \in 1..Len(script[d]) /\ x <= k
           /\ HeaderIn(d, x, Units(data)) /\ KindOf(d, x) # "frame"
<1> DEFINE N == Len(script[d])
           Read(x) == HeaderIn(d, x, Units(data)) /\ KindOf(d, x) # "frame"
           H == {k \in 0..N : \A x \in r[k].msgs : x \in 1..N /\ x <= k /\ Read(x)}
<1>1. /\ N \in Nat /\ r[0].msgs = {}
      /\ \A k \in 1..N : r[k].msgs = r[k - 1].msgs \/ (r[k].msgs = r[k - 1].msgs \cup {k} /\ Read(k))
  <2>1. N \in Nat
    BY ScriptType
  <2>2. r[0].msgs = {}
    BY DEF Reads
  <2>3. ASSUME NEW k \in 1..N
        PROVE  r[k].msgs = r[k - 1].msgs \/ (r[k].msgs = r[k - 1].msgs \cup {k} /\ Read(k))
    <3>1. CASE /\ r[k - 1].next = HeadOf(d, k) /\ HeaderIn(d, k, Units(data))
               /\ KindOf(d, k) # "frame"
      <4>0. r[k] = [next |-> r[k - 1].next + SpanOf(d, k), msgs |-> r[k - 1].msgs \cup {k}]
        BY <3>1 DEF Reads
      <4>1. r[k].msgs = r[k - 1].msgs \cup {k}
        BY <4>0
      <4> QED BY <3>1, <4>1
    <3>2. CASE ~(/\ r[k - 1].next = HeadOf(d, k) /\ HeaderIn(d, k, Units(data))
                 /\ KindOf(d, k) # "frame")
      BY <3>2 DEF Reads
    <3> QED BY <3>1, <3>2
  <2> QED BY <2>1, <2>2, <2>3
<1> HIDE DEF N, Read
<1>2. 0 \in H
  BY <1>1
<1>3. ASSUME NEW k \in 0..N, k + 1 <= N, k \in H PROVE k + 1 \in H
  <2>1. k \in Int /\ k + 1 \in 1..N /\ (k + 1) - 1 = k /\ k + 1 \in 0..N /\ \A x \in 1..N : x \in Int
    BY <1>1, <1>3
  <2>2. r[k + 1].msgs = r[k].msgs \/ (r[k + 1].msgs = r[k].msgs \cup {k + 1} /\ Read(k + 1))
    BY <1>1, <2>1
  <2>3. ASSUME NEW x \in r[k + 1].msgs PROVE x \in 1..N /\ x <= k + 1 /\ Read(x)
    <3>1. CASE x \in r[k].msgs
      BY <1>3, <2>1, <3>1
    <3>2. CASE x \notin r[k].msgs
      BY <2>1, <2>2, <3>2
    <3> QED BY <3>1, <3>2
  <2> QED BY <2>1, <2>3
<1>4. 0..N \subseteq H
  <2> HIDE DEF H
  <2> QED BY <1>1, <1>2, <1>3, Induct
<1> QED BY <1>4 DEF N, Read

(* What is read later does not change what was read.                       *)
LEMMA ReadStays ==
  ASSUME script \in Scripts, NEW d \in Dirs, NEW data,
         NEW r \in [0..Len(script[d]) -> [next : Nat, msgs : SUBSET (1..Len(script[d]))]],
         Reads(d, data, r), NEW j \in 0..Len(script[d])
  PROVE  {x \in r[Len(script[d])].msgs : x <= j} = r[j].msgs
<1> DEFINE N == Len(script[d])
           H == {k \in 0..N : k >= j => {x \in r[k].msgs : x <= j} = r[j].msgs}
<1>1. /\ N \in Nat /\ j \in Int /\ \A x \in r[j].msgs : x <= j
      /\ \A k \in 1..N : r[k].msgs = r[k - 1].msgs \/ r[k].msgs = r[k - 1].msgs \cup {k}
  <2>1. N \in Nat /\ \A x \in r[j].msgs : x <= j
    BY ScriptType, ReadBounds
  <2>2. ASSUME NEW k \in 1..N
        PROVE  r[k].msgs = r[k - 1].msgs \/ r[k].msgs = r[k - 1].msgs \cup {k}
    <3>1. \/ r[k] = r[k - 1]
          \/ r[k] = [next |-> r[k - 1].next + SpanOf(d, k), msgs |-> r[k - 1].msgs \cup {k}]
      BY DEF Reads
    <3> QED BY <3>1
  <2> QED BY <2>1, <2>2
<1> HIDE DEF N
<1>2. 0 \in H
  BY <1>1 DEF N
<1>3. ASSUME NEW k \in 0..N, k + 1 <= N, k \in H PROVE k + 1 \in H
  <2>1. k \in Int /\ k + 1 \in 1..N /\ (k + 1) - 1 = k /\ k + 1 \in 0..N
    BY <1>1, <1>3
  <2>2. r[k + 1].msgs = r[k].msgs \/ r[k + 1].msgs = r[k].msgs \cup {k + 1}
    BY <1>1, <2>1
  <2>3. CASE k + 1 = j
    <3>1. {x \in r[k + 1].msgs : x <= j} = r[j].msgs
      BY <1>1, <2>3
    <3> QED BY <2>1, <3>1
  <2>4. CASE k >= j
    <3>1. {x \in r[k].msgs : x <= j} = r[j].msgs /\ ~(k + 1 <= j)
      BY <1>1, <1>3, <2>1, <2>4
    <3>2. {x \in r[k + 1].msgs : x <= j} = r[j].msgs
      BY <2>2, <3>1
    <3> QED BY <2>1, <3>2
  <2>5. CASE k + 1 < j
    BY <1>1, <2>1, <2>5
  <2> QED BY <1>1, <2>1, <2>3, <2>4, <2>5
<1>4. 0..N \subseteq H
  <2> HIDE DEF H
  <2> QED BY <1>1, <1>2, <1>3, Induct
<1>5. N \in 0..N /\ N >= j
  BY <1>1 DEF N
<1> QED BY <1>4, <1>5 DEF N

(* The messages from first to last have their headers in data, are HTTP    *)
(* and have the length they announce.                                      *)
ReadyIn(d, data, first, last) ==
  \A x \in first..last : /\ HeaderIn(d, x, Units(data))
                         /\ KindOf(d, x) \notin {"frame", "headResponse"}

(* From the message the chunk starts with, as long as messages have their  *)
(* header in the chunk, are HTTP and have the length they announce.        *)
LEMMA ReadRun ==
  ASSUME script \in Scripts, NEW d \in Dirs, NEW data,
         NEW r \in [0..Len(script[d]) -> [next : Nat, msgs : SUBSET (1..Len(script[d]))]],
         Reads(d, data, r), NEW first \in 1..Len(script[d]), data[1] = HeadOf(d, first),
         NEW last \in 0..Len(script[d]), first <= last + 1,
         ReadyIn(d, data, first, last)
  PROVE  r[last].msgs = first..last
<1> DEFINE N == Len(script[d])
           H == {k \in 0..N : k <= last =>
                   /\ k < first => r[k].next = HeadOf(d, first) /\ r[k].msgs = {}
                   /\ k >= first => r[k].next = HeadOf(d, k + 1) /\ r[k].msgs = first..k}
<1>1. /\ N \in Nat /\ first \in 1..N /\ first \in Int /\ last \in Int
      /\ r[0].next = HeadOf(d, first) /\ r[0].msgs = {}
  BY ScriptType DEF Reads
<1>2. ASSUME NEW k \in 1..N,
             ~(/\ r[k - 1].next = HeadOf(d, k) /\ HeaderIn(d, k, Units(data))
               /\ KindOf(d, k) # "frame")
      PROVE  r[k] = r[k - 1]
  BY <1>2 DEF Reads
<1>3. ASSUME NEW k \in 1..N, r[k - 1].next = HeadOf(d, k), HeaderIn(d, k, Units(data)),
             KindOf(d, k) \notin {"frame", "headResponse"}
      PROVE  r[k].next = HeadOf(d, k + 1) /\ r[k].msgs = r[k - 1].msgs \cup {k}
  <2>1. r[k] = [next |-> r[k - 1].next + SpanOf(d, k), msgs |-> r[k - 1].msgs \cup {k}]
    BY <1>3 DEF Reads
  <2>2. SpanOf(d, k) = script[d][k].size /\ HeadOf(d, k + 1) = HeadOf(d, k) + script[d][k].size
    BY <1>3, SpanType, HeadLoop
  <2> QED BY <1>3, <2>1, <2>2
<1>4. \A k \in 1..N : k < first => HeadOf(d, k) # HeadOf(d, first)
  <2> SUFFICES ASSUME NEW k \in 1..N, k < first PROVE HeadOf(d, k) # HeadOf(d, first)
    OBVIOUS
  <2>1. first \in 1..N + 1 /\ HeadOf(d, k) \in Nat /\ HeadOf(d, first) \in Nat
    BY <1>1, HeadLoop
  <2>2. HeadOf(d, k) < HeadOf(d, first)
    BY <2>1, HeadsAscend
  <2> QED BY <2>1, <2>2
<1>5. last <= N /\ last \in 0..N
  BY <1>1
<1> HIDE DEF N
<1>6. 0 \in H
  BY <1>1
<1>7. ASSUME NEW k \in 0..N, k + 1 <= N, k \in H, k + 1 <= last PROVE k + 1 \in H
  <2>1. k \in Int /\ k + 1 \in 1..N /\ (k + 1) - 1 = k /\ k + 1 \in 0..N /\ k <= last
    BY <1>1, <1>7
  <2>2. CASE k + 1 < first
    <3>1. k < first /\ r[k].next = HeadOf(d, first) /\ r[k].msgs = {}
      BY <1>1, <1>7, <2>1, <2>2
    <3>2. r[k + 1] = r[k]
      BY <1>2, <1>4, <2>1, <2>2, <3>1
    <3>3. ~(k + 1 >= first)
      BY <1>1, <2>1, <2>2
    <3> QED BY <2>1, <2>2, <3>1, <3>2, <3>3
  <2>3. CASE k + 1 >= first
    <3>1. k + 1 \in first..last
      BY <1>1, <1>7, <2>1, <2>3
    <3>2. r[k].next = HeadOf(d, k + 1)
      <4>1. CASE k < first
        <5>1. k + 1 = first
          BY <1>1, <2>1, <2>3, <4>1
        <5> QED BY <1>7, <2>1, <4>1, <5>1
      <4>2. CASE k >= first
        BY <1>7, <2>1, <4>2
      <4> QED BY <1>1, <2>1, <4>1, <4>2
    <3>3. r[k].msgs \cup {k + 1} = first..k + 1
      <4>1. CASE k < first
        <5>1. k + 1 = first /\ r[k].msgs = {}
          BY <1>1, <1>7, <2>1, <2>3, <4>1
        <5>2. first..first = {first}
          BY <1>1
        <5> QED BY <5>1, <5>2
      <4>2. CASE k >= first
        <5>1. r[k].msgs = first..k
          BY <1>7, <2>1, <4>2
        <5>2. first..k \cup {k + 1} = first..k + 1
          BY <1>1, <2>1, <4>2, SMTT(40)
        <5> QED BY <5>1, <5>2
      <4> QED BY <1>1, <2>1, <4>1, <4>2
    <3>4. r[k + 1].next = HeadOf(d, (k + 1) + 1) /\ r[k + 1].msgs = r[k].msgs \cup {k + 1}
      <4>1. HeaderIn(d, k + 1, Units(data)) /\ KindOf(d, k + 1) \notin {"frame", "headResponse"}
        BY <3>1 DEF ReadyIn
      <4> QED BY <1>3, <2>1, <3>2, <4>1
    <3>5. ~(k + 1 < first)
      BY <1>1, <2>1, <2>3
    <3> QED BY <2>1, <3>3, <3>4, <3>5
  <2> QED BY <1>1, <2>1, <2>2, <2>3
<1>8. ASSUME NEW k \in 0..N, k + 1 <= N, k \in H, ~(k + 1 <= last) PROVE k + 1 \in H
  <2>1. k + 1 \in 0..N
    BY <1>1, <1>8
  <2> QED BY <1>8, <2>1
<1>9. 0..N \subseteq H
  <2> HIDE DEF H
  <2> QED BY <1>1, <1>6, <1>7, <1>8, Induct
<1>10. /\ last < first => r[last].msgs = {}
       /\ last >= first => r[last].msgs = first..last
  BY <1>1, <1>5, <1>9
<1>11. last < first => first..last = {}
  BY <1>1
<1>12. CASE last < first
  BY <1>10, <1>11, <1>12
<1>13. CASE last >= first
  BY <1>10, <1>13
<1> QED BY <1>1, <1>12, <1>13

LEMMA RunUnits ==
  ASSUME NEW data \in Seq(1..MaxUnits), data # << >>, Follows(data[1] - 1, data)
  PROVE  /\ data[1] \in Nat /\ data[1] >= 1 /\ Len(data) \in Nat /\ Len(data) >= 1
         /\ \A n \in Int : n \in Units(data) <=> data[1] <= n /\ n < data[1] + Len(data)
<1>1. Len(data) \in Nat /\ Len(data) >= 1
  OBVIOUS
<1>2. 1 \in 1..Len(data)
  BY <1>1
<1>3. data[1] \in Nat /\ data[1] >= 1
  <2>1. data[1] \in 1..MaxUnits
    BY <1>2, ElementOfSeq
  <2> QED BY <2>1
<1>4. ASSUME NEW n \in Int PROVE n \in Units(data) <=> data[1] <= n /\ n < data[1] + Len(data)
  <2>1. ASSUME n \in Units(data) PROVE data[1] <= n /\ n < data[1] + Len(data)
    <3>1. PICK x \in 1..Len(data) : n = data[x]
      BY <2>1 DEF Units
    <3>2. n = (data[1] - 1) + x
      BY <3>1 DEF Follows
    <3> QED BY <1>1, <1>3, <3>2
  <2>2. ASSUME data[1] <= n, n < data[1] + Len(data) PROVE n \in Units(data)
    <3>1. n - data[1] + 1 \in 1..Len(data) /\ (data[1] - 1) + (n - data[1] + 1) = n
      BY <1>1, <1>3, <2>2
    <3>2. data[n - data[1] + 1] = n
      BY <3>1 DEF Follows
    <3> QED BY <3>1, <3>2 DEF Units
  <2> QED BY <2>1, <2>2
<1> QED BY <1>1, <1>3, <1>4

(* Where the header of a message lies that is whole in a chunk.            *)
LEMMA HeaderUnits ==
  ASSUME script \in Scripts, NEW d \in Dirs,
         NEW data \in Seq(1..MaxUnits), data # << >>, Follows(data[1] - 1, data),
         NEW m \in 1..Len(script[d])
  PROVE  HeaderIn(d, m, Units(data)) <=>
           data[1] <= HeadOf(d, m) /\ HeadOf(d, m) + script[d][m].head <= data[1] + Len(data)
<1>0. /\ data[1] \in Nat /\ Len(data) \in Nat /\ HeadOf(d, m) \in Nat
      /\ script[d][m].head \in Nat \ {0}
  <2>1. data[1] \in Nat /\ Len(data) \in Nat
    BY RunUnits
  <2>2. HeadOf(d, m) \in Nat /\ script[d][m].head \in Nat /\ script[d][m].head >= 1
    BY HeaderEnds
  <2> QED BY <2>1, <2>2
<1>1. PICK first \in Nat, len \in Nat, start \in Nat, head \in Nat \ {0} :
        first = data[1] /\ len = Len(data) /\ start = HeadOf(d, m) /\ head = script[d][m].head
  BY <1>0
<1>2. \A n \in Int : n \in Units(data) <=> first <= n /\ n < first + len
  BY <1>1, RunUnits
<1>3. HeaderIn(d, m, Units(data)) <=> start..start + head - 1 \subseteq Units(data)
  BY <1>1 DEF HeaderIn
<1>4. ASSUME start..start + head - 1 \subseteq Units(data)
      PROVE  first <= start /\ start + head <= first + len
  <2>1. start \in start..start + head - 1 /\ start + head - 1 \in start..start + head - 1
    OBVIOUS
  <2>2. start \in Units(data) /\ start + head - 1 \in Units(data)
    BY <1>4, <2>1
  <2> QED BY <1>2, <2>2
<1>5. ASSUME first <= start, start + head <= first + len, NEW n \in start..start + head - 1
      PROVE  n \in Units(data)
  BY <1>2, <1>5
<1> QED BY <1>1, <1>3, <1>4, <1>5

(* Of a chunk that starts with a message and goes on to the head of        *)
(* message m, the header in front of it is whole.                          *)
LEMMA HeaderBefore ==
  ASSUME script \in Scripts, NEW d \in Dirs,
         NEW data \in Seq(1..MaxUnits), data # << >>, Follows(data[1] - 1, data),
         NEW first \in 1..Len(script[d]), HeadOf(d, first) = data[1],
         NEW m \in 1..Len(script[d]), first < m, HeadOf(d, m) <= data[1] + Len(data)
  PROVE  HeaderIn(d, m - 1, Units(data))
<1>1. Len(script[d]) \in Nat
  BY ScriptType
<1>2. m - 1 \in 1..Len(script[d]) /\ m - 1 \in 1..Len(script[d]) + 1 /\ (m - 1) + 1 = m
  BY <1>1
<1>3. PICK x \in 1..Len(script[d]) : x = m - 1
  BY <1>2
<1>4. /\ HeadOf(d, x) \in Nat /\ HeadOf(d, m) \in Nat /\ script[d][x].head \in Nat
      /\ HeadOf(d, x) + script[d][x].head <= HeadOf(d, m)
  BY <1>2, <1>3, HeaderEnds
<1>5. data[1] <= HeadOf(d, x)
  <2>1. first = x \/ first < x
    BY <1>1, <1>3
  <2>2. x \in 1..Len(script[d]) + 1
    BY <1>2, <1>3
  <2>3. first < x => HeadOf(d, first) < HeadOf(d, x)
    BY <2>2, HeadsAscend
  <2>4. HeadOf(d, first) \in Nat
    BY HeaderEnds
  <2> QED BY <1>4, <2>1, <2>3, <2>4
<1>6. data[1] \in Nat /\ Len(data) \in Nat
  BY RunUnits
<1>7. HeadOf(d, x) + script[d][x].head <= data[1] + Len(data)
  BY <1>4, <1>6
<1> QED BY <1>3, <1>5, <1>7, HeaderUnits

(* The messages up to last that Parse reads from a chunk which starts with *)
(* message first and has the header of last in it.                         *)
LEMMA ParsedRun ==
  ASSUME script \in Scripts, NEW d \in Dirs,
         NEW data \in Seq(1..MaxUnits), data # << >>, Follows(data[1] - 1, data),
         NEW first \in 1..Len(script[d]), data[1] = HeadOf(d, first),
         NEW last \in 0..Len(script[d]), first <= last + 1,
         last >= first => HeaderIn(d, last, Units(data)),
         \A x \in first..last : KindOf(d, x) \notin {"frame", "headResponse"}
  PROVE  {x \in Parsed(d, data) : x <= last} = first..last
<1>1. data[1] \in Nat /\ Len(data) \in Nat /\ Len(data) >= 1
  BY RunUnits
<1>2. PICK r \in [0..Len(script[d]) -> [next : Nat, msgs : SUBSET (1..Len(script[d]))]] :
        Reads(d, data, r) /\ Parsed(d, data) = r[Len(script[d])].msgs
  BY <1>1, ReadLoop
<1>3. ASSUME NEW x \in first..last PROVE HeaderIn(d, x, Units(data))
  <2>0. Len(script[d]) \in Nat
    BY ScriptType
  <2>1. /\ x \in 1..Len(script[d]) /\ last \in 1..Len(script[d]) /\ last >= first
        /\ first \in Int /\ x \in Int /\ last \in Int /\ first <= x /\ x <= last
        /\ last \in 1..Len(script[d]) + 1
    BY <2>0
  <2>2. HeaderIn(d, last, Units(data))
    BY <2>1
  <2>3. CASE x = last
    BY <2>2, <2>3
  <2>4. CASE x # last
    <3>1. x + 1 \in 1..Len(script[d]) /\ first < x + 1 /\ (x + 1) - 1 = x /\ x + 1 <= last
      BY <2>0, <2>1, <2>4
    <3>2. PICK y \in 1..Len(script[d]) : y = x + 1
      BY <3>1
    <3>3. /\ HeadOf(d, last) \in Nat /\ HeadOf(d, y) \in Nat /\ script[d][last].head \in Nat
          /\ HeadOf(d, last) + script[d][last].head <= data[1] + Len(data)
      BY <2>1, <2>2, HeaderEnds, HeaderUnits
    <3>4. HeadOf(d, y) <= HeadOf(d, last)
      <4>1. y = last \/ y < last
        BY <2>1, <3>1, <3>2
      <4>2. y < last => HeadOf(d, y) < HeadOf(d, last)
        BY <2>1, HeadsAscend
      <4> QED BY <3>3, <4>1, <4>2
    <3>5. HeadOf(d, y) <= data[1] + Len(data)
      BY <1>1, <3>3, <3>4
    <3>6. first < y /\ y - 1 = x
      BY <3>1, <3>2
    <3>7. HeaderIn(d, y - 1, Units(data))
      BY <3>5, <3>6, HeaderBefore
    <3> QED BY <3>6, <3>7
  <2> QED BY <2>3, <2>4
<1>4. r[last].msgs = first..last
  <2>1. ReadyIn(d, data, first, last)
    BY <1>3 DEF ReadyIn
  <2> QED BY <1>2, <2>1, ReadRun
<1>5. {x \in r[Len(script[d])].msgs : x <= last} = r[last].msgs
  BY <1>2, ReadStays
<1> QED BY <1>2, <1>4, <1>5

LEMMA ParsedBounds ==
  ASSUME script \in Scripts, NEW d \in Dirs,
         NEW data \in Seq(1..MaxUnits), data # << >>, Follows(data[1] - 1, data)
  PROVE  \A x \in Parsed(d, data) :
           /\ x \in 1..Len(script[d]) /\ KindOf(d, x) # "frame" /\ HeadOf(d, x) \in Nat
           /\ HeaderIn(d, x, Units(data))
           /\ data[1] <= HeadOf(d, x) /\ HeadOf(d, x) < data[1] + Len(data)
<1>1. data[1] \in Nat /\ Len(data) \in Nat
  BY RunUnits
<1>2. PICK r \in [0..Len(script[d]) -> [next : Nat, msgs : SUBSET (1..Len(script[d]))]] :
        Reads(d, data, r) /\ Parsed(d, data) = r[Len(script[d])].msgs
  BY <1>1, ReadLoop
<1>3. Len(script[d]) \in 0..Len(script[d])
  BY ScriptType
<1>4. ASSUME NEW x \in Parsed(d, data)
      PROVE  /\ x \in 1..Len(script[d]) /\ KindOf(d, x) # "frame" /\ HeadOf(d, x) \in Nat
             /\ HeaderIn(d, x, Units(data))
             /\ data[1] <= HeadOf(d, x) /\ HeadOf(d, x) < data[1] + Len(data)
  <2>1. x \in 1..Len(script[d]) /\ KindOf(d, x) # "frame" /\ HeaderIn(d, x, Units(data))
    <3>1. \A k \in 0..Len(script[d]) : \A y \in r[k].msgs :
            /\ y \in 1..Len(script[d]) /\ y <= k
            /\ HeaderIn(d, y, Units(data)) /\ KindOf(d, y) # "frame"
      BY <1>2, ReadBounds
    <3> QED BY <1>2, <1>3, <3>1, Zenon
  <2>2. HeadOf(d, x) \in Nat /\ script[d][x].head \in Nat /\ script[d][x].head >= 1
    BY <2>1, HeaderEnds
  <2>3. data[1] <= HeadOf(d, x) /\ HeadOf(d, x) + script[d][x].head <= data[1] + Len(data)
    BY <2>1, HeaderUnits
  <2> QED BY <1>1, <2>1, <2>2, <2>3
<1> QED BY <1>4

-----------------------------------------------------------------------------
(* Which parser a chunk goes to.                                           *)

Plain == [client |-> {"get", "head"}, server |-> {"response", "interim"}]

LEMMA KindSets ==
  /\ "client" \in Dirs /\ "server" \in Dirs /\ \A d \in Dirs : d = "client" \/ d = "server"
  /\ Kinds["client"] = {"get", "head", "trace", "upgrade", "frame"}
  /\ Kinds["server"] = {"response", "interim", "headResponse", "switching", "frame"}
  /\ Plain["client"] = {"get", "head"} /\ Plain["server"] = {"response", "interim"}
BY DEF Dirs, Kinds, Plain

(* In front of a message that is HTTP and not behind a skewing one.        *)
LEMMA PlainBefore ==
  ASSUME script \in Scripts, NEW d \in Dirs, NEW m \in 1..Len(script[d]),
         ~Skewed(d, m), KindOf(d, m) # "frame", NEW x \in 1..m - 1
  PROVE  KindOf(d, x) \in Plain[d] /\ KindOf(d, x) \notin {"frame", "headResponse", "upgrade", "interim"}
<1>1. /\ Len(script[d]) \in Nat /\ x \in 1..Len(script[d]) /\ m \in Int /\ x \in Int
      /\ \A j \in 1..x - 1 : j \in 1..m - 1 /\ j \in 1..Len(script[d]) /\ m \in j + 1..Len(script[d])
      /\ m \in x + 1..Len(script[d])
  <2>1. Len(script[d]) \in Nat
    BY ScriptType
  <2> QED BY <2>1
<1>2. \A j \in 1..m - 1 : KindOf(d, j) \notin {"upgrade", "trace", "interim", "headResponse"}
  BY DEF Skewed, Skewing, KindOf
<1>3. \A j \in 1..Len(script[d]) :
        /\ KindOf(d, j) \in Kinds[d]
        /\ KindOf(d, j) = "frame" => \E i \in 1..j - 1 : KindOf(d, i) \in {"upgrade", "switching"}
        /\ KindOf(d, j) = "switching" => \A i \in j + 1..Len(script[d]) : KindOf(d, i) = "frame"
  BY ScriptType
<1>4. KindOf(d, x) # "switching"
  BY <1>1, <1>3
<1>5. KindOf(d, x) # "frame"
  <2> SUFFICES ASSUME KindOf(d, x) = "frame" PROVE FALSE
    OBVIOUS
  <2>1. PICK j \in 1..x - 1 : KindOf(d, j) \in {"upgrade", "switching"}
    BY <1>1, <1>3
  <2>2. KindOf(d, j) = "switching" /\ j \in 1..Len(script[d]) /\ m \in j + 1..Len(script[d])
    BY <1>1, <1>2, <2>1
  <2> QED BY <1>3, <2>2
<1>6. /\ KindOf(d, x) \in Kinds[d]
      /\ KindOf(d, x) \notin {"upgrade", "trace", "interim", "headResponse"}
  BY <1>1, <1>2, <1>3
<1>7. KindOf(d, x) \in Plain[d]
  BY <1>4, <1>5, <1>6, KindSets
<1> QED BY <1>5, <1>6, <1>7

(* A chunk that starts with a plain message, and in which no upgrade       *)
(* starts, is parsed as HTTP.                                              *)
LEMMA PlainChunk ==
  ASSUME script \in Scripts, NEW d \in Dirs, NEW data, StartsAt(d, data[1]) # 0,
         KindOf(d, StartsAt(d, data[1])) \in Plain[d],
         \A n \in 1..Len(data) : StartsAt(d, data[n]) # 0 => KindOf(d, StartsAt(d, data[n])) # "upgrade",
         NEW sample \in SamplesOf(d, data)
  PROVE  ParserFor(d, sample) = "http"
<1> DEFINE m == StartsAt(d, data[1])
           kind == KindOf(d, m)
           window == {data[n] : n \in (1..Window) \cap (1..Len(data))}
           begun == {x \in 1..Len(script[d]) : KindOf(d, x) = "upgrade" /\ HeadOf(d, x) \in window}
           whole == {x \in begun : HeaderIn(d, x, window)}
           granted == IF HeaderIn(d, m, window) THEN {} ELSE {"response"}
<1>1. begun = {} /\ whole = {}
  <2> SUFFICES ASSUME NEW x \in begun PROVE FALSE
    OBVIOUS
  <2>1. PICK n \in 1..Len(data) : data[n] = HeadOf(d, x)
    OBVIOUS
  <2>2. x \in 1..Len(script[d]) /\ KindOf(d, x) = "upgrade"
    OBVIOUS
  <2>3. StartsAt(d, data[n]) = x /\ x # 0
    BY <2>1, <2>2, Starts
  <2> QED BY <2>2, <2>3
<1>2. sample \in (CASE m = 0 -> {"text", "wsFrame"}
                    [] m # 0 /\ kind = "frame" -> {"wsFrame"}
                    [] m # 0 /\ kind = "switching" -> {"switching"} \cup granted
                    [] m # 0 /\ kind \in {"get", "upgrade"} ->
                         (IF begun # {} THEN {"upgrade"} ELSE {}) \cup (IF whole = {} THEN {"get"} ELSE {})
                    [] m # 0 /\ kind = "head" -> {"get"}
                    [] m # 0 /\ kind = "trace" -> {"text"}
                    [] OTHER -> {"response"})
  BY DEF SamplesOf, KindOf
<1>3. m # 0 /\ kind \in Plain[d]
  OBVIOUS
<1> HIDE DEF m, kind, begun, whole, granted
<1>4. CASE d = "client"
  <2>1. kind \in {"get", "head"}
    BY <1>3, <1>4, KindSets
  <2>2. sample = "get"
    <3>1. CASE kind = "get"
      BY <1>1, <1>2, <1>3, <3>1
    <3>2. CASE kind = "head"
      BY <1>2, <1>3, <3>2
    <3> QED BY <2>1, <3>1, <3>2
  <2> QED BY <1>4, <2>2, PlainIsHttp
<1>5. CASE d = "server"
  <2>1. kind \in {"response", "interim"}
    BY <1>3, <1>5, KindSets
  <2>2. sample = "response"
    BY <1>2, <1>3, <2>1
  <2> QED BY <1>5, <2>2, PlainIsHttp
<1> QED BY <1>4, <1>5, KindSets

-----------------------------------------------------------------------------
(* The invariant of the numbering.                                         *)

(* Unit n of a direction has been received.                                *)
Gone(c, i, d, n) == \E k \in 1..Len(rcvd) : ChunkOf(rcvd[k], c, i, d) /\ n \in Units(rcvd[k].data)

(* The counters of c are those of its i-th stream: the marker of the one   *)
(* before has been received, and neither its own nor anything later.       *)
Current(c, i) ==
  /\ \A k \in 1..Len(rcvd) : rcvd[k].conn = c => rcvd[k].inc <= i /\ ~MarkerOf(rcvd[k], c, i)
  /\ i > 1 => \E k \in 1..Len(rcvd) : MarkerOf(rcvd[k], c, i - 1)

(* The next unit to be received is the first one of message m.             *)
Upcoming(c, i, d, m) ==
  /\ \A n \in 1..HeadOf(d, m) - 1 : Gone(c, i, d, n)
  /\ \A n \in Nat : Gone(c, i, d, n) => n < HeadOf(d, m)

(* If message m comes next, the counter stands at the messages before it.  *)
CountInv ==
  \A c \in Conns, i \in 1..MaxInc, d \in Dirs : \A m \in 1..Len(script[d]) :
    /\ ~Disturbed(c, i) /\ Current(c, i) /\ Upcoming(c, i, d, m)
    /\ ~Skewed(d, m) /\ KindOf(d, m) # "frame"
    => seq[c][d] = m - 1

EventInv ==
  \A e \in events :
    /\ e.dir \in Dirs /\ e.msg \in 1..Len(script[e.dir])
    /\ ~Disturbed(e.conn, e.inc) /\ ~Skewed(e.dir, e.msg) => e.seq = e.msg - 1

(* The chunk r has its events.                                             *)
Reported(r, es) ==
  /\ ~r.closed /\ StartsAt(r.dir, r.data[1]) # 0
  /\ \A m \in 1..Len(script[r.dir]) :
       KindOf(r.dir, m) \notin {"trace", "upgrade", "switching", "frame", "headResponse"}
  => \A m \in 1..Len(script[r.dir]) : HeaderIn(r.dir, m, Units(r.data)) =>
       \E e \in es : e.conn = r.conn /\ e.inc = r.inc /\ e.dir = r.dir /\ e.msg = m

EachReported == \A k \in 1..Len(rcvd) : Reported(rcvd[k], events)

(* The chunk r has the header that event e is about.                       *)
Source(r, e) == ChunkOf(r, e.conn, e.inc, e.dir) /\ HeaderIn(e.dir, e.msg, Units(r.data))

EachSourced == \A e \in events : \E k \in 1..Len(rcvd) : Source(rcvd[k], e)

(* The inductive invariant, on top of those of the reassembler.            *)
PairingInv ==
  /\ script \in Scripts /\ seq \in [Conns -> [Dirs -> Nat]]
  /\ CountInv /\ EventInv /\ EachReported /\ EachSourced

LEMMA ScriptStays ==
  ASSUME script' = script
  PROVE  /\ \A d, m : HeadOf(d, m)' = HeadOf(d, m)
         /\ \A d, n : StartsAt(d, n)' = StartsAt(d, n)
         /\ \A d, m : Skewed(d, m)' <=> Skewed(d, m)
         /\ \A d, m : KindOf(d, m)' = KindOf(d, m)
         /\ \A d, m, u : HeaderIn(d, m, u)' <=> HeaderIn(d, m, u)
<1>1. \A d, m : HeadOf(d, m)' = HeadOf(d, m)
  BY DEF HeadOf
<1>2. ASSUME NEW d, NEW n PROVE StartsAt(d, n)' = StartsAt(d, n)
  <2> DEFINE at == {m \in 1..Len(script[d]) : HeadOf(d, m) = n}
  <2>1. at' = at
    BY <1>1
  <2>2. StartsAt(d, n) = (IF at = {} THEN 0 ELSE CHOOSE m \in at : TRUE)
    BY DEF StartsAt
  <2>3. StartsAt(d, n)' = (IF at' = {} THEN 0 ELSE CHOOSE m \in at' : TRUE)
    BY DEF StartsAt
  <2> HIDE DEF at
  <2> QED BY <2>1, <2>2, <2>3
<1>3. \A d, m : Skewed(d, m)' <=> Skewed(d, m)
  BY DEF Skewed
<1>4. \A d, m : KindOf(d, m)' = KindOf(d, m)
  BY DEF KindOf
<1>5. \A d, m, u : HeaderIn(d, m, u)' <=> HeaderIn(d, m, u)
  BY <1>1 DEF HeaderIn
<1> QED BY <1>1, <1>2, <1>3, <1>4, <1>5

(* The next message of the channel among those emitted.                    *)
LEMMA NextPlace ==
  ASSUME RTypeOK, output # << >>
  PROVE  /\ Len(rcvd) \in Nat /\ Head(output) \in Messages
         /\ Len(rcvd) + 1 \in 1..Len(Emitted) /\ Emitted[Len(rcvd) + 1] = Head(output)
         /\ \A k \in 1..Len(rcvd) : k \in 1..Len(Emitted) /\ Emitted[k] = rcvd[k] /\ rcvd[k] \in Messages
<1>1. output \in Seq(Messages) /\ rcvd \in Seq(Messages)
  BY DEF RTypeOK
<1>2. /\ Len(output) \in Nat \ {0} /\ Len(rcvd) \in Nat /\ Head(output) = output[1]
      /\ Head(output) \in Messages /\ \A k \in 1..Len(rcvd) : rcvd[k] \in Messages
  BY <1>1
<1>3. /\ Len(Emitted) = Len(rcvd) + Len(output)
      /\ \A a \in 1..Len(rcvd) + Len(output) :
           Emitted[a] = IF a <= Len(rcvd) THEN rcvd[a] ELSE output[a - Len(rcvd)]
  BY <1>1, <1>2, ConcatProperties DEF Emitted
<1>4. /\ Len(rcvd) + 1 \in 1..Len(rcvd) + Len(output) /\ ~(Len(rcvd) + 1 <= Len(rcvd))
      /\ (Len(rcvd) + 1) - Len(rcvd) = 1
      /\ \A k \in 1..Len(rcvd) : k \in 1..Len(rcvd) + Len(output) /\ k <= Len(rcvd)
  BY <1>2
<1> QED BY <1>2, <1>3, <1>4

(* What the reassembler guarantees about the next chunk and those before.  *)
LEMMA ChunkComes ==
  ASSUME ReassemblyInv, TilingInv, output # << >>, NEW c, NEW i, NEW d, NEW data,
         ChunkOf(Head(output), c, i, d), data = Head(output).data
  PROVE  /\ c \in Conns /\ i \in 1..MaxInc /\ d \in Dirs /\ data \in Seq(1..MaxUnits)
         /\ data # << >> /\ Follows(data[1] - 1, data)
         /\ <<c, i, d>> \notin dropped => \A n \in 1..data[1] - 1 : Gone(c, i, d, n)
         /\ \A n \in Nat : Gone(c, i, d, n) => n < data[1]
         /\ \A k \in 1..Len(rcvd) : rcvd[k].conn = c => rcvd[k].inc <= i /\ ~MarkerOf(rcvd[k], c, i)
         /\ <<c, i - 1>> \notin unmarked => Current(c, i)
<1> DEFINE a == Len(rcvd) + 1
<1>1. /\ Len(rcvd) \in Nat /\ Head(output) \in Messages
      /\ a \in 1..Len(Emitted) /\ Emitted[a] = Head(output)
      /\ \A k \in 1..Len(rcvd) : k \in 1..Len(Emitted) /\ Emitted[k] = rcvd[k] /\ rcvd[k] \in Messages
  BY NextPlace DEF ReassemblyInv
<1>2. /\ Emitted[a].conn = c /\ Emitted[a].inc = i /\ Emitted[a].dir = d /\ ~Emitted[a].closed
      /\ Emitted[a].data = data
  BY <1>1 DEF ChunkOf
<1>3. c \in Conns /\ i \in 1..MaxInc /\ d \in Dirs /\ data \in Seq(1..MaxUnits) /\ MaxInc \in Nat
  BY <1>1, <1>2, ReassemblyAssumption DEF Messages
<1>4. /\ data # << >> /\ Follows(data[1] - 1, data)
      /\ <<c, i, d>> \notin dropped =>
           \A n \in 1..data[1] - 1 :
             \E b \in 1..a - 1 : ChunkOf(Emitted[b], c, i, d) /\ n \in Units(Emitted[b].data)
  BY <1>1, <1>2 DEF TilingInv, Tiled
<1>5. ASSUME <<c, i, d>> \notin dropped, NEW n \in 1..data[1] - 1 PROVE Gone(c, i, d, n)
  <2>1. PICK b \in 1..a - 1 : ChunkOf(Emitted[b], c, i, d) /\ n \in Units(Emitted[b].data)
    BY <1>4, <1>5
  <2>2. b \in 1..Len(rcvd) /\ Emitted[b] = rcvd[b]
    BY <1>1
  <2> QED BY <2>1, <2>2 DEF Gone
<1>6. ASSUME NEW n \in Nat, Gone(c, i, d, n) PROVE n < data[1]
  <2>1. PICK k \in 1..Len(rcvd) : ChunkOf(rcvd[k], c, i, d) /\ n \in Units(rcvd[k].data)
    BY <1>6 DEF Gone
  <2>2. k \in 1..Len(Emitted) /\ k < a /\ SameDirection(Emitted[k], Emitted[a])
        /\ Emitted[k].data = rcvd[k].data
    BY <1>1, <1>2, <2>1 DEF SameDirection, ChunkOf
  <2>3. Before(Emitted[k].data, data)
    BY <1>1, <1>2, <2>2 DEF ReassemblyInv, OrderInv
  <2>4. data[1] \in Units(data)
    <3>1. 1 \in 1..Len(data)
      BY <1>3, <1>4
    <3> QED BY <3>1 DEF Units
  <2> QED BY <2>1, <2>2, <2>3, <2>4 DEF Before
<1>7. ASSUME NEW k \in 1..Len(rcvd), rcvd[k].conn = c
      PROVE  rcvd[k].inc <= i /\ ~MarkerOf(rcvd[k], c, i)
  <2>1. k \in 1..Len(Emitted) /\ k < a /\ Emitted[k] = rcvd[k]
    BY <1>1
  <2>2. rcvd[k].inc <= i
    BY <1>1, <1>2, <1>7, <2>1 DEF TilingInv, Generations
  <2>3. ~MarkerOf(rcvd[k], c, i)
    BY <1>1, <1>2, <2>1 DEF ReassemblyInv, MarkerLast, MarkerOf
  <2> QED BY <2>2, <2>3
<1>8. ASSUME <<c, i - 1>> \notin unmarked, i > 1
      PROVE  \E k \in 1..Len(rcvd) : MarkerOf(rcvd[k], c, i - 1)
  <2>1. i <= inc[c] /\ inc[c] \in Nat
    <3>1. inc[c] \in Nat
      BY <1>3, ReassemblyAssumption DEF ReassemblyInv, RTypeOK
    <3>2. i <= inc[c]
      BY <1>1, <1>2 DEF ReassemblyInv, PastInv
    <3> QED BY <3>1, <3>2
  <2>2. i - 1 \in 1..inc[c] /\ i - 1 < inc[c]
    BY <1>3, <1>8, <2>1
  <2>3. PICK b \in 1..Len(Emitted) : MarkerOf(Emitted[b], c, i - 1)
    BY <1>3, <1>8, <2>2 DEF TilingInv, Marked
  <2>4. b # a
    BY <1>2, <2>3 DEF MarkerOf
  <2>5. ~(a < b)
    <3> SUFFICES ASSUME a < b PROVE FALSE
      OBVIOUS
    <3>1. i <= i - 1
      BY <1>1, <1>2, <2>3 DEF TilingInv, Generations, MarkerOf
    <3> QED BY <1>3, <3>1
  <2>6. b \in 1..Len(rcvd) /\ Emitted[b] = rcvd[b]
    BY <1>1, <2>4, <2>5
  <2> QED BY <2>3, <2>6
<1>9. <<c, i - 1>> \notin unmarked => Current(c, i)
  BY <1>7, <1>8 DEF Current
<1> QED BY <1>3, <1>4, <1>5, <1>6, <1>7, <1>9

(* Taking a message from the channel.                                      *)
LEMMA Receives ==
  ASSUME RTypeOK, Consume
  PROVE  /\ Len(rcvd) \in Nat /\ Len(rcvd') = Len(rcvd) + 1
         /\ \A k \in 1..Len(rcvd) : k \in 1..Len(rcvd') /\ rcvd'[k] = rcvd[k]
         /\ Len(rcvd) + 1 \in 1..Len(rcvd') /\ rcvd'[Len(rcvd) + 1] = Head(output)
         /\ \A k \in 1..Len(rcvd') : k = Len(rcvd) + 1 \/ k \in 1..Len(rcvd)
<1>1. rcvd \in Seq(Messages) /\ Head(output) \in Messages
  BY NextPlace DEF RTypeOK, Consume
<1>2. /\ Len(rcvd) \in Nat /\ Len(rcvd') = Len(rcvd) + 1
      /\ \A k \in 1..Len(rcvd) : rcvd'[k] = rcvd[k]
      /\ rcvd'[Len(rcvd) + 1] = Head(output)
  BY <1>1, AppendProperties DEF Consume
<1> QED BY <1>2

LEMMA GoneAfter ==
  ASSUME RTypeOK, Consume, NEW c, NEW i, NEW d, NEW n
  PROVE  Gone(c, i, d, n)' <=>
           Gone(c, i, d, n) \/ (ChunkOf(Head(output), c, i, d) /\ n \in Units(Head(output).data))
<1> DEFINE here(r) == ChunkOf(r, c, i, d) /\ n \in Units(r.data)
<1>1. Gone(c, i, d, n) <=> \E k \in 1..Len(rcvd) : here(rcvd[k])
  BY DEF Gone
<1>2. Gone(c, i, d, n)' <=> \E k \in 1..Len(rcvd') : here(rcvd'[k])
  BY DEF Gone, ChunkOf, Units
<1> HIDE DEF here
<1>3. Gone(c, i, d, n)' <=> Gone(c, i, d, n) \/ here(Head(output))
  BY <1>1, <1>2, Receives
<1> QED BY <1>3 DEF here

(* What Current and Upcoming say after the step, in terms of the messages. *)
LEMMA CurrentAfter ==
  ASSUME RTypeOK, Consume, NEW c, NEW i, Current(c, i)'
  PROVE  /\ \A k \in 1..Len(rcvd) : rcvd[k].conn = c => rcvd[k].inc <= i /\ ~MarkerOf(rcvd[k], c, i)
         /\ Head(output).conn = c => Head(output).inc <= i /\ ~MarkerOf(Head(output), c, i)
         /\ i > 1 => \/ \E k \in 1..Len(rcvd) : MarkerOf(rcvd[k], c, i - 1)
                     \/ MarkerOf(Head(output), c, i - 1)
<1>1. /\ \A k \in 1..Len(rcvd') : rcvd'[k].conn = c => rcvd'[k].inc <= i /\ ~MarkerOf(rcvd'[k], c, i)
      /\ i > 1 => \E k \in 1..Len(rcvd') : MarkerOf(rcvd'[k], c, i - 1)
  BY DEF Current, MarkerOf
<1> QED BY <1>1, Receives

LEMMA UpcomingAfter ==
  ASSUME script' = script, RTypeOK, Consume, NEW c, NEW i, NEW d, NEW m,
         ~ChunkOf(Head(output), c, i, d), Upcoming(c, i, d, m)'
  PROVE  Upcoming(c, i, d, m)
<1>1. HeadOf(d, m)' = HeadOf(d, m)
  BY ScriptStays
<1>2. \A n : Gone(c, i, d, n)' <=> Gone(c, i, d, n)
  BY GoneAfter
<1> QED BY <1>1, <1>2 DEF Upcoming

(* A connection the step is not about.                                     *)
LEMMA OtherConn ==
  ASSUME script' = script, RTypeOK, Consume, NEW c, NEW i, NEW d, NEW m,
         Head(output).conn # c, Current(c, i)', Upcoming(c, i, d, m)'
  PROVE  Current(c, i) /\ Upcoming(c, i, d, m)
<1>1. ~MarkerOf(Head(output), c, i - 1) /\ ~ChunkOf(Head(output), c, i, d)
  BY DEF MarkerOf, ChunkOf
<1>2. Current(c, i)
  BY <1>1, CurrentAfter DEF Current
<1> QED BY <1>1, <1>2, UpcomingAfter

LEMMA LessDisturbed ==
  ASSUME dropped \subseteq dropped', split \subseteq split', unmarked \subseteq unmarked',
         NEW c, NEW i, ~Disturbed(c, i)'
  PROVE  ~Disturbed(c, i)
BY DEF Disturbed

-----------------------------------------------------------------------------
(* A chunk is handled.                                                     *)

(* HandleData on a chunk of direction d of the i-th stream of c, of which  *)
(* the messages ms are read.                                               *)
Handled(c, i, d, data, ms) ==
  /\ Consume /\ ChunkOf(Head(output), c, i, d) /\ data = Head(output).data
  /\ \E sample \in SamplesOf(d, data) :
       ms = IF ParserFor(d, sample) = "http" THEN Parsed(d, data) ELSE {}
  /\ events' = events \cup Numbered(c, i, d, ms)
  /\ seq' = [seq EXCEPT ![c][d] = @ + Cardinality(ms)]
  /\ split' = IF StartsAt(d, data[1]) = 0 THEN split \cup {<<c, i, d>>} ELSE split
  /\ script' = script

LEMMA DataHandled ==
  ASSUME HandleData
  PROVE  \E c, i, d, data, ms : Handled(c, i, d, data, ms)
<1> DEFINE m == Head(output)
           read(s) == IF ParserFor(m.dir, s) = "http" THEN Parsed(m.dir, m.data) ELSE {}
<1>1. PICK s \in SamplesOf(m.dir, m.data) :
        /\ events' = events \cup Numbered(m.conn, m.inc, m.dir, read(s))
        /\ seq' = [seq EXCEPT ![m.conn][m.dir] = @ + Cardinality(read(s))]
        /\ split' = IF StartsAt(m.dir, m.data[1]) = 0
                    THEN split \cup {<<m.conn, m.inc, m.dir>>} ELSE split
  BY DEF HandleData
<1>2. Consume /\ ~m.closed /\ script' = script
  BY DEF HandleData
<1>3. Handled(m.conn, m.inc, m.dir, m.data, read(s))
  BY <1>1, <1>2 DEF Handled, ChunkOf
<1> QED BY <1>3

(* Where an undisturbed stream has come to when a chunk begins a message.  *)
LEMMA FirstCounted ==
  ASSUME ReassemblyInv, TilingInv, PairingInv, output # << >>, NEW c, NEW i, NEW d, NEW data,
         ChunkOf(Head(output), c, i, d), data = Head(output).data, ~Disturbed(c, i),
         NEW first \in 1..Len(script[d]), HeadOf(d, first) = data[1],
         NEW m \in 1..Len(script[d]), first <= m, ~Skewed(d, m), KindOf(d, m) # "frame"
  PROVE  seq[c][d] = first - 1
<1>1. /\ c \in Conns /\ i \in 1..MaxInc /\ d \in Dirs /\ script \in Scripts
      /\ <<c, i, d>> \notin dropped => \A n \in 1..data[1] - 1 : Gone(c, i, d, n)
      /\ \A n \in Nat : Gone(c, i, d, n) => n < data[1]
      /\ <<c, i - 1>> \notin unmarked => Current(c, i)
  BY ChunkComes DEF PairingInv
<1>2. Current(c, i) /\ Upcoming(c, i, d, first)
  BY <1>1 DEF Disturbed, Upcoming
<1>3. Len(script[d]) \in Nat
  BY <1>1, ScriptType
<1>4. ~Skewed(d, first)
  BY <1>3 DEF Skewed
<1>5. KindOf(d, first) # "frame"
  <2>1. CASE first = m
    BY <2>1
  <2>2. CASE first # m
    <3>1. first \in 1..m - 1
      BY <1>3, <2>2
    <3> QED BY <1>1, <3>1, PlainBefore
  <2> QED BY <2>1, <2>2
<1> QED BY <1>1, <1>2, <1>4, <1>5 DEF PairingInv, CountInv

(* The messages of a chunk in front of one that is not skewed.             *)
LEMMA CountRead ==
  ASSUME script \in Scripts, NEW d \in Dirs,
         NEW data \in Seq(1..MaxUnits), data # << >>, Follows(data[1] - 1, data),
         NEW first \in 1..Len(script[d]), HeadOf(d, first) = data[1],
         NEW m \in 1..Len(script[d]), first <= m, ~Skewed(d, m), KindOf(d, m) # "frame",
         first < m => HeaderIn(d, m - 1, Units(data))
  PROVE  /\ {x \in Parsed(d, data) : x < m} = first..m - 1
         /\ Cardinality(first..m - 1) = m - first
<1>1. Len(script[d]) \in Nat
  BY ScriptType
<1> DEFINE last == m - 1
<1>2. /\ last \in 0..Len(script[d]) /\ first <= last + 1 /\ last \in Int /\ first \in Int
      /\ (last >= first => first < m)
  BY <1>1
<1>3. \A x \in first..last : KindOf(d, x) \notin {"frame", "headResponse"}
  <2> TAKE x \in first..last
  <2>1. x \in 1..m - 1
    BY <1>1
  <2> QED BY <2>1, PlainBefore
<1>4. last >= first => HeaderIn(d, last, Units(data))
  BY <1>2
<1> HIDE DEF last
<1>5. {x \in Parsed(d, data) : x <= last} = first..last
  BY <1>2, <1>3, <1>4, ParsedRun
<1>6. \A x \in Parsed(d, data) : x \in 1..Len(script[d])
  BY ParsedBounds
<1>7. {x \in Parsed(d, data) : x < m} = {x \in Parsed(d, data) : x <= last}
  BY <1>1, <1>6 DEF last
<1>8. Cardinality(first..last) = IF first > last THEN 0 ELSE last - first + 1
  BY <1>2, FS_Interval
<1>9. Cardinality(first..last) = m - first
  BY <1>2, <1>8 DEF last
<1> QED BY <1>5, <1>7, <1>9 DEF last

(* The direction of a chunk whose end is the head of message m.            *)
LEMMA EndOfChunk ==
  ASSUME ReassemblyInv, TilingInv, PairingInv, NEW c, NEW i, NEW d, NEW data, NEW ms,
         Handled(c, i, d, data, ms), NEW m \in 1..Len(script[d]), Upcoming(c, i, d, m)'
  PROVE  HeadOf(d, m) = data[1] + Len(data)
<1>1. /\ output # << >> /\ ChunkOf(Head(output), c, i, d) /\ data = Head(output).data
      /\ script' = script /\ Consume /\ RTypeOK
  BY DEF Handled, Consume, ReassemblyInv
<1>2. /\ d \in Dirs /\ data \in Seq(1..MaxUnits) /\ data # << >> /\ Follows(data[1] - 1, data)
      /\ \A n \in Nat : Gone(c, i, d, n) => n < data[1]
  BY <1>1, ChunkComes
<1>3. /\ data[1] \in Nat /\ data[1] >= 1 /\ Len(data) \in Nat /\ Len(data) >= 1
      /\ \A n \in Int : n \in Units(data) <=> data[1] <= n /\ n < data[1] + Len(data)
  BY <1>2, RunUnits
<1>4. HeadOf(d, m) \in Nat /\ HeadOf(d, m)' = HeadOf(d, m)
  BY <1>1, <1>2, HeadLoop, ScriptStays DEF PairingInv
<1>5. \A n \in Nat : Gone(c, i, d, n)' <=> Gone(c, i, d, n) \/ n \in Units(data)
  BY <1>1, GoneAfter
<1>6. /\ \A n \in 1..HeadOf(d, m) - 1 : Gone(c, i, d, n)'
      /\ \A n \in Nat : Gone(c, i, d, n)' => n < HeadOf(d, m)
  BY <1>4 DEF Upcoming
<1> DEFINE end == data[1] + Len(data)
<1>7. end - 1 < HeadOf(d, m)
  <2>1. end - 1 \in Nat /\ end - 1 \in Units(data)
    BY <1>3
  <2> QED BY <1>5, <1>6, <2>1
<1>8. ~(end < HeadOf(d, m))
  <2> SUFFICES ASSUME end < HeadOf(d, m) PROVE FALSE
    OBVIOUS
  <2>1. end \in 1..HeadOf(d, m) - 1 /\ end \in Nat /\ end \in Int /\ end \notin Units(data)
    BY <1>3, <1>4
  <2>2. Gone(c, i, d, end)
    BY <1>5, <1>6, <2>1
  <2>3. end < data[1]
    BY <1>2, <2>1, <2>2
  <2> QED BY <1>3, <2>3
<1> QED BY <1>3, <1>4, <1>7, <1>8

(* All of a chunk up to message m, which is not skewed, is read.           *)
LEMMA ReadsToNext ==
  ASSUME script \in Scripts, NEW d \in Dirs,
         NEW data \in Seq(1..MaxUnits), data # << >>, Follows(data[1] - 1, data),
         StartsAt(d, data[1]) # 0, NEW m \in 1..Len(script[d]),
         HeadOf(d, m) = data[1] + Len(data), ~Skewed(d, m), KindOf(d, m) # "frame",
         NEW sample \in SamplesOf(d, data)
  PROVE  /\ StartsAt(d, data[1]) \in 1..m - 1 /\ ParserFor(d, sample) = "http"
         /\ Cardinality(Parsed(d, data)) = m - StartsAt(d, data[1])
<1> DEFINE first == StartsAt(d, data[1])
<1>1. first \in 1..Len(script[d]) /\ HeadOf(d, first) = data[1] /\ Len(script[d]) \in Nat
  BY Starts, ScriptType
<1>2. /\ data[1] \in Nat /\ data[1] >= 1 /\ Len(data) \in Nat /\ Len(data) >= 1
      /\ \A n \in Int : n \in Units(data) <=> data[1] <= n /\ n < data[1] + Len(data)
  BY RunUnits
<1>3. ASSUME NEW x \in 1..Len(script[d]), HeadOf(d, x) < data[1] + Len(data) PROVE x < m
  <2>1. HeadOf(d, x) \in Nat /\ HeadOf(d, m) \in Nat
    BY HeadLoop
  <2>2. HeadOf(d, x) <= HeadOf(d, m) /\ x # m
    BY <1>2, <1>3, <2>1
  <2>3. x <= m
    BY <2>2, HeadsApart
  <2> QED BY <1>1, <2>2, <2>3
<1>4. first < m
  BY <1>1, <1>2, <1>3
<1> HIDE DEF first
<1>5. HeaderIn(d, m - 1, Units(data))
  <2>1. HeadOf(d, m) <= data[1] + Len(data)
    BY <1>2
  <2> QED BY <1>1, <1>4, <2>1, HeaderBefore
<1>6. first <= m
  BY <1>1, <1>4
<1>7. /\ {x \in Parsed(d, data) : x < m} = first..m - 1
      /\ Cardinality(first..m - 1) = m - first
  BY <1>1, <1>5, <1>6, CountRead
<1>8. \A x \in Parsed(d, data) : x < m
  <2> TAKE x \in Parsed(d, data)
  <2>1. x \in 1..Len(script[d]) /\ HeadOf(d, x) < data[1] + Len(data)
    BY ParsedBounds
  <2> QED BY <1>3, <2>1
<1>9. Parsed(d, data) = first..m - 1
  BY <1>7, <1>8
<1>10. first \in 1..m - 1
  BY <1>1, <1>4
<1>11. KindOf(d, first) \in Plain[d]
  BY <1>10, PlainBefore
<1>12. ASSUME NEW n \in 1..Len(data), StartsAt(d, data[n]) # 0
       PROVE  KindOf(d, StartsAt(d, data[n])) # "upgrade"
  <2>1. PICK x : x = StartsAt(d, data[n])
    OBVIOUS
  <2>2. x \in 1..Len(script[d]) /\ HeadOf(d, x) = data[n]
    BY <1>12, <2>1, Starts
  <2>3. data[n] \in Units(data) /\ data[n] \in Int
    <3>1. data[n] \in Units(data)
      BY DEF Units
    <3>2. data[n] \in 1..MaxUnits
      BY ElementOfSeq
    <3> QED BY <3>1, <3>2
  <2>4. x < m
    BY <1>2, <1>3, <2>2, <2>3
  <2>5. x \in 1..m - 1
    BY <1>1, <2>2, <2>4
  <2>6. KindOf(d, x) # "upgrade"
    BY <2>5, PlainBefore
  <2> QED BY <2>1, <2>6
<1>13. ParserFor(d, sample) = "http"
  BY <1>11, <1>12, PlainChunk DEF first
<1> QED BY <1>7, <1>9, <1>10, <1>13 DEF first

LEMMA CountData ==
  ASSUME ReassemblyInv, TilingInv, PairingInv, NEW c, NEW i, NEW d, NEW data, NEW ms,
         Handled(c, i, d, data, ms), Cardinality(ms) \in Nat
  PROVE  CountInv'
<1>1. /\ output # << >> /\ ChunkOf(Head(output), c, i, d) /\ data = Head(output).data
      /\ script' = script /\ Consume /\ RTypeOK
  BY DEF Handled, Consume, ReassemblyInv
<1>2. /\ c \in Conns /\ i \in 1..MaxInc /\ d \in Dirs /\ script \in Scripts
      /\ data \in Seq(1..MaxUnits) /\ data # << >> /\ Follows(data[1] - 1, data)
      /\ \A k \in 1..Len(rcvd) : rcvd[k].conn = c => rcvd[k].inc <= i /\ ~MarkerOf(rcvd[k], c, i)
      /\ <<c, i - 1>> \notin unmarked => Current(c, i)
  BY <1>1, ChunkComes DEF PairingInv
<1>3. Head(output).conn = c /\ Head(output).inc = i /\ ~Head(output).closed
  BY <1>1 DEF ChunkOf
<1>4. dropped' = dropped /\ unmarked' = unmarked /\ split \subseteq split'
  BY DEF Handled, Consume
<1> SUFFICES ASSUME NEW c2 \in Conns, NEW i2 \in 1..MaxInc, NEW d2 \in Dirs,
                    NEW m \in 1..Len(script[d2]),
                    ~Disturbed(c2, i2)', Current(c2, i2)', Upcoming(c2, i2, d2, m)',
                    ~Skewed(d2, m), KindOf(d2, m) # "frame"
             PROVE  seq'[c2][d2] = m - 1
  BY <1>1, ScriptStays DEF CountInv
<1>5. ~Disturbed(c2, i2)
  BY <1>4, LessDisturbed
<1>6. ASSUME Current(c2, i2), Upcoming(c2, i2, d2, m) PROVE seq[c2][d2] = m - 1
  BY <1>5, <1>6 DEF PairingInv, CountInv
<1>7. /\ seq \in [Conns -> [Dirs -> Nat]] /\ seq' = [seq EXCEPT ![c][d] = @ + Cardinality(ms)]
  BY DEF PairingInv, Handled
<1>8. CASE c2 # c
  <2>1. seq[c2][d2] = m - 1
    BY <1>1, <1>3, <1>6, <1>8, OtherConn
  <2> QED BY <1>2, <1>7, <1>8, <2>1
<1>9. CASE c2 = c /\ i2 # i
  <2>1. /\ i <= i2
        /\ i2 > 1 => \/ \E k \in 1..Len(rcvd) : MarkerOf(rcvd[k], c, i2 - 1)
                     \/ MarkerOf(Head(output), c, i2 - 1)
    BY <1>1, <1>3, <1>9, CurrentAfter
  <2>2. i \in Nat /\ i2 \in Nat /\ i >= 1
    BY <1>2, ReassemblyAssumption
  <2>3. i2 > 1 /\ i2 - 1 >= i
    BY <1>9, <2>1, <2>2
  <2>4. PICK k \in 1..Len(rcvd) : MarkerOf(rcvd[k], c, i2 - 1)
    BY <1>3, <2>1, <2>3 DEF MarkerOf
  <2>5. i2 - 1 <= i /\ ~MarkerOf(rcvd[k], c, i)
    BY <1>2, <2>4 DEF MarkerOf
  <2>6. i2 - 1 = i
    BY <2>2, <2>3, <2>5
  <2> QED BY <2>4, <2>5, <2>6
<1>10. CASE c2 = c /\ i2 = i /\ d2 # d
  <2>1. Current(c, i)
    BY <1>2, <1>5, <1>10 DEF Disturbed
  <2>2. ~ChunkOf(Head(output), c2, i2, d2)
    BY <1>1, <1>10 DEF ChunkOf
  <2>3. seq[c2][d2] = m - 1
    BY <1>1, <1>6, <1>10, <2>1, <2>2, UpcomingAfter
  <2> QED BY <1>2, <1>7, <1>10, <2>3
<1>11. CASE c2 = c /\ i2 = i /\ d2 = d
  <2>1. HeadOf(d, m) = data[1] + Len(data)
    BY <1>11, EndOfChunk
  <2>2. <<c, i, d>> \notin split'
    BY <1>2, <1>11 DEF Disturbed
  <2>3. PICK first : first = StartsAt(d, data[1])
    OBVIOUS
  <2>4. first # 0
    BY <2>2, <2>3 DEF Handled
  <2>5. PICK sample \in SamplesOf(d, data) :
          ms = IF ParserFor(d, sample) = "http" THEN Parsed(d, data) ELSE {}
    BY DEF Handled
  <2>6. /\ first \in 1..m - 1 /\ ParserFor(d, sample) = "http"
        /\ Cardinality(Parsed(d, data)) = m - first
    BY <1>2, <1>11, <2>1, <2>3, <2>4, ReadsToNext
  <2>7. Cardinality(ms) = m - first
    BY <2>5, <2>6
  <2>8. first \in 1..Len(script[d]) /\ HeadOf(d, first) = data[1] /\ Len(script[d]) \in Nat
    BY <1>2, <2>3, <2>4, Starts, ScriptType
  <2>9. first <= m
    BY <1>11, <2>6, <2>8
  <2>10. seq[c][d] = first - 1
    BY <1>1, <1>5, <1>11, <2>8, <2>9, FirstCounted
  <2>11. seq'[c][d] = seq[c][d] + Cardinality(ms)
    BY <1>2, <1>7
  <2>12. m \in Int /\ first \in Int
    BY <1>11, <2>8
  <2> QED BY <1>11, <2>7, <2>10, <2>11, <2>12
<1> QED BY <1>8, <1>9, <1>10, <1>11

LEMMA ReadFinite ==
  ASSUME ReassemblyInv, TilingInv, PairingInv, NEW c, NEW i, NEW d, NEW data, NEW ms,
         Handled(c, i, d, data, ms)
  PROVE  /\ \A x \in ms : x \in Parsed(d, data) /\ x \in 1..Len(script[d]) /\ KindOf(d, x) # "frame"
         /\ IsFiniteSet(ms) /\ Cardinality(ms) \in Nat
<1>1. /\ d \in Dirs /\ script \in Scripts
      /\ data \in Seq(1..MaxUnits) /\ data # << >> /\ Follows(data[1] - 1, data)
  BY ChunkComes DEF PairingInv, Handled, Consume
<1>2. \A x \in ms : x \in Parsed(d, data)
  BY DEF Handled
<1>3. \A x \in ms : x \in 1..Len(script[d]) /\ KindOf(d, x) # "frame"
  BY <1>1, <1>2, ParsedBounds
<1>4. Len(script[d]) \in Int
  BY <1>1, ScriptType
<1>5. IsFiniteSet(1..Len(script[d]))
  BY <1>4, FS_Interval
<1>6. IsFiniteSet(ms)
  BY <1>3, <1>5, FS_Subset
<1> QED BY <1>2, <1>3, <1>6, FS_CardinalityType

LEMMA EventData ==
  ASSUME ReassemblyInv, TilingInv, PairingInv, NEW c, NEW i, NEW d, NEW data, NEW ms,
         Handled(c, i, d, data, ms)
  PROVE  EventInv'
<1>1. /\ output # << >> /\ ChunkOf(Head(output), c, i, d) /\ data = Head(output).data
      /\ script' = script /\ Consume /\ RTypeOK
  BY DEF Handled, Consume, ReassemblyInv
<1>2. /\ c \in Conns /\ i \in 1..MaxInc /\ d \in Dirs /\ script \in Scripts
      /\ data \in Seq(1..MaxUnits) /\ data # << >> /\ Follows(data[1] - 1, data)
  BY <1>1, ChunkComes DEF PairingInv
<1>3. dropped' = dropped /\ unmarked' = unmarked /\ split \subseteq split'
  BY DEF Handled, Consume
<1>4. \A d2, m : Skewed(d2, m)' <=> Skewed(d2, m)
  BY <1>1, ScriptStays
<1>5. \A x \in ms : x \in Parsed(d, data) /\ x \in 1..Len(script[d]) /\ KindOf(d, x) # "frame"
  BY ReadFinite
<1>6. ASSUME NEW m \in ms, ~Disturbed(c, i)', ~Skewed(d, m)
      PROVE  seq[c][d] + Cardinality({x \in ms : x < m}) = m - 1
  <2>1. ~Disturbed(c, i) /\ <<c, i, d>> \notin split'
    BY <1>2, <1>3, <1>6, LessDisturbed DEF Disturbed
  <2>2. PICK first : first = StartsAt(d, data[1])
    OBVIOUS
  <2>3. first # 0
    BY <2>1, <2>2 DEF Handled
  <2>4. first \in 1..Len(script[d]) /\ HeadOf(d, first) = data[1] /\ Len(script[d]) \in Nat
    BY <1>2, <2>2, <2>3, Starts, ScriptType
  <2>5. /\ m \in 1..Len(script[d]) /\ KindOf(d, m) # "frame"
        /\ data[1] <= HeadOf(d, m) /\ HeadOf(d, m) < data[1] + Len(data)
    BY <1>2, <1>5, ParsedBounds
  <2>6. first <= m
    BY <1>2, <2>4, <2>5, HeadsApart
  <2>7. seq[c][d] = first - 1
    BY <1>1, <1>6, <2>1, <2>4, <2>5, <2>6, FirstCounted
  <2>8. first < m => HeaderIn(d, m - 1, Units(data))
    <3>1. HeadOf(d, m) \in Nat /\ data[1] \in Nat /\ Len(data) \in Nat
      BY <1>2, <2>5, RunUnits, HeaderEnds
    <3>2. HeadOf(d, m) <= data[1] + Len(data)
      BY <2>5, <3>1
    <3> QED BY <1>2, <2>4, <2>5, <3>2, HeaderBefore
  <2>9. /\ {x \in Parsed(d, data) : x < m} = first..m - 1
        /\ Cardinality(first..m - 1) = m - first
    BY <1>2, <1>6, <2>4, <2>5, <2>6, <2>8, CountRead
  <2>10. ms = Parsed(d, data)
    BY <1>6 DEF Handled
  <2>11. first \in Int /\ m \in Int
    BY <2>4, <2>5
  <2>12. Cardinality({x \in ms : x < m}) = m - first
    BY <2>9, <2>10, Zenon
  <2> QED BY <2>7, <2>11, <2>12
<1> SUFFICES ASSUME NEW e \in events'
             PROVE  /\ e.dir \in Dirs /\ e.msg \in 1..Len(script[e.dir])
                    /\ ~Disturbed(e.conn, e.inc)' /\ ~Skewed(e.dir, e.msg) => e.seq = e.msg - 1
  BY <1>1, <1>4 DEF EventInv
<1>7. CASE e \in events
  BY <1>3, <1>7, LessDisturbed DEF PairingInv, EventInv
<1>8. CASE e \notin events
  <2>1. e \in Numbered(c, i, d, ms)
    BY <1>8 DEF Handled
  <2>2. PICK m \in ms : e = [conn |-> c, inc |-> i, dir |-> d,
                             seq |-> seq[c][d] + Cardinality({x \in ms : x < m}), msg |-> m]
    BY <2>1 DEF Numbered
  <2>3. /\ e.conn = c /\ e.inc = i /\ e.dir = d /\ e.msg = m
        /\ e.seq = seq[c][d] + Cardinality({x \in ms : x < m})
    BY <2>2
  <2> QED BY <1>2, <1>5, <1>6, <2>3
<1> QED BY <1>7, <1>8

(* A message that starts in a chunk is reported from no other chunk.       *)
LEMMA OwnSource ==
  ASSUME ReassemblyInv, PairingInv, NEW k \in 1..Len(rcvd), NEW e \in events,
         ChunkOf(rcvd[k], e.conn, e.inc, e.dir), HeadOf(e.dir, e.msg) \in Units(rcvd[k].data)
  PROVE  HeaderIn(e.dir, e.msg, Units(rcvd[k].data))
<1>1. PICK j \in 1..Len(rcvd) : Source(rcvd[j], e)
  BY DEF PairingInv, EachSourced
<1>2. /\ script \in Scripts /\ e.dir \in Dirs /\ e.msg \in 1..Len(script[e.dir])
  BY DEF PairingInv, EventInv
<1>3. HeadOf(e.dir, e.msg) \in Units(rcvd[j].data) /\ HeadOf(e.dir, e.msg) \in Nat
  BY <1>1, <1>2, HeaderHead, HeaderEnds DEF Source
<1>4. rcvd \in Seq(Messages) /\ output \in Seq(Messages)
  BY DEF ReassemblyInv, RTypeOK
<1>5. /\ Len(rcvd) \in Nat /\ Len(output) \in Nat
      /\ Len(Emitted) = Len(rcvd) + Len(output)
      /\ \A a \in 1..Len(rcvd) + Len(output) :
           Emitted[a] = IF a <= Len(rcvd) THEN rcvd[a] ELSE output[a - Len(rcvd)]
  BY <1>4, ConcatProperties DEF Emitted
<1>6. \A a \in 1..Len(rcvd) : a \in 1..Len(Emitted) /\ Emitted[a] = rcvd[a]
  BY <1>5
<1>7. ASSUME NEW a \in 1..Len(rcvd), NEW b \in 1..Len(rcvd), a < b,
             ChunkOf(rcvd[a], e.conn, e.inc, e.dir), ChunkOf(rcvd[b], e.conn, e.inc, e.dir),
             HeadOf(e.dir, e.msg) \in Units(rcvd[a].data),
             HeadOf(e.dir, e.msg) \in Units(rcvd[b].data)
      PROVE  FALSE
  <2>1. SameDirection(Emitted[a], Emitted[b])
    BY <1>6, <1>7 DEF SameDirection, ChunkOf
  <2>2. Before(rcvd[a].data, rcvd[b].data)
    BY <1>6, <1>7, <2>1 DEF ReassemblyInv, OrderInv
  <2>3. HeadOf(e.dir, e.msg) < HeadOf(e.dir, e.msg)
    BY <1>7, <2>2 DEF Before
  <2> QED BY <1>3, <2>3
<1>8. j \in Int /\ k \in Int
  BY <1>5
<1>9. ~(j < k) /\ ~(k < j)
  BY <1>1, <1>3, <1>7 DEF Source
<1>10. j = k
  BY <1>8, <1>9
<1> QED BY <1>1, <1>10 DEF Source

LEMMA AllAreReported ==
  ASSUME ReassemblyInv, PairingInv
  PROVE  AllReported
<1> DEFINE plain(r) ==
             /\ ~r.closed /\ StartsAt(r.dir, r.data[1]) # 0
             /\ \A m \in 1..Len(script[r.dir]) :
                  script[r.dir][m].kind \notin {"trace", "upgrade", "switching", "frame", "headResponse"}
           exact(r, m) ==
             HeaderIn(r.dir, m, Units(r.data)) <=>
               \E e \in events : <<e.conn, e.inc, e.dir, e.msg>> = <<r.conn, r.inc, r.dir, m>>
<1>0. AllReported <=>
        \A k \in 1..Len(rcvd) :
          LET r     == rcvd[k]
              begun == {m \in 1..Len(script[r.dir]) : HeadOf(r.dir, m) \in Units(r.data)}
          IN  plain(r) => \A m \in begun : exact(r, m)
  BY DEF AllReported
<1> SUFFICES ASSUME NEW k \in 1..Len(rcvd), NEW r, r = rcvd[k], plain(r),
                    NEW m \in 1..Len(script[r.dir]), HeadOf(r.dir, m) \in Units(r.data)
             PROVE  exact(r, m)
  <2> HIDE DEF plain, exact
  <2> QED BY <1>0
<1>1. ASSUME HeaderIn(r.dir, m, Units(r.data))
      PROVE  \E e \in events : <<e.conn, e.inc, e.dir, e.msg>> = <<r.conn, r.inc, r.dir, m>>
  <2>1. Reported(r, events)
    BY DEF PairingInv, EachReported
  <2>2. PICK e \in events : e.conn = r.conn /\ e.inc = r.inc /\ e.dir = r.dir /\ e.msg = m
    BY <1>1, <2>1 DEF Reported, KindOf
  <2> QED BY <2>2
<1>2. ASSUME NEW e \in events, <<e.conn, e.inc, e.dir, e.msg>> = <<r.conn, r.inc, r.dir, m>>
      PROVE  HeaderIn(r.dir, m, Units(r.data))
  <2>1. e.conn = r.conn /\ e.inc = r.inc /\ e.dir = r.dir /\ e.msg = m
    BY <1>2
  <2>2. ChunkOf(rcvd[k], e.conn, e.inc, e.dir) /\ HeadOf(e.dir, e.msg) \in Units(rcvd[k].data)
    BY <2>1 DEF ChunkOf
  <2>3. HeaderIn(e.dir, e.msg, Units(rcvd[k].data))
    BY <2>2, OwnSource
  <2> QED BY <2>1, <2>3
<1> QED BY <1>1, <1>2

LEMMA ReportedAfter ==
  ASSUME script' = script
  PROVE  EachReported' <=> \A k \in 1..Len(rcvd') : Reported(rcvd'[k], events')
<1>1. /\ \A d, n : StartsAt(d, n)' = StartsAt(d, n)
      /\ \A d, m : KindOf(d, m)' = KindOf(d, m)
      /\ \A d, m, u : HeaderIn(d, m, u)' <=> HeaderIn(d, m, u)
  BY ScriptStays
<1>2. ASSUME NEW k \in 1..Len(rcvd')
      PROVE  Reported(rcvd[k], events)' <=> Reported(rcvd'[k], events')
  BY <1>1 DEF Reported, Units
<1> QED BY <1>2 DEF EachReported

LEMMA SourcedAfter ==
  ASSUME script' = script
  PROVE  EachSourced' <=> \A e \in events' : \E k \in 1..Len(rcvd') : Source(rcvd'[k], e)
<1>1. \A d, m, u : HeaderIn(d, m, u)' <=> HeaderIn(d, m, u)
  BY ScriptStays
<1>2. ASSUME NEW k \in 1..Len(rcvd'), NEW e
      PROVE  Source(rcvd[k], e)' <=> Source(rcvd'[k], e)
  BY <1>1 DEF Source, ChunkOf, Units
<1> QED BY <1>2 DEF EachSourced

LEMMA SourceData ==
  ASSUME ReassemblyInv, TilingInv, PairingInv, NEW c, NEW i, NEW d, NEW data, NEW ms,
         Handled(c, i, d, data, ms)
  PROVE  EachSourced'
<1>1. /\ output # << >> /\ ChunkOf(Head(output), c, i, d) /\ data = Head(output).data
      /\ script' = script /\ Consume /\ RTypeOK
  BY DEF Handled, Consume, ReassemblyInv
<1>2. /\ d \in Dirs /\ script \in Scripts
      /\ data \in Seq(1..MaxUnits) /\ data # << >> /\ Follows(data[1] - 1, data)
  BY <1>1, ChunkComes DEF PairingInv
<1> SUFFICES ASSUME NEW e \in events' PROVE \E k \in 1..Len(rcvd') : Source(rcvd'[k], e)
  BY <1>1, SourcedAfter
<1>3. CASE e \in events
  <2>1. PICK k \in 1..Len(rcvd) : Source(rcvd[k], e)
    BY <1>3 DEF PairingInv, EachSourced
  <2>2. k \in 1..Len(rcvd') /\ rcvd'[k] = rcvd[k]
    BY <1>1, Receives
  <2> QED BY <2>1, <2>2
<1>4. CASE e \notin events
  <2>1. e \in Numbered(c, i, d, ms)
    BY <1>4 DEF Handled
  <2>2. PICK m \in ms : e = [conn |-> c, inc |-> i, dir |-> d,
                             seq |-> seq[c][d] + Cardinality({x \in ms : x < m}), msg |-> m]
    BY <2>1 DEF Numbered
  <2>3. e.conn = c /\ e.inc = i /\ e.dir = d /\ e.msg = m
    BY <2>2
  <2>4. m \in Parsed(d, data)
    BY DEF Handled
  <2>5. HeaderIn(d, m, Units(data))
    BY <1>2, <2>4, ParsedBounds
  <2>6. Source(Head(output), e)
    BY <1>1, <2>3, <2>5 DEF Source
  <2>7. Len(rcvd) + 1 \in 1..Len(rcvd') /\ rcvd'[Len(rcvd) + 1] = Head(output)
    BY <1>1, Receives
  <2> QED BY <2>6, <2>7
<1> QED BY <1>3, <1>4

LEMMA ReportData ==
  ASSUME ReassemblyInv, TilingInv, PairingInv, NEW c, NEW i, NEW d, NEW data, NEW ms,
         Handled(c, i, d, data, ms)
  PROVE  EachReported'
<1>1. /\ output # << >> /\ ChunkOf(Head(output), c, i, d) /\ data = Head(output).data
      /\ script' = script /\ Consume /\ RTypeOK
  BY DEF Handled, Consume, ReassemblyInv
<1>2. /\ d \in Dirs /\ script \in Scripts
      /\ data \in Seq(1..MaxUnits) /\ data # << >> /\ Follows(data[1] - 1, data)
  BY <1>1, ChunkComes DEF PairingInv
<1>3. events \subseteq events' /\ Numbered(c, i, d, ms) \subseteq events'
  BY DEF Handled
<1>4. ASSUME NEW k \in 1..Len(rcvd) PROVE Reported(rcvd[k], events')
  <2>1. Reported(rcvd[k], events)
    BY DEF PairingInv, EachReported
  <2> QED BY <1>3, <2>1 DEF Reported
<1>5. ASSUME StartsAt(d, data[1]) # 0,
             \A m \in 1..Len(script[d]) :
               KindOf(d, m) \notin {"trace", "upgrade", "switching", "frame", "headResponse"},
             NEW m \in 1..Len(script[d]), HeaderIn(d, m, Units(data))
      PROVE  \E e \in events' : e.conn = c /\ e.inc = i /\ e.dir = d /\ e.msg = m
  <2>1. PICK first : first = StartsAt(d, data[1])
    OBVIOUS
  <2>2. first \in 1..Len(script[d]) /\ HeadOf(d, first) = data[1] /\ Len(script[d]) \in Nat
    BY <1>2, <1>5, <2>1, Starts, ScriptType
  <2>4. data[1] <= HeadOf(d, m)
    BY <1>2, <1>5, HeaderUnits
  <2>5. first <= m
    BY <1>2, <2>2, <2>4, HeadsApart
  <2>6. PICK sample \in SamplesOf(d, data) :
          ms = IF ParserFor(d, sample) = "http" THEN Parsed(d, data) ELSE {}
    BY DEF Handled
  <2>7. KindOf(d, first) \in Plain[d]
    <3>1. /\ KindOf(d, first) \in Kinds[d]
          /\ KindOf(d, first) \notin {"trace", "upgrade", "switching", "frame", "headResponse"}
      BY <1>2, <1>5, <2>2, ScriptType
    <3> QED BY <1>2, <3>1, KindSets
  <2>8. ParserFor(d, sample) = "http"
    <3>1. \A x \in 1..Len(data) : StartsAt(d, data[x]) # 0 =>
            KindOf(d, StartsAt(d, data[x])) # "upgrade"
      <4> SUFFICES ASSUME NEW x \in 1..Len(data), StartsAt(d, data[x]) # 0
                   PROVE  KindOf(d, StartsAt(d, data[x])) # "upgrade"
        OBVIOUS
      <4>1. StartsAt(d, data[x]) \in 1..Len(script[d])
        BY <1>2, Starts
      <4> QED BY <1>5, <4>1
    <3> QED BY <1>2, <1>5, <2>1, <2>7, <3>1, PlainChunk
  <2>9. {x \in Parsed(d, data) : x <= m} = first..m
    <3>1. m \in 0..Len(script[d]) /\ first <= m + 1
      BY <2>2, <2>5
    <3>2. \A x \in first..m : KindOf(d, x) \notin {"frame", "headResponse"}
      <4> TAKE x \in first..m
      <4>1. x \in 1..Len(script[d])
        BY <2>2
      <4> QED BY <1>5, <4>1
    <3> QED BY <1>2, <1>5, <2>2, <3>1, <3>2, ParsedRun
  <2>10. m \in ms
    <3>1. m \in first..m
      BY <2>2, <2>5
    <3> QED BY <2>6, <2>8, <2>9, <3>1
  <2>11. PICK e \in Numbered(c, i, d, ms) : e.conn = c /\ e.inc = i /\ e.dir = d /\ e.msg = m
    <3> DEFINE num == seq[c][d] + Cardinality({x \in ms : x < m})
               new == [conn |-> c, inc |-> i, dir |-> d, seq |-> num, msg |-> m]
    <3>1. new \in Numbered(c, i, d, ms)
      BY <2>10 DEF Numbered
    <3> HIDE DEF num
    <3>2. new.conn = c /\ new.inc = i /\ new.dir = d /\ new.msg = m
      OBVIOUS
    <3> QED BY <3>1, <3>2
  <2> QED BY <1>3, <2>11
<1>6. Reported(Head(output), events')
  BY <1>1, <1>5 DEF Reported, ChunkOf
<1> QED BY <1>1, <1>4, <1>6, Receives, ReportedAfter

-----------------------------------------------------------------------------
(* A marker is handled, or the reassembler goes on.                        *)

LEMMA CountClose ==
  ASSUME ReassemblyInv, TilingInv, PairingInv, HandleClose
  PROVE  CountInv'
<1>1. PICK c, i : MarkerOf(Head(output), c, i)
  BY DEF HandleClose, MarkerOf
<1>2. /\ output # << >> /\ script' = script /\ Consume /\ RTypeOK /\ script \in Scripts
      /\ split' = split /\ dropped' = dropped /\ unmarked' = unmarked
      /\ seq \in [Conns -> [Dirs -> Nat]] /\ seq' = [seq EXCEPT ![c] = [d \in Dirs |-> 0]]
  BY <1>1 DEF HandleClose, Consume, ReassemblyInv, PairingInv, Forget, MarkerOf
<1>3. Head(output).conn = c /\ Head(output).inc = i /\ Head(output).closed
  BY <1>1 DEF MarkerOf
<1>4. c \in Conns /\ i \in 1..MaxInc /\ i \in Nat
  BY <1>2, <1>3, NextPlace, ReassemblyAssumption DEF Messages
<1>5. ASSUME NEW k \in 1..Len(rcvd), rcvd[k].conn = c PROVE rcvd[k].inc <= i
  <2>1. /\ Len(rcvd) \in Nat /\ k \in 1..Len(Emitted) /\ Emitted[k] = rcvd[k]
        /\ Len(rcvd) + 1 \in 1..Len(Emitted) /\ Emitted[Len(rcvd) + 1] = Head(output)
    BY <1>2, NextPlace
  <2>2. k < Len(rcvd) + 1
    BY <2>1
  <2> QED BY <1>3, <1>5, <2>1, <2>2 DEF TilingInv, Generations
<1> SUFFICES ASSUME NEW c2 \in Conns, NEW i2 \in 1..MaxInc, NEW d2 \in Dirs,
                    NEW m \in 1..Len(script[d2]),
                    ~Disturbed(c2, i2)', Current(c2, i2)', Upcoming(c2, i2, d2, m)',
                    ~Skewed(d2, m), KindOf(d2, m) # "frame"
             PROVE  seq'[c2][d2] = m - 1
  BY <1>2, ScriptStays DEF CountInv
<1>6. CASE c2 # c
  <2>1. Current(c2, i2) /\ Upcoming(c2, i2, d2, m)
    BY <1>2, <1>3, <1>6, OtherConn
  <2>2. ~Disturbed(c2, i2)
    BY <1>2, LessDisturbed
  <2>3. seq[c2][d2] = m - 1
    BY <2>1, <2>2 DEF PairingInv, CountInv
  <2> QED BY <1>2, <1>6, <2>3
<1>7. CASE c2 = c
  <2>1. i <= i2 /\ ~MarkerOf(Head(output), c, i2)
    BY <1>2, <1>3, <1>7, CurrentAfter
  <2>2. i2 \in Nat /\ i < i2
    <3>1. i2 \in Nat /\ i2 # i
      BY <1>1, <2>1, ReassemblyAssumption
    <3> QED BY <1>4, <2>1, <3>1
  <2>3. ASSUME NEW n PROVE ~Gone(c, i2, d2, n)
    <3> SUFFICES ASSUME Gone(c, i2, d2, n) PROVE FALSE
      OBVIOUS
    <3>1. PICK k \in 1..Len(rcvd) : ChunkOf(rcvd[k], c, i2, d2)
      BY DEF Gone
    <3>2. i2 <= i
      BY <1>5, <3>1 DEF ChunkOf
    <3> QED BY <1>4, <2>2, <3>2
  <2>4. ~ChunkOf(Head(output), c, i2, d2)
    BY <1>3 DEF ChunkOf
  <2>5. Upcoming(c, i2, d2, m)
    BY <1>2, <1>7, <2>4, UpcomingAfter
  <2>6. HeadOf(d2, 1) = 1 /\ HeadOf(d2, m) \in Nat /\ Len(script[d2]) \in Nat
    BY <1>2, HeadLoop, ScriptType
  <2>7. ~(1 < HeadOf(d2, m))
    <3> SUFFICES ASSUME 1 < HeadOf(d2, m) PROVE FALSE
      OBVIOUS
    <3>1. 1 \in 1..HeadOf(d2, m) - 1
      BY <2>6
    <3> QED BY <2>3, <2>5, <3>1 DEF Upcoming
  <2>8. m = 1
    <3>1. 1 \in 1..Len(script[d2]) /\ HeadOf(d2, m) <= HeadOf(d2, 1)
      BY <2>6, <2>7
    <3>2. m <= 1
      BY <1>2, <3>1, HeadsApart
    <3> QED BY <2>6, <3>2
  <2> QED BY <1>2, <1>4, <1>7, <2>8
<1> QED BY <1>6, <1>7

LEMMA ForgetStep ==
  ASSUME ReassemblyInv, TilingInv, PairingInv, HandleClose
  PROVE  PairingInv'
<1>1. /\ script' = script /\ Consume /\ RTypeOK /\ Head(output).closed
      /\ split' = split /\ dropped' = dropped /\ unmarked' = unmarked /\ events' = events
  BY DEF HandleClose, Consume, ReassemblyInv
<1>2. seq' \in [Conns -> [Dirs -> Nat]] /\ script' \in Scripts
  <2>1. seq' \in [Conns -> [Dirs -> Nat]]
    BY DEF HandleClose, Forget, PairingInv
  <2> QED BY <1>1, <2>1 DEF PairingInv
<1>3. EventInv'
  <2>1. \A d, m : Skewed(d, m)' <=> Skewed(d, m)
    BY <1>1, ScriptStays
  <2>2. \A c, i : Disturbed(c, i)' <=> Disturbed(c, i)
    BY <1>1 DEF Disturbed
  <2> QED BY <1>1, <2>1, <2>2 DEF PairingInv, EventInv
<1>4. EachReported'
  <2>1. Reported(Head(output), events')
    BY <1>1 DEF Reported
  <2>2. \A k \in 1..Len(rcvd) : Reported(rcvd[k], events')
    BY <1>1 DEF PairingInv, EachReported
  <2> QED BY <1>1, <2>1, <2>2, Receives, ReportedAfter
<1>5. CountInv'
  BY CountClose
<1>6. EachSourced'
  <2>1. \A e \in events : \E k \in 1..Len(rcvd) : Source(rcvd[k], e)
    BY DEF PairingInv, EachSourced
  <2>2. \A k \in 1..Len(rcvd) : k \in 1..Len(rcvd') /\ rcvd'[k] = rcvd[k]
    BY <1>1, Receives
  <2>3. \A e \in events' : \E k \in 1..Len(rcvd') : Source(rcvd'[k], e)
    BY <1>1, <2>1, <2>2
  <2> QED BY <1>1, <2>3, SourcedAfter
<1> QED BY <1>2, <1>3, <1>4, <1>5, <1>6 DEF PairingInv

LEMMA DataStep ==
  ASSUME ReassemblyInv, TilingInv, PairingInv, HandleData
  PROVE  PairingInv'
<1>1. PICK c, i, d, data, ms : Handled(c, i, d, data, ms)
  BY DataHandled
<1>2. Cardinality(ms) \in Nat
  BY <1>1, ReadFinite
<1>3. seq' \in [Conns -> [Dirs -> Nat]] /\ script' \in Scripts
  <2>1. /\ seq \in [Conns -> [Dirs -> Nat]] /\ seq' = [seq EXCEPT ![c][d] = @ + Cardinality(ms)]
        /\ script \in Scripts /\ script' = script
    BY <1>1 DEF PairingInv, Handled
  <2>2. c \in Conns /\ d \in Dirs
    BY <1>1, ChunkComes DEF Handled, Consume
  <2> QED BY <1>2, <2>1, <2>2
<1>4. CountInv' /\ EventInv' /\ EachReported' /\ EachSourced'
  BY <1>1, <1>2, CountData, EventData, ReportData, SourceData
<1> QED BY <1>3, <1>4 DEF PairingInv

(* The reassembler may drop a chunk or a marker, which only disturbs.      *)
LEMMA QuietStep ==
  ASSUME PairingInv, UNCHANGED <<rcvd, script, seq, events, split>>,
         dropped \subseteq dropped', unmarked \subseteq unmarked'
  PROVE  PairingInv'
<1>1. \A c, i : Disturbed(c, i) => Disturbed(c, i)'
  BY LessDisturbed
<1>2. /\ \A d, m : HeadOf(d, m)' = HeadOf(d, m)
      /\ \A d, m : Skewed(d, m)' <=> Skewed(d, m)
      /\ \A d, m : KindOf(d, m)' = KindOf(d, m)
  BY ScriptStays
<1>3. \A c, i, d, n : Gone(c, i, d, n)' <=> Gone(c, i, d, n)
  BY DEF Gone, ChunkOf, Units
<1>4. /\ \A c, i : Current(c, i)' <=> Current(c, i)
      /\ \A c, i, d, m : Upcoming(c, i, d, m)' <=> Upcoming(c, i, d, m)
  <2>1. \A c, i : Current(c, i)' <=> Current(c, i)
    BY DEF Current, MarkerOf
  <2>2. \A c, i, d, m : Upcoming(c, i, d, m)' <=> Upcoming(c, i, d, m)
    BY <1>2, <1>3 DEF Upcoming
  <2> QED BY <2>1, <2>2
<1>5. CountInv'
  BY <1>1, <1>2, <1>4 DEF PairingInv, CountInv
<1>6. EventInv'
  BY <1>1, <1>2 DEF PairingInv, EventInv
<1>7. EachReported' /\ EachSourced'
  BY ReportedAfter, SourcedAfter DEF PairingInv, EachReported, EachSourced
<1> QED BY <1>5, <1>6, <1>7 DEF PairingInv

LEMMA OnlyDisturbs ==
  ASSUME Assemble \/ UNCHANGED rvars
  PROVE  rcvd' = rcvd /\ dropped \subseteq dropped' /\ unmarked \subseteq unmarked'
<1>1. CASE UNCHANGED rvars
  BY <1>1 DEF rvars, chanVars
<1>2. CASE \E c \in Conns : New(c) \/ Begin(c)
  BY <1>2 DEF New, Begin, chanVars
<1>3. CASE \E c \in Conns, d \in Dirs, n \in 1..MaxSegment : ReassembledSG(c, d, n)
  <2>1. PICK c \in Conns, d \in Dirs, n \in 1..MaxSegment : ReassembledSG(c, d, n)
    BY <1>3
  <2>2. rcvd' = rcvd /\ unmarked' = unmarked
    BY <2>1 DEF ReassembledSG
  <2>3. dropped \subseteq dropped'
    BY <2>1, Zenon DEF ReassembledSG, SendChunk
  <2> QED BY <2>2, <2>3
<1>4. ASSUME NEW d, NEW next, FlushRest(d, next)
      PROVE  rcvd' = rcvd /\ dropped \subseteq dropped' /\ unmarked \subseteq unmarked'
  BY <1>4 DEF FlushRest, SendChunk
<1>5. CASE EmitClose
  BY <1>5 DEF EmitClose
<1> QED BY <1>1, <1>2, <1>3, <1>4, <1>5 DEF Assemble

-----------------------------------------------------------------------------
(* In an undisturbed stream the counters of a direction stand at the       *)
(* message that comes next, whatever the chunks it was cut into and the    *)
(* streams of the same 4-tuple before it.                                  *)
THEOREM PairingSafety == Spec => []PairingInv
<1>1. Init => PairingInv
  <2> SUFFICES ASSUME Init PROVE PairingInv
    OBVIOUS
  <2>1. script \in Scripts /\ seq = [c \in Conns |-> [d \in Dirs |-> 0]] /\ events = {}
    BY DEF Init
  <2>2. rcvd = << >>
    BY DEF Init, RInit
  <2>3. \A c, i, d, n : ~Gone(c, i, d, n)
    BY <2>2 DEF Gone
  <2>4. CountInv
    <3> SUFFICES ASSUME NEW c \in Conns, NEW i \in 1..MaxInc, NEW d \in Dirs,
                        NEW m \in 1..Len(script[d]), Upcoming(c, i, d, m)
                 PROVE  seq[c][d] = m - 1
      BY DEF CountInv
    <3>1. HeadOf(d, 1) = 1 /\ HeadOf(d, m) \in Nat /\ Len(script[d]) \in Nat
      BY <2>1, HeadLoop, ScriptType
    <3>2. ~(1 < HeadOf(d, m))
      <4> SUFFICES ASSUME 1 < HeadOf(d, m) PROVE FALSE
        OBVIOUS
      <4>1. 1 \in 1..HeadOf(d, m) - 1
        BY <3>1
      <4> QED BY <2>3, <4>1 DEF Upcoming
    <3>3. 1 \in 1..Len(script[d]) /\ HeadOf(d, m) <= HeadOf(d, 1)
      BY <3>1, <3>2
    <3>4. m <= 1
      BY <2>1, <3>3, HeadsApart
    <3>5. m = 1
      BY <3>1, <3>4
    <3> QED BY <2>1, <3>5
  <2>5. EventInv /\ EachReported /\ EachSourced
    BY <2>1, <2>2 DEF EventInv, EachReported, EachSourced
  <2> QED BY <2>1, <2>4, <2>5 DEF PairingInv
<1>2. ReassemblyInv /\ TilingInv /\ PairingInv /\ [Next]_vars => PairingInv'
  <2> SUFFICES ASSUME ReassemblyInv, TilingInv, PairingInv, [Next]_vars PROVE PairingInv'
    OBVIOUS
  <2>1. CASE HandleData
    BY <2>1, DataStep
  <2>2. CASE HandleClose
    BY <2>2, ForgetStep
  <2>3. CASE (Assemble \/ UNCHANGED rvars) /\ UNCHANGED <<script, seq, events, split>>
    BY <2>3, OnlyDisturbs, QuietStep
  <2> QED BY <2>1, <2>2, <2>3 DEF Next, vars
<1> QED BY <1>1, <1>2, PairingRefinesReassembly, ReassemblySafety, ChunksTile, PTL DEF Spec

(* NumberingExact: the event with sequence number n of an undisturbed      *)
(* stream, with nothing skewing in front of it, is about exchange n + 1,   *)
(* so that readRequest and readResponse give the two sides of an exchange  *)
(* the same UID, also when OnConnClose has to reset the counters first.    *)
THEOREM NumberingCorrect == Spec => []NumberingExact
<1>1. PairingInv => NumberingExact
  <2> SUFFICES ASSUME PairingInv, NEW e \in events, ~Disturbed(e.conn, e.inc), ~Skewed(e.dir, e.msg)
               PROVE  Exchange(e) = e.seq + 1
    BY DEF NumberingExact
  <2>1. /\ script \in Scripts /\ e.dir \in Dirs /\ e.msg \in 1..Len(script[e.dir])
        /\ e.seq = e.msg - 1
    BY DEF PairingInv, EventInv
  <2>2. \A j \in 1..e.msg - 1 : KindOf(e.dir, j) # "interim"
    BY DEF Skewed, Skewing, KindOf
  <2>3. script[e.dir][e.msg].exchange = e.msg
    BY <2>1, <2>2, ScriptType
  <2> QED BY <2>1, <2>3 DEF Exchange
<1> QED BY <1>1, PairingSafety, PTL

(* AllReported: resolving a parser for each chunk and reading it to its    *)
(* end report, of a direction that is plain HTTP, exactly the messages     *)
(* whose header is whole in the chunk they start in: a chunk that starts   *)
(* with a message loses at most the last one, whose header its end cuts.   *)
THEOREM ChunksReported == Spec => []AllReported
<1>1. ReassemblyInv /\ PairingInv => AllReported
  BY AllAreReported
<1> QED BY <1>1, PairingSafety, PairingRefinesReassembly, ReassemblySafety, PTL
=============================================================================
