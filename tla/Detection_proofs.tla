-------------------------- MODULE Detection_proofs --------------------------
(***************************************************************************)
(* What the loop of bestProbe computes, for any list of parsers; and, as   *)
(* it and the loops of other modules are recursive functions, induction    *)
(* and recursion over an interval of numbers in a form the provers can     *)
(* apply: over sets and functions, not over operators.                     *)
(***************************************************************************)
EXTENDS Detection, Integers, SequenceTheorems, WellFoundedInduction, TLAPS

-----------------------------------------------------------------------------
(* Induction.                                                              *)

Less == {x \in Nat \X Nat : x[1] < x[2]}

(* A set of naturals has a least element.                                  *)
LEMMA Least ==
  ASSUME NEW T, T \subseteq Nat, T # {}
  PROVE  \E x \in T : \A y \in T : x <= y
<1>1. IsWellFoundedOn(Less, Nat)
  BY NatLessThanWellFounded DEF OpToRel, Less
<1>2. PICK x \in T : \A y \in T : ~(<<y, x>> \in Less)
  BY <1>1, WFMin
<1>3. ASSUME NEW y \in T PROVE x <= y
  <2>1. x \in Nat /\ y \in Nat
    OBVIOUS
  <2>2. y < x => <<y, x>> \in Less
    BY <2>1 DEF Less
  <2> QED BY <1>2, <2>1, <2>2
<1> QED BY <1>3

(* Induction up to n.                                                      *)
LEMMA Induct ==
  ASSUME NEW n \in Nat, NEW H, 0 \in H, \A i \in 0..n : i + 1 <= n /\ i \in H => i + 1 \in H
  PROVE  0..n \subseteq H
<1> SUFFICES ASSUME 0..n \ H # {} PROVE FALSE
  OBVIOUS
<1> DEFINE T == 0..n \ H
<1>1. T \subseteq Nat /\ T # {}
  OBVIOUS
<1>2. PICK x \in T : \A y \in T : x <= y
  BY <1>1, Least
<1>3. x \in 0..n /\ x # 0 /\ x - 1 \in 0..n /\ (x - 1) + 1 = x /\ x \notin H
  OBVIOUS
<1>4. x - 1 \in H
  BY <1>2, <1>3
<1> QED BY <1>3, <1>4

(* f starts with b, and G makes each of its values of the one before.      *)
Recurs(f, n, b, G) == f[0] = b /\ \A i \in 1..n : f[i] = G[<<i, f[i - 1]>>]

(* There is such a function.                                               *)
LEMMA Recursion ==
  ASSUME NEW S, NEW b \in S, NEW n \in Nat, NEW G \in [(1..n) \X S -> S]
  PROVE  \E f \in [0..n -> S] : Recurs(f, n, b, G)
<1> DEFINE H == {m \in 0..n : \E f \in [0..n -> S] : Recurs(f, m, b, G)}
<1>1. 0 \in H
  <2>1. [i \in 0..n |-> b] \in [0..n -> S] /\ Recurs([i \in 0..n |-> b], 0, b, G)
    BY DEF Recurs
  <2>2. \E f \in [0..n -> S] : Recurs(f, 0, b, G)
    BY <2>1
  <2> QED BY <2>2
<1>2. ASSUME NEW m \in 0..n, m + 1 <= n, m \in H PROVE m + 1 \in H
  <2>1. PICK f \in [0..n -> S] : Recurs(f, m, b, G)
    BY <1>2
  <2> DEFINE g == [f EXCEPT ![m + 1] = G[<<m + 1, f[m]>>]]
  <2>2. m + 1 \in 1..n /\ f[m] \in S /\ m + 1 \in 0..n
    BY <1>2
  <2>3. G[<<m + 1, f[m]>>] \in S
    BY <2>2
  <2>4. g \in [0..n -> S]
    BY <2>3
  <2>5. g[m + 1] = G[<<m + 1, f[m]>>] /\ \A i \in 0..m : g[i] = f[i]
    BY <2>2
  <2> HIDE DEF g
  <2>6. \A i \in 1..m + 1 : g[i] = G[<<i, g[i - 1]>>]
    <3> TAKE i \in 1..m + 1
    <3>1. CASE i = m + 1
      BY <2>5, <3>1
    <3>2. CASE i \in 1..m
      BY <2>1, <2>5, <3>2 DEF Recurs
    <3> QED BY <3>1, <3>2
  <2>7. Recurs(g, m + 1, b, G)
    BY <2>1, <2>5, <2>6 DEF Recurs
  <2> QED BY <2>2, <2>4, <2>7
<1>3. n \in H
  <2> HIDE DEF H
  <2> QED BY <1>1, <1>2, Induct
<1> QED BY <1>3

-----------------------------------------------------------------------------
(* The confidences.                                                        *)

Confidence == {0} \cup 40..100

LEMMA Scores ==
  ASSUME NEW p \in Names \ {"unknown"}, NEW s \in Samples, NEW c \in BOOLEAN
  PROVE  Probe(p, s, c) \in Confidence
<1> USE DEF Confidence, Table, Probe, Parser
<1>1. CASE p = "http"
  BY <1>1 DEF HttpParser
<1>2. CASE p = "dns"
  BY <1>2 DEF DnsParser
<1>3. CASE p = "tls"
  BY <1>3 DEF TlsParser
<1>4. CASE p = "mysql"
  BY <1>4 DEF MysqlParser
<1>5. CASE p = "postgres"
  BY <1>5 DEF PostgresParser
<1>6. CASE p = "redis"
  BY <1>6 DEF RedisParser
<1>7. CASE p = "mongodb"
  BY <1>7 DEF MongodbParser
<1>8. CASE p = "smtp"
  BY <1>8 DEF SmtpParser
<1>9. CASE p = "ftp"
  BY <1>9 DEF FtpParser
<1>10. CASE p = "imap"
  BY <1>10 DEF ImapParser
<1>11. CASE p = "pop3"
  BY <1>11 DEF Pop3Parser
<1>12. CASE p = "mqtt"
  BY <1>12 DEF MqttParser
<1>13. CASE p = "websocket"
  BY <1>13 DEF WebsocketParser
<1>14. CASE p = "ssh"
  BY <1>14 DEF SshParser
<1> HIDE DEF Confidence, Table, Probe, Parser
<1> QED BY <1>1, <1>2, <1>3, <1>4, <1>5, <1>6, <1>7, <1>8, <1>9, <1>10, <1>11, <1>12, <1>13,
          <1>14 DEF Names

LEMMA BelowAll ==
  ASSUME NEW x \in Confidence, NEW y \in {0, 1}, x <= y
  PROVE  x = 0
BY DEF Confidence

LEMMA UnknownScores ==
  /\ Ports("unknown") = {}
  /\ \A s \in Samples, c \in BOOLEAN : Probe("unknown", s, c) = IF s = "empty" THEN 0 ELSE 1
BY DEF Ports, Probe, Parser, UnknownParser, Table

LEMMA ProbeType ==
  ASSUME NEW p \in Names, NEW s \in Samples, NEW c \in BOOLEAN
  PROVE  Probe(p, s, c) \in Nat
<1>1. CASE p = "unknown"
  BY <1>1, UnknownScores
<1>2. CASE p # "unknown"
  BY <1>2, Scores DEF Confidence
<1> QED BY <1>1, <1>2

-----------------------------------------------------------------------------
(* bestProbe.                                                              *)

(* The loop is what its recursion says.                                    *)
LEMMA BestOfLoop ==
  ASSUME NEW ps \in Seq(Names), NEW s \in Samples, NEW c \in BOOLEAN
  PROVE  /\ BestOf(ps, s, c)[0] = [parser |-> NoParser, score |-> 0]
         /\ \A i \in 1..Len(ps) :
              BestOf(ps, s, c)[i] = IF Probe(ps[i], s, c) > BestOf(ps, s, c)[i - 1].score
                                    THEN [parser |-> ps[i], score |-> Probe(ps[i], s, c)]
                                    ELSE BestOf(ps, s, c)[i - 1]
<1> DEFINE S == [parser : Names \cup {NoParser}, score : Nat]
           n == Len(ps)
           turn(i, b) == IF Probe(ps[i], s, c) > b.score
                         THEN [parser |-> ps[i], score |-> Probe(ps[i], s, c)] ELSE b
           G == [x \in (1..n) \X S |-> turn(x[1], x[2])]
           zero == [parser |-> NoParser, score |-> 0]
           Eq(f) == f = [i \in 0..n |-> IF i = 0 THEN zero ELSE turn(i, f[i - 1])]
<1>1. n \in Nat /\ zero \in S
  OBVIOUS
<1>2. ASSUME NEW i \in 1..n, NEW b \in S PROVE turn(i, b) \in S
  BY ProbeType
<1>3. G \in [(1..n) \X S -> S]
  BY <1>2
<1>4. \A i \in 1..n, b \in S : G[<<i, b>>] = turn(i, b)
  OBVIOUS
<1> HIDE DEF G, zero, turn, n, S
<1>5. PICK f \in [0..n -> S] : Recurs(f, n, zero, G)
  BY <1>1, <1>3, Recursion
<1>6. Eq(f)
  <2>1. ASSUME NEW i \in 0..n PROVE f[i] = IF i = 0 THEN zero ELSE turn(i, f[i - 1])
    <3>1. CASE i = 0
      BY <1>5, <3>1 DEF Recurs
    <3>2. CASE i # 0
      <4>1. i \in 1..n /\ i - 1 \in 0..n
        BY <1>1, <3>2
      <4>2. f[i - 1] \in S
        BY <4>1
      <4> QED BY <1>4, <1>5, <3>2, <4>1, <4>2 DEF Recurs
    <3> QED BY <3>1, <3>2
  <2> QED BY <2>1
<1>7. BestOf(ps, s, c) = CHOOSE g : Eq(g)
  BY DEF BestOf, Better, zero, turn, n
<1>8. Eq(BestOf(ps, s, c))
  BY <1>6, <1>7
<1> DEFINE h == BestOf(ps, s, c)
<1>9. h[0] = zero /\ \A i \in 1..n : h[i] = turn(i, h[i - 1])
  <2> HIDE DEF h
  <2> QED BY <1>1, <1>8 DEF h
<1> QED BY <1>9 DEF n, zero, turn

(* The i-th of the parsers has the highest confidence of the first m, and  *)
(* is the first of those that tie.                                         *)
FirstBest(ps, s, c, m, i) ==
  /\ Probe(ps[i], s, c) > 0
  /\ \A j \in 1..m : /\ Probe(ps[j], s, c) <= Probe(ps[i], s, c)
                     /\ Probe(ps[j], s, c) = Probe(ps[i], s, c) => i <= j

(* What bestProbe returns.                                                 *)
LEMMA BestProbeFirst ==
  ASSUME NEW ps \in Seq(Names), NEW s \in Samples, NEW c \in BOOLEAN
  PROVE  \/ /\ BestProbe(ps, s, c) = NoParser
            /\ \A j \in 1..Len(ps) : Probe(ps[j], s, c) = 0
         \/ \E i \in 1..Len(ps) :
              BestProbe(ps, s, c) = ps[i] /\ FirstBest(ps, s, c, Len(ps), i)
<1> DEFINE h == BestOf(ps, s, c)
           pr(j) == Probe(ps[j], s, c)
           None(m) == /\ h[m] = [parser |-> NoParser, score |-> 0]
                      /\ \A j \in 1..m : pr(j) = 0
           Some(m, i) == /\ h[m] = [parser |-> ps[i], score |-> pr(i)]
                         /\ pr(i) > 0
                         /\ \A j \in 1..m : pr(j) <= pr(i) /\ (pr(j) = pr(i) => i <= j)
           H == {m \in 0..Len(ps) : None(m) \/ \E i \in 1..m : Some(m, i)}
<1>1. /\ h[0] = [parser |-> NoParser, score |-> 0]
      /\ \A i \in 1..Len(ps) : h[i] = IF pr(i) > h[i - 1].score
                                      THEN [parser |-> ps[i], score |-> pr(i)] ELSE h[i - 1]
  BY BestOfLoop
<1>2. \A j \in 1..Len(ps) : pr(j) \in Nat
  BY ProbeType
<1>3. Len(ps) \in Nat
  OBVIOUS
<1>4. 0..Len(ps) \subseteq H
  <2> HIDE DEF h, pr
  <2>1. 0 \in H
    BY <1>1, <1>3
  <2>2. ASSUME NEW m \in 0..Len(ps), m + 1 <= Len(ps), m \in H PROVE m + 1 \in H
    <3>1. m + 1 \in 1..Len(ps) /\ (m + 1) - 1 = m /\ m + 1 \in 0..Len(ps) /\ pr(m + 1) \in Nat
      BY <1>2, <1>3, <2>2
    <3>2. h[m + 1] = IF pr(m + 1) > h[m].score
                     THEN [parser |-> ps[m + 1], score |-> pr(m + 1)] ELSE h[m]
      BY <1>1, <3>1
    <3>3. \A j \in 1..m + 1 : pr(j) \in Nat /\ (j \in 1..m \/ j = m + 1)
      BY <1>2, <3>1
    <3>4. CASE None(m)
      <4>1. CASE pr(m + 1) > 0
        <5>1. Some(m + 1, m + 1)
          BY <3>1, <3>2, <3>3, <3>4, <4>1
        <5> HIDE DEF Some
        <5> QED BY <3>1, <5>1
      <4>2. CASE pr(m + 1) = 0
        <5>1. None(m + 1)
          BY <3>1, <3>2, <3>3, <3>4, <4>2
        <5> HIDE DEF None
        <5> QED BY <3>1, <5>1
      <4>3. pr(m + 1) > 0 \/ pr(m + 1) = 0
        BY <3>1
      <4> QED BY <4>1, <4>2, <4>3
    <3>5. CASE \E i \in 1..m : Some(m, i)
      <4>1. PICK i \in 1..m : Some(m, i)
        BY <3>5
      <4>2. CASE pr(m + 1) > pr(i)
        <5>1. Some(m + 1, m + 1)
          BY <3>1, <3>2, <3>3, <4>1, <4>2
        <5> HIDE DEF Some
        <5> QED BY <3>1, <5>1
      <4>3. CASE ~(pr(m + 1) > pr(i))
        <5>1. Some(m + 1, i)
          BY <3>1, <3>2, <3>3, <4>1, <4>3
        <5>2. i \in 1..m + 1
          OBVIOUS
        <5> HIDE DEF Some
        <5> QED BY <3>1, <5>1, <5>2
      <4> QED BY <4>2, <4>3
    <3> QED BY <2>2, <3>4, <3>5
  <2> HIDE DEF H
  <2> QED BY <1>3, <2>1, <2>2, Induct
<1>5. Len(ps) \in H
  <2>1. Len(ps) \in 0..Len(ps)
    BY <1>3
  <2> HIDE DEF H
  <2> QED BY <1>4, <2>1
<1>6. CASE None(Len(ps))
  BY <1>6 DEF BestProbe
<1>7. CASE \E i \in 1..Len(ps) : Some(Len(ps), i)
  <2>1. PICK i \in 1..Len(ps) : Some(Len(ps), i)
    BY <1>7
  <2>2. BestProbe(ps, s, c) = ps[i] /\ FirstBest(ps, s, c, Len(ps), i)
    BY <2>1 DEF BestProbe, FirstBest
  <2> QED BY <2>2
<1> QED BY <1>5, <1>6, <1>7
=============================================================================
