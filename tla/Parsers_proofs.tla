--------------------------- MODULE Parsers_proofs ---------------------------
(***************************************************************************)
(* For any set of ports, any number and order of registrations, and any    *)
(* input the bounds allow, of whatever size: the registry resolves as its  *)
(* reference says, the DNS parser reads the names as written, no other     *)
(* parser indexes outside its data, and the length-prefixed protocols,     *)
(* Redis and the line protocols give one event for each whole message,     *)
(* value and line.                                                         *)
(***************************************************************************)
EXTENDS MCParsers, FiniteSetTheorems, Detection_proofs

-----------------------------------------------------------------------------
(* The registry.                                                           *)

(* list holds the owners of q in the order of registration: at lists their *)
(* places in all.                                                          *)
Lists(at, list, q) ==
  /\ at \in [1..Len(list) -> 1..Len(all)]
  /\ \A i \in 1..Len(list) : list[i] = all[at[i]] /\ q \in Ports(all[at[i]])
  /\ \A i, j \in 1..Len(list) : i < j => at[i] < at[j]
  /\ \A k \in 1..Len(all) : q \in Ports(all[k]) => \E i \in 1..Len(list) : at[i] = k

(* The inductive invariant.                                                *)
RegistryInv ==
  /\ all \in Seq(Names) /\ byPort \in [PortSet -> Seq(Names)]
  /\ \A q \in PortSet : \E at : Lists(at, byPort[q], q)

LEMMA RegistryInit == Init => RegistryInv
<1> SUFFICES ASSUME Init, NEW q \in PortSet PROVE \E at : Lists(at, byPort[q], q)
  BY DEF Init, RegistryInv
<1>1. Lists(<<>>, byPort[q], q)
  BY DEF Init, Lists
<1> QED BY <1>1

LEMMA RegistryNext == RegistryInv /\ [Next]_vars => RegistryInv'
<1> SUFFICES ASSUME RegistryInv, [Next]_vars PROVE RegistryInv'
  OBVIOUS
<1>1. CASE UNCHANGED vars
  BY <1>1 DEF RegistryInv, Lists, vars
<1>2. ASSUME NEW p \in Registered, Register(p) PROVE RegistryInv'
  <2>1. p \in Names /\ all \in Seq(Names) /\ Len(all) \in Nat
    BY RegisteredAssumption DEF RegistryInv
  <2>2. /\ all' = Append(all, p) /\ all' \in Seq(Names) /\ Len(all') = Len(all) + 1
        /\ all'[Len(all) + 1] = p /\ \A k \in 1..Len(all) : all'[k] = all[k]
    BY <1>2, <2>1 DEF Register
  <2>3. byPort' \in [PortSet -> Seq(Names)]
    BY <1>2, <2>1 DEF Register, Indexed, RegistryInv
  <2>4. ASSUME NEW q \in PortSet PROVE \E at : Lists(at, byPort[q], q)'
    <3>1. PICK at : Lists(at, byPort[q], q)
      BY DEF RegistryInv
    <3> DEFINE l == byPort[q]
               m == Len(all) + 1
    <3>2. l \in Seq(Names) /\ Len(l) \in Nat
      BY DEF RegistryInv
    <3>3. CASE q \notin Ports(p)
      <4>1. byPort'[q] = l
        BY <1>2, <3>3 DEF Register, Indexed
      <4>2. Lists(at, byPort[q], q)'
        <5>1. at \in [1..Len(l) -> 1..m]
          BY <2>1, <3>1 DEF Lists
        <5>2. \A i \in 1..Len(l) : at[i] \in 1..Len(all)
          BY <3>1 DEF Lists
        <5>3. \A i \in 1..Len(l) : l[i] = all'[at[i]] /\ q \in Ports(all'[at[i]])
          BY <2>2, <3>1, <5>2 DEF Lists
        <5>4. \A k \in 1..m : q \in Ports(all'[k]) => \E i \in 1..Len(l) : at[i] = k
          <6>1. \A k \in 1..m : k = m \/ k \in 1..Len(all)
            BY <2>1
          <6> QED BY <2>2, <3>1, <3>3, <6>1 DEF Lists
        <5> QED BY <2>2, <3>1, <4>1, <5>1, <5>3, <5>4 DEF Lists
      <4> QED BY <4>2
    <3>4. CASE q \in Ports(p)
      <4> DEFINE n == Len(l)
      <4>0. PICK at2 : at2 = [i \in 1..n + 1 |-> IF i = n + 1 THEN m ELSE at[i]]
        OBVIOUS
      <4>1. /\ byPort'[q] = Append(l, p) /\ Len(byPort'[q]) = n + 1
            /\ byPort'[q][n + 1] = p /\ \A i \in 1..n : byPort'[q][i] = l[i]
        <5>1. byPort'[q] = Append(l, p)
          BY <1>2, <3>4 DEF Register, Indexed
        <5> QED BY <2>1, <3>2, <5>1
      <4>2. /\ at2[n + 1] = m /\ \A i \in 1..n : at2[i] = at[i] /\ at[i] \in 1..Len(all)
            /\ DOMAIN at2 = 1..n + 1
        BY <3>1, <3>2, <4>0 DEF Lists
      <4>3. \A i \in 1..n + 1 : i = n + 1 \/ i \in 1..n
        BY <3>2
      <4>4. at2 \in [1..n + 1 -> 1..m]
        BY <2>1, <3>1, <4>0 DEF Lists
      <4> HIDE DEF l
      <4>5. \A i \in 1..n + 1 : byPort'[q][i] = all'[at2[i]] /\ q \in Ports(all'[at2[i]])
        <5>1. \A i \in 1..n : l[i] = all[at[i]] /\ q \in Ports(all[at[i]])
          BY <3>1 DEF Lists, l
        <5>2. \A i \in 1..n : all'[at2[i]] = all[at[i]] /\ byPort'[q][i] = l[i]
          BY <2>2, <4>1, <4>2
        <5> QED BY <2>2, <3>4, <4>1, <4>2, <4>3, <5>1, <5>2
      <4>6. \A i, j \in 1..n + 1 : i < j => at2[i] < at2[j]
        <5> TAKE i, j \in 1..n + 1
        <5> HAVE i < j
        <5>1. i \in 1..n
          BY <3>2, <4>3
        <5>2. CASE j = n + 1
          BY <2>1, <4>2, <5>1, <5>2
        <5>3. CASE j \in 1..n
          BY <3>1, <4>2, <5>1, <5>3 DEF Lists, l
        <5> QED BY <4>3, <5>2, <5>3
      <4>7. \A k \in 1..m : q \in Ports(all'[k]) => \E i \in 1..n + 1 : at2[i] = k
        <5> SUFFICES ASSUME NEW k \in 1..m, q \in Ports(all'[k])
                     PROVE  \E i \in 1..n + 1 : at2[i] = k
          OBVIOUS
        <5>1. CASE k = m
          BY <3>2, <4>2, <5>1
        <5>2. CASE k \in 1..Len(all)
          <6>1. PICK i \in 1..n : at[i] = k
            BY <2>2, <3>1, <5>2 DEF Lists, l
          <6> QED BY <3>2, <4>2, <6>1
        <5> QED BY <2>1, <5>1, <5>2
      <4>8. Lists(at2, byPort[q], q)'
        BY <2>2, <4>1, <4>4, <4>5, <4>6, <4>7 DEF Lists
      <4> QED BY <4>8
    <3> QED BY <3>3, <3>4
  <2> QED BY <2>2, <2>3, <2>4 DEF RegistryInv
<1> QED BY <1>1, <1>2 DEF Next

Owners(q) == {i \in 1..Len(all) : q \in Ports(all[i])}

(* The k-th parser has the highest confidence among cand.                  *)
BestIn(cand, s, c, k) ==
  /\ Probe(all[k], s, c) > 0
  /\ \A j \in cand : Probe(all[j], s, c) <= Probe(all[k], s, c)

(* What bestProbe makes of the places cand.                                *)
Chosen(a, cand, s, c) ==
  \/ a = NoParser /\ \A k \in cand : Probe(all[k], s, c) = 0
  \/ \E k \in cand : a = all[k] /\ BestIn(cand, s, c, k)

(* The list of a port is as good as the set of its owners.                 *)
LEMMA ListOwners ==
  ASSUME RegistryInv, NEW q \in PortSet, NEW s \in Samples, NEW c \in BOOLEAN
  PROVE  /\ byPort[q] = <<>> <=> Owners(q) = {}
         /\ Len(byPort[q]) = 1 <=> \E k \in Owners(q) : Owners(q) = {k}
         /\ Len(byPort[q]) = 1 => \E k \in Owners(q) : byPort[q][1] = all[k]
         /\ Chosen(BestProbe(byPort[q], s, c), Owners(q), s, c)
<1>1. PICK at : Lists(at, byPort[q], q)
  BY DEF RegistryInv
<1> DEFINE l == byPort[q]
           n == Len(l)
<1>2. l \in Seq(Names) /\ n \in Nat /\ (l = <<>> <=> n = 0) /\ all \in Seq(Names)
  BY DEF RegistryInv
<1> HIDE DEF l
<1>3. \A i \in 1..n : at[i] \in Owners(q) /\ l[i] = all[at[i]]
  BY <1>1 DEF Lists, Owners, l
<1>4. \A k \in Owners(q) : \E i \in 1..n : at[i] = k
  BY <1>1 DEF Lists, Owners, l
<1>5. \A i, j \in 1..n : i < j => at[i] < at[j]
  BY <1>1 DEF Lists, l
<1>6. \A i \in 1..n : at[i] \in Nat
  BY <1>3 DEF Owners
<1>7. l = <<>> <=> Owners(q) = {}
  <2>1. n = 0 => Owners(q) = {}
    BY <1>4
  <2>2. n # 0 => 1 \in 1..n
    BY <1>2
  <2> QED BY <1>2, <1>3, <2>1, <2>2
<1>8. n = 1 => at[1] \in Owners(q) /\ l[1] = all[at[1]] /\ Owners(q) = {at[1]}
  <2> SUFFICES ASSUME n = 1 PROVE at[1] \in Owners(q) /\ l[1] = all[at[1]] /\ Owners(q) = {at[1]}
    OBVIOUS
  <2>1. 1..n = {1}
    BY <1>2
  <2> QED BY <1>3, <1>4, <2>1
<1>9. ASSUME NEW k \in Owners(q), Owners(q) = {k} PROVE n = 1
  <2>1. n # 0
    BY <1>2, <1>7
  <2>2. CASE n >= 2
    <3>1. 1 \in 1..n /\ 2 \in 1..n
      BY <1>2, <2>2
    <3>2. at[1] < at[2] /\ at[1] = k /\ at[2] = k
      BY <1>3, <1>5, <1>9, <3>1
    <3> QED BY <1>6, <3>1, <3>2
  <2>3. n = 1 \/ n >= 2
    <3> HIDE DEF n
    <3> QED BY <1>2, <2>1
  <2> QED BY <2>2, <2>3
<1>10. Chosen(BestProbe(l, s, c), Owners(q), s, c)
  <2>1. CASE BestProbe(l, s, c) = NoParser /\ \A j \in 1..n : Probe(l[j], s, c) = 0
    <3>1. \A k \in Owners(q) : Probe(all[k], s, c) = 0
      BY <1>3, <1>4, <2>1
    <3> QED BY <2>1, <3>1 DEF Chosen
  <2>2. CASE \E i \in 1..n : BestProbe(l, s, c) = l[i] /\ FirstBest(l, s, c, n, i)
    <3>1. PICK i \in 1..n : BestProbe(l, s, c) = l[i] /\ FirstBest(l, s, c, n, i)
      BY <2>2
    <3>2. ASSUME NEW k \in Owners(q)
          PROVE  Probe(all[k], s, c) <= Probe(all[at[i]], s, c)
      <4>1. PICK j \in 1..n : at[j] = k
        BY <1>4
      <4>2. l[i] = all[at[i]] /\ l[j] = all[k]
        BY <1>3, <4>1
      <4> QED BY <3>1, <4>2 DEF FirstBest
    <3>3. BestIn(Owners(q), s, c, at[i])
      BY <1>3, <3>1, <3>2 DEF BestIn, FirstBest
    <3> QED BY <1>3, <3>1, <3>3 DEF Chosen
  <2> QED BY <1>2, <2>1, <2>2, BestProbeFirst
<1> QED BY <1>7, <1>8, <1>9, <1>10 DEF l

LEMMA AllChosen ==
  ASSUME RegistryInv, NEW s \in Samples, NEW c \in BOOLEAN
  PROVE  Chosen(BestProbe(all, s, c), 1..Len(all), s, c)
<1>1. all \in Seq(Names)
  BY DEF RegistryInv
<1> QED BY <1>1, BestProbeFirst DEF Chosen, BestIn, FirstBest

LEMMA Confident == RegistryInv => BestConfidence
<1> SUFFICES ASSUME RegistryInv, NEW src \in PortSet, NEW dst \in PortSet, NEW s \in Samples,
                    NEW c \in BOOLEAN
             PROVE  LET owned == Owners(dst) \cup Owners(src) # {}
                        cand  == IF Owners(dst) # {} THEN Owners(dst)
                                 ELSE IF owned THEN Owners(src) ELSE 1..Len(all)
                        a     == Answer(src, dst, s, c)
                    IN  IF owned /\ \E i \in cand : cand = {i}
                        THEN \E i \in cand : a = all[i]
                        ELSE Chosen(a, cand, s, c)
  BY DEF BestConfidence, Owners, Chosen, BestIn
<1> DEFINE a == Answer(src, dst, s, c)
<1>1. CASE Owners(dst) # {}
  <2>1. a = IF Len(byPort[dst]) = 1 THEN byPort[dst][1] ELSE BestProbe(byPort[dst], s, c)
    BY <1>1, ListOwners DEF Answer, Resolve
  <2> HIDE DEF a
  <2>2. IF \E i \in Owners(dst) : Owners(dst) = {i}
        THEN \E i \in Owners(dst) : a = all[i]
        ELSE Chosen(a, Owners(dst), s, c)
    BY <2>1, ListOwners
  <2> QED BY <1>1, <2>2 DEF a
<1>2. CASE Owners(dst) = {} /\ Owners(src) # {}
  <2>1. a = IF Len(byPort[src]) = 1 THEN byPort[src][1] ELSE BestProbe(byPort[src], s, c)
    BY <1>2, ListOwners DEF Answer, Resolve
  <2> HIDE DEF a
  <2>2. IF \E i \in Owners(src) : Owners(src) = {i}
        THEN \E i \in Owners(src) : a = all[i]
        ELSE Chosen(a, Owners(src), s, c)
    BY <2>1, ListOwners
  <2> QED BY <1>2, <2>2 DEF a
<1>3. CASE Owners(dst) = {} /\ Owners(src) = {}
  <2>1. a = BestProbe(all, s, c)
    BY <1>3, ListOwners DEF Answer, Resolve
  <2> HIDE DEF a
  <2>2. Chosen(a, 1..Len(all), s, c)
    BY <2>1, AllChosen
  <2> QED BY <1>3, <2>2 DEF a
<1> QED BY <1>1, <1>2, <1>3

(* Where BestConfidence leaves the fallback, which owns no port.           *)
LEMMA FallbackChosen ==
  ASSUME RegistryInv, NEW src \in PortSet, NEW dst \in PortSet, NEW s \in Samples,
         NEW c \in BOOLEAN
  PROVE  /\ Answer(src, dst, s, c) = "unknown" => Owners(dst) = {} /\ Owners(src) = {}
         /\ Owners(dst) = {} /\ Owners(src) = {} =>
              Chosen(Answer(src, dst, s, c), 1..Len(all), s, c)
<1> DEFINE a == Answer(src, dst, s, c)
<1>1. ASSUME NEW q \in PortSet PROVE /\ Len(byPort[q]) = 1 => byPort[q][1] # "unknown"
                                     /\ BestProbe(byPort[q], s, c) # "unknown"
  <2>1. \A k \in Owners(q) : all[k] # "unknown"
    BY UnknownScores DEF Owners
  <2>2. NoParser # "unknown"
    BY NoParserAssumption DEF Names
  <2> QED BY <2>1, <2>2, ListOwners DEF Chosen
<1>2. CASE Owners(dst) = {} /\ Owners(src) = {}
  <2>1. a = BestProbe(all, s, c)
    BY <1>2, ListOwners DEF Answer, Resolve
  <2> QED BY <1>2, <2>1, AllChosen
<1>3. CASE Owners(dst) # {}
  <2>1. a = IF Len(byPort[dst]) = 1 THEN byPort[dst][1] ELSE BestProbe(byPort[dst], s, c)
    BY <1>3, ListOwners DEF Answer, Resolve
  <2> QED BY <1>1, <1>3, <2>1
<1>4. CASE Owners(dst) = {} /\ Owners(src) # {}
  <2>1. a = IF Len(byPort[src]) = 1 THEN byPort[src][1] ELSE BestProbe(byPort[src], s, c)
    BY <1>4, ListOwners DEF Answer, Resolve
  <2> QED BY <1>1, <1>4, <2>1
<1> QED BY <1>2, <1>3, <1>4

LEMMA OnlyLast == RegistryInv => FallbackLast
<1> SUFFICES ASSUME RegistryInv, NEW src \in PortSet, NEW dst \in PortSet, NEW s \in Samples,
                    NEW c \in BOOLEAN, Answer(src, dst, s, c) = "unknown",
                    NEW p \in Range(all) \ {"unknown"}
             PROVE  Probe(p, s, c) = 0
  BY DEF FallbackLast
<1>1. all \in Seq(Names)
  BY DEF RegistryInv
<1>2. PICK j \in 1..Len(all) : all[j] = p
  BY <1>1 DEF Range
<1>3. p \in Names \ {"unknown"}
  BY <1>1, <1>2
<1>4. Chosen("unknown", 1..Len(all), s, c)
  BY FallbackChosen
<1>5. PICK i \in 1..Len(all) : all[i] = "unknown" /\ BestIn(1..Len(all), s, c, i)
  BY <1>4, NoParserAssumption DEF Chosen, Names
<1>6. Probe(p, s, c) <= Probe("unknown", s, c)
  BY <1>2, <1>5 DEF BestIn
<1>7. Probe("unknown", s, c) \in {0, 1}
  BY UnknownScores
<1>8. Probe(p, s, c) \in Confidence
  BY <1>3, Scores
<1> QED BY <1>6, <1>7, <1>8, BelowAll

LEMMA Claimed == RegistryInv => NeverUnclaimed
<1> SUFFICES ASSUME RegistryInv, "unknown" \in Range(all), NEW src \in PortSet,
                    NEW dst \in PortSet, NEW s \in Samples \ {"empty"}, NEW c \in BOOLEAN,
                    \A p \in Range(all) : {src, dst} \cap Ports(p) = {}
             PROVE  Answer(src, dst, s, c) # NoParser
  BY DEF NeverUnclaimed
<1>1. all \in Seq(Names)
  BY DEF RegistryInv
<1>2. PICK u \in 1..Len(all) : all[u] = "unknown"
  BY <1>1 DEF Range
<1>3. \A i \in 1..Len(all) : all[i] \in Range(all) /\ all[i] \in Names
  BY <1>1 DEF Range
<1>4. Owners(dst) = {} /\ Owners(src) = {}
  BY <1>3 DEF Owners
<1>5. Chosen(Answer(src, dst, s, c), 1..Len(all), s, c)
  BY <1>4, FallbackChosen
<1>6. Probe(all[u], s, c) = 1
  BY <1>2, UnknownScores
<1>7. \E i \in 1..Len(all) : Answer(src, dst, s, c) = all[i]
  BY <1>5, <1>6 DEF Chosen
<1> QED BY <1>3, <1>7, NoParserAssumption

-----------------------------------------------------------------------------
(* The registry is built by its own specification whatever Parse does.     *)
LEMMA RegistryAlone == MCSpec => []RegistryInv
<1>1. MCInit => RegistryInv
  BY RegistryInit DEF MCInit
<1>2. RegistryInv /\ [MCNext]_<<vars, callVars>> => RegistryInv'
  <2>1. [MCNext]_<<vars, callVars>> => [Next]_vars
    BY DEF MCNext, ParseStep, vars
  <2> QED BY <2>1, RegistryNext
<1> QED BY <1>1, <1>2, PTL DEF MCSpec

(* registry.go:27-62, Resolve: at every point of any order of              *)
(* registrations the answer is the only candidate by port, or else has the *)
(* highest confidence of the candidates, whoever wins a tie.               *)
THEOREM ResolveBest == MCSpec => []BestConfidence
BY RegistryAlone, Confident, PTL

(* unknown/parser.go:20-21: the fallback gets a payload only if no other   *)
(* registered parser has any confidence in it.                             *)
THEOREM ResolveFallback == MCSpec => []FallbackLast
BY RegistryAlone, OnlyLast, PTL

(* Once the fallback is registered no payload between unowned ports is     *)
(* without a parser.                                                       *)
THEOREM ResolveClaimed == MCSpec => []NeverUnclaimed
BY RegistryAlone, Claimed, PTL

-----------------------------------------------------------------------------
(* No index or slice of a parser is outside of its data.                   *)

(* The inductive invariant, for each of the three parsers that check.      *)
DnsLocals ==
  [offset : Nat, qd : Int, an : Int, cur : Int, visited : SUBSET Nat, newOffset : Int,
   rdata : Nat, end : Int, start : Int,
   at : {"section", "question", "answer", "alias", "mx", "rdata", "txt"}]

DnsInside ==
  call.parser = "dns" =>
    /\ call.data \in Seq(Nat) /\ local \in DnsLocals
    /\ local.at \in {"question", "answer", "mx", "txt"} => local.cur >= 0
    /\ local.at \in {"rdata", "txt"} => local.end <= Len(call.data)

FramingInside ==
  call.parser \in Framed =>
    /\ local \in [pos : Int, loop : BOOLEAN] /\ call.to \in Int
    /\ Len(call.stream) \in Nat /\ \A i \in 1..Len(call.stream) : call.stream[i].size \in Nat

HelloInside ==
  call.parser = "tls" =>
    /\ call.data \in Seq(Nat)
    /\ local \in [at : {"record", "sid", "suites", "compression", "extensions", "loop"},
                  hs : Seq(Nat), off : Nat, end : Int]
    /\ local.at = "loop" => local.end <= Len(local.hs)

(* The Redis parser is treated below.                                      *)
OutsideRedis ==
  status = "panic" => call.parser = "redis" \/ (call.parser = "dns" /\ local.at = "alias")

Inside3 == DnsInside /\ FramingInside /\ HelloInside /\ OutsideRedis

(* The parsers are told apart by their names.                              *)
LEMMA Apart ==
  /\ Framed \cap {"none", "dns", "tls", "redis", "smtp", "ftp", "imap", "pop3"} = {}
  /\ LineParsers \cap {"none", "dns", "tls", "redis"} = {}
BY FramingAssumption DEF LineParsers

LEMMA DnsInsideNext ==
  ASSUME Inside3, DnsNext
  PROVE  Inside3'
<1>1. call' = call /\ call.parser = "dns" /\ status = "run" /\ call.parser \notin Framed
      /\ call.parser # "tls"
  BY Apart DEF DnsNext, Section, NameStep, FormatRData, TxtStep, InName, Running, Return, NameFails,
     NameEnds, Follow, Label, Panic, DecodeName
<1>2. /\ call.data \in Seq(Nat) /\ Size \in Nat
      /\ local \in DnsLocals
      /\ local.at \in {"question", "answer", "mx", "txt"} => local.cur >= 0
      /\ local.at \in {"rdata", "txt"} => local.end <= Size
  BY <1>1 DEF Inside3, DnsInside, Size, Data
<1>3. \A i \in Int : Inside(i) => At(i) \in Nat
  BY <1>2 DEF Inside, At, Size, Data
<1>4. ASSUME status' # "panic" \/ local'.at = "alias", DnsInside' PROVE Inside3'
  BY <1>1, <1>4 DEF Inside3, FramingInside, HelloInside, OutsideRedis
<1>5. ASSUME NEW r, r # "panic", Return(r) PROVE Inside3'
  BY <1>1, <1>4, <1>5 DEF Return, Inside3, DnsInside
<1>6. ASSUME status' = status, DnsInside' PROVE Inside3'
  BY <1>1, <1>4, <1>6
<1>7. ASSUME NEW x \in Int, NEW for \in {"question", "answer", "alias", "mx"}, x >= 0 \/ for = "alias",
             DecodeName(x, for, local)
      PROVE  DnsInside'
  <2>1. local' \in DnsLocals
    <3>1. \A y \in Int : [local EXCEPT !.at = for, !.cur = x, !.visited = {}, !.newOffset = y,
                                       !.start = x] \in DnsLocals
      BY <1>2, <1>7 DEF DnsLocals
    <3>2. -1 \in Int
      OBVIOUS
    <3> QED BY <1>7, <3>1, <3>2, Zenon DEF DecodeName
  <2>2. local'.cur = x /\ local'.at = for
    BY <1>2, <1>7 DEF DecodeName, DnsLocals
  <2> QED BY <1>1, <1>2, <1>7, <2>1, <2>2 DEF DnsInside
<1>8. ASSUME local' = [local EXCEPT !.at = "section"]
      PROVE  DnsInside'
  <2>1. local' \in DnsLocals /\ local'.at = "section"
    BY <1>2, <1>8 DEF DnsLocals
  <2> QED BY <1>1, <1>2, <2>1 DEF DnsInside
<1>9. CASE Section
  <2>1. local.offset \in Nat
    BY <1>2 DEF DnsLocals
  <2>2. CASE DecodeName(local.offset, "question", local) /\ UNCHANGED <<call, out, status>>
    BY <1>6, <1>7, <2>1, <2>2
  <2>3. CASE DecodeName(local.offset, "answer", local) /\ UNCHANGED <<call, out, status>>
    BY <1>6, <1>7, <2>1, <2>3
  <2> QED BY <1>5, <1>9, <2>2, <2>3 DEF Section
<1>10. ASSUME NameFails PROVE Inside3'
  BY <1>5, <1>6, <1>8, <1>10 DEF NameFails
<1>11. ASSUME NEW n \in Nat, NameEnds(n) PROVE Inside3'
  <2>1. status' # "panic"
    BY <1>1, <1>11 DEF NameEnds
  <2>2. CASE local' = local
    BY <1>1, <1>2, <1>4, <2>1, <2>2 DEF DnsInside, Size, Data
  <2>3. CASE local' = [local EXCEPT !.at = "section"]
    BY <1>4, <1>8, <2>1, <2>3
  <2>4. CASE local' = [local EXCEPT !.offset = n, !.at = "section", !.offset = n + QuestionFixed,
                                    !.qd = @ - 1]
    <3>0. QuestionFixed \in Nat /\ local.qd \in Int
      BY <1>2, DnsAssumption DEF DnsLocals
    <3>1. n + QuestionFixed \in Nat /\ local.qd - 1 \in Int
      BY <3>0
    <3>2. local' \in DnsLocals /\ local'.at = "section"
      <4>1. \A x \in Nat, y \in Int : [local EXCEPT !.offset = n, !.at = "section", !.offset = x,
                                                    !.qd = y] \in DnsLocals
        BY <1>2 DEF DnsLocals
      <4>2. local' \in DnsLocals
        BY <2>4, <3>1, <4>1
      <4>3. local'.at = "section"
        BY <1>2, <2>4 DEF DnsLocals
      <4> QED BY <4>2, <4>3
    <3> QED BY <1>1, <1>2, <1>4, <2>1, <3>2 DEF DnsInside
  <2>5. ASSUME NEW rd, NEW e, rd = n + AnswerFixed, e = rd + At(rd - 1), ~(rd > Size), ~(e > Size),
               local' = [local EXCEPT !.offset = n, !.at = "rdata", !.rdata = rd, !.end = e,
                                      !.offset = e, !.an = @ - 1]
        PROVE  Inside3'
    <3>1. rd \in Nat /\ rd - 1 \in Nat /\ rd - 1 < Size
      <4>1. AnswerFixed \in Nat /\ AnswerFixed > 0 /\ Size \in Nat
        BY <1>2, DnsAssumption
      <4> QED BY <2>5, <4>1
    <3>2. e \in Nat
      BY <1>3, <2>5, <3>1 DEF Inside
    <3>3. local' \in DnsLocals /\ local'.at = "rdata" /\ local'.end = e
      <4>1. \A y \in Int : [local EXCEPT !.offset = n, !.at = "rdata", !.rdata = rd, !.end = e,
                                         !.offset = e, !.an = y] \in DnsLocals
        <5>1. \A x, z \in Nat, y \in Int :
                [local EXCEPT !.offset = n, !.at = "rdata", !.rdata = x, !.end = z,
                              !.offset = z, !.an = y] \in DnsLocals
          <6>1. [local EXCEPT !.offset = n] \in DnsLocals
            BY <1>2 DEF DnsLocals
          <6>2. ASSUME NEW l \in DnsLocals, NEW x \in Nat, NEW z \in Nat, NEW y \in Int
                PROVE  [l EXCEPT !.at = "rdata", !.rdata = x, !.end = z, !.offset = z, !.an = y]
                         \in DnsLocals
            <7>1. z \in Int
              OBVIOUS
            <7> QED BY <7>1 DEF DnsLocals
          <6> QED BY <6>1, <6>2
        <5> QED BY <3>1, <3>2, <5>1
      <4>2. local.an - 1 \in Int
        BY <1>2 DEF DnsLocals
      <4>3. local' \in DnsLocals
        BY <2>5, <4>1, <4>2
      <4>4. local'.at = "rdata" /\ local'.end = e
        BY <1>2, <2>5, <3>1, <3>2 DEF DnsLocals
      <4> QED BY <4>3, <4>4
    <3>4. e <= Size
      BY <1>2, <2>5, <3>2
    <3> QED BY <1>1, <1>2, <1>4, <2>1, <3>3, <3>4 DEF DnsInside, Size, Data
  <2>6. CASE local.at = "question"
    BY <1>11, <2>2, <2>4, <2>6 DEF NameEnds
  <2>7. CASE local.at = "answer"
    <3> DEFINE rd == n + AnswerFixed
               e  == rd + At(rd - 1)
    <3>1. CASE rd > Size \/ e > Size
      BY <1>11, <2>2, <2>7, <3>1 DEF NameEnds
    <3>2. CASE ~(rd > Size \/ e > Size)
      <4>1. local' = [local EXCEPT !.offset = n, !.at = "rdata", !.rdata = rd, !.end = e,
                                      !.offset = e, !.an = @ - 1]
        BY <1>11, <2>7, <3>2 DEF NameEnds
      <4> QED BY <2>5, <3>2, <4>1
    <3> QED BY <3>1, <3>2
  <2>8. CASE local.at \notin {"question", "answer"}
    BY <1>11, <2>3, <2>8 DEF NameEnds
  <2> QED BY <2>6, <2>7, <2>8
<1>12. ASSUME Panic, local.at = "alias" PROVE Inside3'
  BY <1>1, <1>2, <1>4, <1>12 DEF Panic, Return, DnsInside, Size, Data
<1>13. ASSUME NEW x \in Nat, NEW v \in SUBSET Nat, NEW o \in Int,
              local' = [local EXCEPT !.cur = x, !.visited = v, !.newOffset = o]
       PROVE  DnsInside'
  <2>0. x \in Int
    OBVIOUS
  <2>1. local' \in DnsLocals
    BY <1>2, <1>13, <2>0 DEF DnsLocals
  <2>2. local'.cur = x /\ local'.at = local.at /\ local'.end = local.end
    BY <1>2, <1>13 DEF DnsLocals
  <2> QED BY <1>1, <1>2, <2>1, <2>2 DEF DnsInside, Size, Data
<1>14. ASSUME NEW x \in Nat, local' = [local EXCEPT !.cur = x] PROVE DnsInside'
  <2>1. local' = [local EXCEPT !.cur = x, !.visited = local.visited, !.newOffset = local.newOffset]
    BY <1>2, <1>14 DEF DnsLocals
  <2>2. local.visited \in SUBSET Nat /\ local.newOffset \in Int
    BY <1>2 DEF DnsLocals
  <2> QED BY <1>13, <2>1, <2>2
<1>15. CASE NameStep
  <2>1. local.cur \in Int /\ local.at \in {"question", "answer", "alias", "mx"}
        /\ local.visited \in SUBSET Nat /\ local.newOffset \in Int
    BY <1>2, <1>15 DEF DnsLocals, NameStep, InName
  <2>2. local.at = "alias" \/ local.cur \in Nat
    BY <1>2, <2>1
  <2>3. CASE local.cur >= Size
    BY <1>10, <1>15, <2>3 DEF NameStep
  <2>4. CASE ~(local.cur >= Size) /\ ~Inside(local.cur)
    <3>1. Panic
      BY <1>15, <2>4 DEF NameStep
    <3>2. local.at = "alias"
      BY <1>2, <2>1, <2>2, <2>4 DEF Inside
    <3> QED BY <1>12, <3>1, <3>2
  <2>5. CASE Inside(local.cur)
    <3>1. local.cur \in Nat /\ At(local.cur) \in Nat /\ ~(local.cur >= Size)
      BY <1>2, <1>3, <2>1, <2>5 DEF Inside
    <3>2. CASE At(local.cur) = 0
      <4>1. NameEnds(IF local.newOffset < 0 THEN local.cur + 1 ELSE local.newOffset)
        BY <1>15, <2>5, <3>1, <3>2, DnsAssumption DEF NameStep
      <4>2. (IF local.newOffset < 0 THEN local.cur + 1 ELSE local.newOffset) \in Nat
        BY <2>1, <3>1
      <4> QED BY <1>11, <4>1, <4>2
    <3>3. CASE Follow
      <4>1. CASE PointerCut
        BY <1>10, <3>3, <4>1 DEF Follow
      <4>2. CASE ~PointerCut
        <5>1. Inside(local.cur + 1) /\ At(local.cur + 1) \in Nat
          BY <1>2, <1>3, <3>1, <4>2 DEF PointerCut, Inside
        <5>2. CASE Looped(At(local.cur + 1))
          BY <1>10, <3>3, <4>2, <5>1, <5>2 DEF Follow
        <5>3. CASE ~Looped(At(local.cur + 1))
          <6> DEFINE ptr == At(local.cur + 1)
                     o   == IF local.newOffset < 0 THEN local.cur + 2 ELSE local.newOffset
          <6>1. /\ local' = [local EXCEPT !.cur = ptr, !.visited = @ \cup {ptr},
                                          !.newOffset = IF @ < 0 THEN local.cur + 2 ELSE @]
                /\ status' = status
            BY <3>3, <4>2, <5>1, <5>3 DEF Follow
          <6>2. local' = [local EXCEPT !.cur = ptr, !.visited = local.visited \cup {ptr},
                                       !.newOffset = o]
            BY <6>1
          <6>3. ptr \in Nat /\ local.visited \cup {ptr} \in SUBSET Nat /\ o \in Int
            BY <2>1, <3>1, <5>1
          <6> HIDE DEF ptr, o
          <6> QED BY <1>6, <1>13, <6>1, <6>2, <6>3
        <5> QED BY <5>2, <5>3
      <4> QED BY <4>1, <4>2
    <3>4. CASE Label
      <4>1. local.cur + 1 + At(local.cur) \in Nat
        BY <3>1
      <4> QED BY <1>6, <1>10, <1>14, <3>4, <4>1 DEF Label
    <3> QED BY <1>15, <2>5, <3>1, <3>2, <3>3, <3>4 DEF NameStep
  <2> QED BY <2>3, <2>4, <2>5
<1>16. CASE FormatRData
  <2>1. status' = status /\ local.rdata \in Nat /\ local.rdata + PrefSize \in Nat
        /\ local.at = "rdata" /\ local.end <= Size /\ local.end \in Int
    <3>1. PrefSize \in Nat /\ local.rdata \in Nat /\ local.at = "rdata" /\ local.end \in Int
      BY <1>2, <1>16, DnsAssumption DEF FormatRData, DnsLocals
    <3> QED BY <1>2, <1>16, <3>1 DEF FormatRData
  <2>2. CASE DecodeName(-1, "alias", local)
    <3>1. -1 \in Int
      OBVIOUS
    <3> QED BY <1>6, <1>7, <2>1, <2>2, <3>1
  <2>3. CASE DecodeName(local.rdata + PrefSize, "mx", local)
    BY <1>6, <1>7, <2>1, <2>3
  <2>4. CASE local' = [local EXCEPT !.at = "txt", !.cur = local.rdata]
    <3>0. local.rdata \in Int
      BY <2>1
    <3>1. local' \in DnsLocals
      BY <1>2, <2>1, <2>4, <3>0 DEF DnsLocals
    <3>2. local'.cur = local.rdata /\ local'.at = "txt" /\ local'.end = local.end
      BY <1>2, <2>1, <2>4 DEF DnsLocals
    <3>3. DnsInside'
      BY <1>1, <1>2, <2>1, <3>1, <3>2 DEF DnsInside, Size, Data
    <3> QED BY <1>6, <2>1, <3>3
  <2>5. CASE local' = [local EXCEPT !.at = "section"]
    BY <1>6, <1>8, <2>1, <2>5
  <2> QED BY <1>16, <2>2, <2>3, <2>4, <2>5 DEF FormatRData
<1>17. CASE TxtStep
  <2>1. local.at = "txt" /\ local.cur \in Nat /\ local.end <= Size /\ local.end \in Int
    BY <1>2, <1>17 DEF TxtStep, DnsLocals
  <2>2. CASE local.cur >= local.end
    BY <1>6, <1>8, <1>17, <2>2 DEF TxtStep
  <2>3. CASE ~(local.cur >= local.end)
    <3>1. Inside(local.cur) /\ At(local.cur) \in Nat
      BY <1>2, <1>3, <2>1, <2>3 DEF Inside
    <3>2. /\ local' = [local EXCEPT !.at = "section"] \/ local' = [local EXCEPT !.cur = local.cur + 1 + At(local.cur)]
          /\ status' = status
      BY <1>17, <2>3, <3>1 DEF TxtStep
    <3>3. local.cur + 1 + At(local.cur) \in Nat
      BY <2>1, <3>1
    <3> QED BY <1>6, <1>8, <1>14, <3>2, <3>3
  <2> QED BY <2>2, <2>3
<1> QED BY <1>9, <1>15, <1>16, <1>17 DEF DnsNext

(* The message at a place is one of the stream, or none.                   *)
LEMMA MessageAtRange ==
  ASSUME NEW n, Len(call.stream) \in Nat
  PROVE  MessageAt(n) \in 0..Len(call.stream)
<1> DEFINE at == {i \in 1..Len(call.stream) : StartOf(call.stream, i) = n}
<1>1. CASE at = {}
  BY <1>1 DEF MessageAt
<1>2. CASE at # {}
  <2>1. (CHOOSE i \in at : TRUE) \in at
    BY <1>2
  <2> QED BY <1>2, <2>1 DEF MessageAt
<1> QED BY <1>1, <1>2

LEMMA FramingLeast ==
  ASSUME NEW p \in Framed
  PROVE  Frames[p].least = IF p = "mysql" THEN Header + 1 ELSE Header
<1>1. p \in {"mysql", "postgres", "mongodb", "mqtt"}
  BY FramingAssumption
<1>2. CASE p = "mysql"
  BY <1>2 DEF Frames, MysqlFrames
<1>3. CASE p = "postgres"
  BY <1>3 DEF Frames, PostgresFrames
<1>4. CASE p = "mongodb"
  BY <1>4 DEF Frames, MongodbFrames
<1>5. CASE p = "mqtt"
  BY <1>5 DEF Frames, MqttFrames
<1> QED BY <1>1, <1>2, <1>3, <1>4, <1>5

LEMMA FramingInsideNext ==
  ASSUME Inside3, FramingNext
  PROVE  Inside3'
<1>1. call' = call /\ call.parser \in Framed /\ status = "run"
  BY DEF FramingNext, Enter, FrameStep, Framing, Running, Return, Panic
<1>2. call.parser # "dns" /\ call.parser # "tls"
  BY <1>1, Apart
<1>3. /\ local \in [pos : Int, loop : BOOLEAN] /\ call.to \in Int /\ Len(call.stream) \in Nat
      /\ \A i \in 1..Len(call.stream) : call.stream[i].size \in Nat
  BY <1>1 DEF Inside3, FramingInside
<1>4. ASSUME status' # "panic", local' \in [pos : Int, loop : BOOLEAN] PROVE Inside3'
  BY <1>1, <1>2, <1>3, <1>4 DEF Inside3, DnsInside, HelloInside, OutsideRedis, FramingInside
<1>5. \A n \in Int : MessageAt(n) \in 0..Len(call.stream)
  BY <1>3, MessageAtRange
<1>6. \A n \in Int : MessageAt(n) # 0 => call.stream[MessageAt(n)].size \in Nat
  <2>1. \A m \in 0..Len(call.stream) : m # 0 => call.stream[m].size \in Nat
    BY <1>3
  <2> QED BY <1>5, <2>1
<1>7. CASE Enter
  <2>1. Skipped(local.pos) \subseteq Int
    <3>1. local.pos \in Int
      BY <1>3
    <3>2. MessageAt(local.pos) # 0 => local.pos + call.stream[MessageAt(local.pos)].size \in Int
      BY <1>6, <3>1
    <3> QED BY <1>3, <3>1, <3>2 DEF Skipped
  <2> QED BY <1>1, <1>4, <1>7, <2>1 DEF Enter
<1>8. CASE FrameStep
  <2> DEFINE rest == call.to - local.pos
  <2>1. rest \in Int /\ local.pos \in Int
    BY <1>3
  <2>2. CASE Return("ok")
    BY <1>3, <1>4, <2>2 DEF Return
  <2>3. ASSUME NEW total \in Declared(local.pos), Fits(total, rest)
        PROVE  total \in Nat /\ ~(total < Header \/ total > rest)
    <3>1. total \in Nat
      <4>1. CASE Tagged(MessageAt(local.pos))
        BY <1>6, <2>1, <2>3, <4>1 DEF Declared, Tagged
      <4>2. CASE ~Tagged(MessageAt(local.pos))
        BY <2>3, <4>2 DEF Declared
      <4> QED BY <4>1, <4>2
    <3>2. Frames[call.parser].least \in {Header, Header + 1}
      BY <1>1, FramingLeast
    <3> QED BY <2>1, <2>3, <3>1, <3>2, FramingAssumption DEF Fits
  <2>4. ASSUME NEW total \in Nat, local' = [local EXCEPT !.pos = @ + total], status' = status
        PROVE  Inside3'
    BY <1>1, <1>3, <1>4, <2>4
  <2> QED BY <1>8, <2>2, <2>3, <2>4 DEF FrameStep
<1> QED BY <1>7, <1>8 DEF FramingNext

-----------------------------------------------------------------------------
(* Sequences of numbers.                                                   *)

LEMMA SliceType ==
  ASSUME NEW s \in Seq(Nat), NEW i \in Nat, NEW n \in Nat
  PROVE  Slice(s, i, n) \in Seq(Nat)
<1>1. Shortest(i + n, Len(s)) \in Int /\ Shortest(i + n, Len(s)) <= Len(s) /\ i + 1 \in Int
  BY DEF Shortest
<1>2. \A j \in i + 1..Shortest(i + n, Len(s)) : s[j] \in Nat
  BY <1>1
<1> QED BY <1>1, <1>2, SubSeqProperties DEF Slice

LEMMA HelloInsideNext ==
  ASSUME Inside3, HelloNext
  PROVE  Inside3'
<1>1. call' = call /\ call.parser = "tls" /\ status = "run"
  BY DEF HelloNext, Record, Vector, CipherSuites, ExtensionLength, Extension, Running, Return, Panic
<1>2. call.parser # "dns" /\ call.parser \notin Framed
  BY <1>1, Apart
<1> DEFINE Locals == [at : {"record", "sid", "suites", "compression", "extensions", "loop"},
                      hs : Seq(Nat), off : Nat, end : Int]
<1>3. /\ call.data \in Seq(Nat) /\ local \in Locals /\ Length \in Nat
      /\ local.at = "loop" => local.end <= Length
  BY <1>1 DEF Inside3, HelloInside, Length
<1>4. ASSUME status' # "panic", local' \in Locals,
             local'.at = "loop" => local'.end <= Len(local'.hs)
      PROVE  Inside3'
  BY <1>1, <1>2, <1>3, <1>4 DEF Inside3, DnsInside, FramingInside, OutsideRedis, HelloInside
<1>5. ASSUME NEW r, r # "panic", Return(r) PROVE Inside3'
  BY <1>3, <1>4, <1>5 DEF Return, Length
<1>6. /\ local.off \in Nat /\ local.hs \in Seq(Nat) /\ local.end \in Int
      /\ \A i \in Nat : i < Length => U(i) \in Nat
  BY <1>3 DEF U, Length
<1>7. CASE Record
  <2> DEFINE payload == Slice(call.data, 2, call.data[2])
             hs      == Slice(payload, 2, payload[2])
  <2>1. CASE Return("err") \/ Return("ok")
    BY <1>5, <2>1
  <2>2. CASE ~(Return("err") \/ Return("ok"))
    <3>1. Len(call.data) >= 2 /\ Len(payload) >= 2
      BY <1>3, <1>7, <2>2 DEF Record
    <3>2. payload \in Seq(Nat)
      <4>1. call.data[2] \in Nat
        BY <1>3, <3>1
      <4> QED BY <1>3, <4>1, SliceType
    <3>3. hs \in Seq(Nat)
      <4> HIDE DEF payload
      <4>1. payload[2] \in Nat
        BY <3>1, <3>2
      <4> QED BY <3>2, <4>1, SliceType
    <3>4. local' = [local EXCEPT !.at = "sid", !.hs = hs, !.off = 1] /\ status' = status
      BY <1>7, <2>2 DEF Record
    <3> HIDE DEF hs
    <3> QED BY <1>1, <1>3, <1>4, <3>3, <3>4
  <2> QED BY <2>1, <2>2
<1>8. ASSUME NEW next \in {"suites", "compression", "extensions"}, local.off < Length,
             local' = [local EXCEPT !.at = next, !.off = @ + 1 + U(@)], status' = status
      PROVE  Inside3'
  <2>1. local.off + 1 + U(local.off) \in Nat
    BY <1>6, <1>8
  <2>2. local' \in Locals /\ local'.at # "loop"
    BY <1>3, <1>8, <2>1
  <2> QED BY <1>1, <1>4, <1>8, <2>2
<1>9. CASE Vector("sid", "suites") \/ Vector("compression", "extensions")
  BY <1>3, <1>5, <1>6, <1>8, <1>9 DEF Vector
<1>10. CASE CipherSuites
  BY <1>3, <1>5, <1>6, <1>8, <1>10 DEF CipherSuites
<1>11. CASE ExtensionLength
  <2>1. CASE local.off >= Length
    BY <1>5, <1>11, <2>1 DEF ExtensionLength
  <2>2. CASE ~(local.off >= Length)
    <3> DEFINE e == Shortest(local.off + 1 + U(local.off), Length)
    <3>1. e \in Int /\ e <= Length
      BY <1>3, <1>6, <2>2 DEF Shortest
    <3>2. local' = [local EXCEPT !.at = "loop", !.off = @ + 1, !.end = e] /\ status' = status
      BY <1>11, <2>2 DEF ExtensionLength
    <3> HIDE DEF e
    <3>3. local' \in Locals /\ local'.end = e /\ local'.hs = local.hs
      <4>1. local.off + 1 \in Nat
        BY <1>6
      <4> QED BY <1>3, <3>1, <3>2, <4>1
    <3> QED BY <1>1, <1>4, <3>1, <3>2, <3>3 DEF Length
  <2> QED BY <2>1, <2>2
<1>12. CASE Extension
  <2>1. CASE local.off + 2 > local.end
    BY <1>5, <1>12, <2>1 DEF Extension
  <2>2. CASE ~(local.off + 2 > local.end)
    <3>1. local.off + 1 < Length /\ local.at = "loop"
      BY <1>3, <1>6, <1>12, <2>2 DEF Extension
    <3>2. local.off + 2 + U(local.off + 1) \in Nat
      BY <1>6, <3>1
    <3>3. local' = [local EXCEPT !.off = @ + 2 + U(@ + 1)] /\ status' = status
      BY <1>3, <1>6, <1>12, <2>2, <3>1 DEF Extension
    <3>4. local' \in Locals /\ local'.end = local.end /\ local'.hs = local.hs
      BY <1>3, <3>2, <3>3
    <3> QED BY <1>1, <1>3, <1>4, <3>1, <3>3, <3>4 DEF Length
  <2> QED BY <2>1, <2>2
<1> QED BY <1>7, <1>9, <1>10, <1>11, <1>12 DEF HelloNext

(* FlattenSeq joins the sequences one by one.                              *)
LEMMA FlattenLoop ==
  ASSUME NEW S, NEW ss \in Seq(Seq(S)), Len(ss) # 0
  PROVE  \E h \in [1..Len(ss) -> Seq(S)] :
           /\ FlattenSeq(ss) = h[Len(ss)] /\ h[1] = ss[1]
           /\ \A i \in 1..Len(ss) : i # 1 => h[i] = h[i - 1] \o ss[i]
<1> DEFINE n == Len(ss)
           G == [x \in (1..n) \X Seq(S) |-> x[2] \o ss[x[1]]]
           Eq(f) == f = [i \in 1..n |-> IF i = 1 THEN ss[i] ELSE f[i - 1] \o ss[i]]
<1>1. n \in Nat /\ n >= 1 /\ \A i \in 1..n : ss[i] \in Seq(S)
  OBVIOUS
<1>2. <<>> \in Seq(S) /\ \A x, y \in Seq(S) : x \o y \in Seq(S)
  OBVIOUS
<1>3. \A y \in Seq(S) : <<>> \o y = y
  BY ConcatEmptySeq
<1>4. G \in [(1..n) \X Seq(S) -> Seq(S)]
  <2> HIDE DEF n
  <2> QED BY <1>1, <1>2
<1>5. \A i \in 1..n, x \in Seq(S) : G[<<i, x>>] = x \o ss[i]
  OBVIOUS
<1> HIDE DEF G, n
<1>6. PICK f \in [0..n -> Seq(S)] : Recurs(f, n, <<>>, G)
  BY <1>1, <1>2, <1>4, Recursion
<1> DEFINE g == [i \in 1..n |-> f[i]]
<1>7. \A i \in 1..n : i - 1 \in 0..n /\ f[i - 1] \in Seq(S) /\ f[i] = f[i - 1] \o ss[i]
  <2> TAKE i \in 1..n
  <2>1. i - 1 \in 0..n
    BY <1>1
  <2> QED BY <1>5, <1>6, <2>1 DEF Recurs
<1>8. Eq(g)
  <2>1. \A i \in 1..n : g[i] = IF i = 1 THEN ss[i] ELSE g[i - 1] \o ss[i]
    <3> TAKE i \in 1..n
    <3>1. CASE i = 1
      <4>1. f[1 - 1] = <<>>
        BY <1>6 DEF Recurs
      <4> QED BY <1>1, <1>3, <1>7, <3>1, <4>1
    <3>2. CASE i # 1
      <4>1. i - 1 \in 1..n
        BY <1>1, <3>2
      <4> QED BY <1>7, <3>2, <4>1
    <3> QED BY <3>1, <3>2
  <2> QED BY <2>1
<1> DEFINE h == CHOOSE k : Eq(k)
<1>9. FlattenSeq(ss) = h[n]
  BY DEF FlattenSeq, n
<1>10. Eq(h)
  BY <1>8
<1> HIDE DEF h
<1>11. h[1] = ss[1] /\ \A i \in 1..n : i # 1 => h[i] = h[i - 1] \o ss[i]
  <2>1. \A i \in 1..n : h[i] = IF i = 1 THEN ss[i] ELSE h[i - 1] \o ss[i]
    BY <1>10
  <2>2. 1 \in 1..n
    BY <1>1
  <2> QED BY <2>1, <2>2
<1> DEFINE H == {i \in 0..n : i = 0 \/ h[i] \in Seq(S)}
<1>12. 0..n \subseteq H
  <2>1. 0 \in H
    BY <1>1
  <2>2. ASSUME NEW i \in 0..n, i + 1 <= n, i \in H PROVE i + 1 \in H
    <3>1. i + 1 \in 1..n /\ (i + 1) - 1 = i /\ i + 1 \in 0..n
      BY <1>1, <2>2
    <3>2. CASE i = 0
      BY <1>1, <1>11, <3>1, <3>2
    <3>3. CASE i # 0
      <4>1. h[i] \in Seq(S) /\ i + 1 # 1
        BY <1>1, <2>2, <3>3
      <4>2. h[i + 1] = h[i] \o ss[i + 1]
        BY <1>11, <3>1, <4>1
      <4>3. h[i + 1] \in Seq(S)
        BY <1>1, <1>2, <3>1, <4>1, <4>2
      <4> QED BY <3>1, <4>3
    <3> QED BY <3>2, <3>3
  <2> HIDE DEF H
  <2> QED BY <1>1, <2>1, <2>2, Induct
<1>13. h \in [1..n -> Seq(S)]
  <2>1. \A i \in 1..n : i \in 0..n /\ i # 0
    BY <1>1
  <2>2. \A i \in 1..n : h[i] \in Seq(S)
    BY <1>12, <2>1
  <2>3. h = [i \in 1..n |-> h[i]]
    BY <1>10
  <2> QED BY <2>2, <2>3
<1> QED BY <1>9, <1>11, <1>13 DEF n

LEMMA FlattenType ==
  ASSUME NEW S, NEW ss \in Seq(Seq(S))
  PROVE  FlattenSeq(ss) \in Seq(S)
<1>1. CASE Len(ss) = 0
  <2>1. ss = <<>>
    BY <1>1
  <2> QED BY <1>1, <2>1 DEF FlattenSeq
<1>2. CASE Len(ss) # 0
  <2>1. Len(ss) \in 1..Len(ss)
    BY <1>2
  <2>2. PICK h \in [1..Len(ss) -> Seq(S)] : FlattenSeq(ss) = h[Len(ss)]
    BY <1>2, FlattenLoop
  <2> QED BY <2>1, <2>2
<1> QED BY <1>1, <1>2

LEMMA PrefixType ==
  ASSUME NEW s \in Seq(Nat), NEW n \in Int, n <= Len(s)
  PROVE  SubSeq(s, 1, n) \in Seq(Nat)
<1>1. \A i \in 1..n : s[i] \in Nat
  OBVIOUS
<1> QED BY <1>1, SubSeqProperties

LEMMA ConcatType ==
  ASSUME NEW s \in Seq(Nat), NEW t \in Seq(Nat)
  PROVE  s \o t \in Seq(Nat)
OBVIOUS

LEMMA PrefixedType ==
  ASSUME NEW s \in Seq(Nat)
  PROVE  Prefixed(s) \in Seq(Nat)
<1>1. <<Len(s)>> \in Seq(Nat)
  OBVIOUS
<1> QED BY <1>1, ConcatType DEF Prefixed

LEMMA BodyType ==
  ASSUME NEW type \in Nat, NEW g \in Seq(Nat)
  PROVE  Body(type, g) \in Seq(Nat)
<1>1. <<0>> \in Seq(Nat) /\ <<>> \in Seq(Nat) /\ <<104, 50>> \in Seq(Nat) /\ <<104>> \in Seq(Nat)
  OBVIOUS
<1>2. Prefixed(<<0>> \o Prefixed(HostName)) \in Seq(Nat)
  BY <1>1, PrefixedType, ConcatType, GreaseAssumption
<1>3. Prefixed(g \o Groups) \in Seq(Nat) /\ Prefixed(<<0>>) \in Seq(Nat)
  BY <1>1, PrefixedType, ConcatType, GreaseAssumption
<1>4. Prefixed(FlattenSeq([i \in 1..2 |-> Prefixed(Protocols[i])])) \in Seq(Nat)
  <2>0. Protocols[1] = <<104, 50>> /\ Protocols[2] = <<104>>
    BY DEF Protocols
  <2>1. \A i \in 1..2 : Protocols[i] \in Seq(Nat)
    <3>1. \A i \in 1..2 : i = 1 \/ i = 2
      OBVIOUS
    <3> QED BY <1>1, <2>0, <3>1, Zenon
  <2>2. \A i \in 1..2 : Prefixed(Protocols[i]) \in Seq(Nat)
    BY <2>1, PrefixedType
  <2>3. [i \in 1..2 |-> Prefixed(Protocols[i])] \in Seq(Seq(Nat))
    BY <2>2
  <2>4. FlattenSeq([i \in 1..2 |-> Prefixed(Protocols[i])]) \in Seq(Nat)
    BY <2>3, FlattenType
  <2> QED BY <2>4, PrefixedType
<1>5. CASE type = ServerName
  BY <1>2, <1>5 DEF Body, ServerName, Alpn, GroupsExt, PointsExt
<1>6. CASE type = Alpn
  BY <1>4, <1>6 DEF Body, ServerName, Alpn, GroupsExt, PointsExt
<1>7. CASE type = GroupsExt
  BY <1>3, <1>7 DEF Body, ServerName, Alpn, GroupsExt, PointsExt
<1>8. CASE type = PointsExt
  BY <1>3, <1>8 DEF Body, ServerName, Alpn, GroupsExt, PointsExt
<1>9. CASE type \notin {ServerName, Alpn, GroupsExt, PointsExt}
  BY <1>1, <1>9 DEF Body
<1> QED BY <1>5, <1>6, <1>7, <1>8, <1>9

LEMMA HelloType ==
  ASSUME NEW sid \in Seq(Nat), NEW types \in Seq(Nat), NEW g \in Seq(Nat)
  PROVE  Hello(sid, types, g) \in Seq(Nat)
<1>1. g \o types \in Seq(Nat) /\ g \o Suites \in Seq(Nat)
  BY ConcatType, GreaseAssumption
<1>2. Extensions(g \o types, g) \in Seq(Nat)
  <2> DEFINE t == g \o types
             parts == [i \in 1..Len(t) |-> <<t[i]>> \o Prefixed(Body(t[i], g))]
  <2>1. Len(t) \in Nat /\ \A i \in 1..Len(t) : t[i] \in Nat
    BY <1>1
  <2> HIDE DEF t
  <2>2. \A i \in 1..Len(t) : <<t[i]>> \o Prefixed(Body(t[i], g)) \in Seq(Nat)
    <3> TAKE i \in 1..Len(t)
    <3>1. <<t[i]>> \in Seq(Nat)
      BY <2>1
    <3>2. Prefixed(Body(t[i], g)) \in Seq(Nat)
      BY <2>1, BodyType, PrefixedType
    <3> QED BY <3>1, <3>2, ConcatType
  <2>3. parts \in Seq(Seq(Nat))
    BY <2>1, <2>2
  <2> QED BY <2>3, FlattenType DEF Extensions, t
<1>3. <<771>> \in Seq(Nat) /\ Prefixed(<<0>>) \in Seq(Nat) /\ Prefixed(sid) \in Seq(Nat)
      /\ Prefixed(g \o Suites) \in Seq(Nat)
  <2>1. <<0>> \in Seq(Nat) /\ <<771>> \in Seq(Nat)
    OBVIOUS
  <2> QED BY <1>1, <2>1, PrefixedType
<1>4. Prefixed(Extensions(g \o types, g)) \in Seq(Nat)
  BY <1>2, PrefixedType
<1> QED BY <1>3, <1>4, ConcatType DEF Hello

(* A record of content type ct that holds kept units of a message, what    *)
(* the chunk has of it, and what Parse takes for the record's payload.     *)
RecordOf(ct, type, h, kept) == <<ct>> \o Prefixed(<<type, Len(h)>> \o SubSeq(h, 1, kept))

ChunkOf(record, n, more) == SubSeq(record, 1, n) \o more

PayloadOf(data) == Slice(data, 2, data[2])

(* The call a client's message makes.                                      *)
HelloMade(sid, types, g, ct, type, h, kept, record, n, more) ==
  /\ sid \in Seq(Nat) /\ types \in Seq(Nat) /\ g \in Seq(Nat)
  /\ \A k \in 1..Len(g) : IsGREASE(g[k])
  /\ h = Hello(sid, types, g) /\ kept \in Nat /\ kept <= Len(h)
  /\ record = RecordOf(ct, type, h, kept) /\ record \in Seq(Nat)
  /\ n \in 0..Len(record) /\ more \in Seq(Nat) /\ (n < Len(record) => more = <<>>)
  /\ call = [parser |-> "tls", type |-> type, sid |-> sid, types |-> types, grease |-> g,
             hello |-> ct = 22 /\ type = 1 /\ n > 3, units |-> n - 4,
             data |-> ChunkOf(record, n, more)]

LEMMA HelloParts ==
  ASSUME HelloInit
  PROVE  \E sid, types, g, ct, type, h, kept, record, n, more :
           HelloMade(sid, types, g, ct, type, h, kept, record, n, more)
<1> DEFINE
      Made(sid, types, ct, type, g, kept, n, more) ==
        LET hs     == Hello(sid, types, g)
            record == <<ct>> \o Prefixed(<<type, Len(hs)>> \o SubSeq(hs, 1, kept)) IN
        /\ n \in 0..Len(record) /\ (n < Len(record) => more = <<>>)
        /\ call = [parser |-> "tls", type |-> type, sid |-> sid, types |-> types, grease |-> g,
                   hello |-> ct = 22 /\ type = 1 /\ n > 3, units |-> n - 4,
                   data |-> SubSeq(record, 1, n) \o more]
<1>0. PICK sid \in SessionIds, types \in ExtensionLists, ct \in {22, 23}, type \in {1, 2},
           g \in {<<>>} \cup {<<v>> : v \in GreaseValues} :
        LET hs == Hello(sid, types, g) IN
        \E kept \in {Len(hs) \div 2, Len(hs)} :
          LET record == <<ct>> \o Prefixed(<<type, Len(hs)>> \o SubSeq(hs, 1, kept)) IN
          \E n \in 0..Len(record), more \in {<<>>, <<22, 9>>} :
            /\ n < Len(record) => more = <<>>
            /\ call = [parser |-> "tls", type |-> type, sid |-> sid, types |-> types, grease |-> g,
                       hello |-> ct = 22 /\ type = 1 /\ n > 3, units |-> n - 4,
                       data |-> SubSeq(record, 1, n) \o more]
  BY DEF HelloInit
<1> DEFINE rec(kept) ==
             <<ct>> \o Prefixed(<<type, Len(Hello(sid, types, g))>>
                                 \o SubSeq(Hello(sid, types, g), 1, kept))
<1>1. PICK kept \in {Len(Hello(sid, types, g)) \div 2, Len(Hello(sid, types, g))} :
        \E n \in 0..Len(rec(kept)), more \in {<<>>, <<22, 9>>} :
          Made(sid, types, ct, type, g, kept, n, more)
  BY <1>0, ZenonT(60)
<1>2. PICK n \in 0..Len(rec(kept)), more \in {<<>>, <<22, 9>>} :
        Made(sid, types, ct, type, g, kept, n, more)
  BY <1>1
<1> DEFINE hs == Hello(sid, types, g)
<1>21. sid \in Seq(Nat)
  BY GreaseAssumption
<1>3. types \in Seq(Nat)
  BY GreaseAssumption
<1>4. g \in Seq(Nat)
  <2>1. \A v \in GreaseValues : v \in Nat
    BY GreaseAssumption
  <2>2. \A v \in Nat : <<v>> \in Seq(Nat)
    OBVIOUS
  <2>3. <<>> \in Seq(Nat)
    OBVIOUS
  <2> QED BY <2>1, <2>2, <2>3
<1>41. \A k \in 1..Len(g) : IsGREASE(g[k])
  <2>1. CASE g = <<>>
    <3>1. 1..Len(g) = {}
      BY <2>1
    <3> QED BY <3>1
  <2>2. CASE g # <<>>
    <3>1. PICK v \in GreaseValues : g = <<v>>
      BY <2>2
    <3>2. IsGREASE(v)
      BY GreaseAssumption
    <3>3. Len(g) = 1 /\ g[1] = v
      BY <3>1
    <3>4. \A k \in 1..1 : k = 1
      OBVIOUS
    <3> QED BY <3>2, <3>3, <3>4
  <2> QED BY <2>1, <2>2
<1>5. hs \in Seq(Nat)
  BY <1>21, <1>3, <1>4, HelloType
<1> HIDE DEF hs
<1>6. kept \in {Len(hs) \div 2, Len(hs)}
  BY <1>1 DEF hs
<1>7. kept \in Nat /\ kept <= Len(hs)
  BY <1>5, <1>6
<1>8. SubSeq(hs, 1, kept) \in Seq(Nat)
  BY <1>5, <1>7, PrefixType
<1> DEFINE record == <<ct>> \o Prefixed(<<type, Len(hs)>> \o SubSeq(hs, 1, kept))
<1>9. record \in Seq(Nat)
  <2>1. <<ct>> \in Seq(Nat) /\ <<type, Len(hs)>> \in Seq(Nat)
    BY <1>5
  <2> QED BY <1>8, <2>1, PrefixedType, ConcatType
<1>10. /\ n \in 0..Len(record) /\ (n < Len(record) => more = <<>>)
       /\ call = [parser |-> "tls", type |-> type, sid |-> sid, types |-> types, grease |-> g,
                  hello |-> ct = 22 /\ type = 1 /\ n > 3, units |-> n - 4,
                  data |-> SubSeq(record, 1, n) \o more]
  BY <1>2 DEF hs
<1>11. record = RecordOf(ct, type, hs, kept)
  BY DEF RecordOf
<1> HIDE DEF record
<1>12. more \in Seq(Nat)
  <2>1. <<>> \in Seq(Nat) /\ <<22, 9>> \in Seq(Nat)
    OBVIOUS
  <2> QED BY <2>1
<1>13. call = [parser |-> "tls", type |-> type, sid |-> sid, types |-> types, grease |-> g,
               hello |-> ct = 22 /\ type = 1 /\ n > 3, units |-> n - 4,
               data |-> ChunkOf(record, n, more)]
  BY <1>10 DEF ChunkOf
<1>14. hs = Hello(sid, types, g)
  BY DEF hs
<1>15. HelloMade(sid, types, g, ct, type, hs, kept, record, n, more)
  BY <1>21, <1>3, <1>4, <1>41, <1>7, <1>9, <1>10, <1>11, <1>12, <1>13, <1>14, Zenon DEF HelloMade
<1> QED BY <1>15

LEMMA HelloData == HelloInit => call.parser = "tls" /\ call.data \in Seq(Nat)
<1> SUFFICES ASSUME HelloInit PROVE call.parser = "tls" /\ call.data \in Seq(Nat)
  OBVIOUS
<1>1. PICK sid, types, g, ct, type, h, kept, record, n, more :
        HelloMade(sid, types, g, ct, type, h, kept, record, n, more)
  BY HelloParts
<1>2. /\ call.parser = "tls" /\ call.data = ChunkOf(record, n, more)
  BY <1>1 DEF HelloMade
<1>3. record \in Seq(Nat) /\ n \in 0..Len(record) /\ more \in Seq(Nat)
  BY <1>1 DEF HelloMade
<1>4. SubSeq(record, 1, n) \in Seq(Nat)
  <2>1. Len(record) \in Nat
    BY <1>3
  <2>2. n \in Int /\ n <= Len(record)
    BY <1>3, <2>1
  <2> QED BY <1>3, <2>2, PrefixType
<1> QED BY <1>2, <1>3, <1>4, ConcatType DEF ChunkOf

LEMMA InsideInit == MCInit => Inside3
<1>1. CASE NoCall
  BY <1>1, Apart DEF NoCall, Inside3, DnsInside, FramingInside, HelloInside, OutsideRedis
<1>2. CASE DnsInit
  <2>0. PICK n \in 0..MaxBytes, qd \in 0..MaxCount, an \in 0..MaxCount : \E d \in [1..n -> Bytes] :
          call = [parser |-> "dns", data |-> d, qd |-> qd, an |-> an]
    BY <1>2 DEF DnsInit
  <2>1. PICK d \in [1..n -> Bytes] : call = [parser |-> "dns", data |-> d, qd |-> qd, an |-> an]
    BY <2>0
  <2>2. call.parser = "dns" /\ call.data = d /\ call.qd \in Int /\ call.an \in Int
    BY <2>1
  <2>3. d \in Seq(Nat)
    <3>1. n \in Nat /\ Bytes \subseteq Nat
      BY DnsAssumption
    <3>2. d \in [1..n -> Nat]
      BY <3>1
    <3> QED BY <3>1, <3>2
  <2>4. local \in DnsLocals /\ local.at = "section"
    <3>1. HeaderSize \in Nat /\ -1 \in Int
      BY DnsAssumption
    <3>2. local = Fresh
      BY <1>2 DEF DnsInit
    <3> QED BY <2>2, <3>1, <3>2 DEF Fresh, DnsLocals
  <2> QED BY <1>2, <2>2, <2>3, <2>4, Apart
          DEF DnsInit, Inside3, DnsInside, FramingInside, HelloInside, OutsideRedis
<1>3. CASE FramingInit
  <2>1. PICK p \in Framed, c \in BOOLEAN : \E s \in Streams(p, c) :
          \E a \in 0..StreamEnd(s) - 1 : \E b \in a + 1..StreamEnd(s) :
            call = [parser |-> p, client |-> c, stream |-> s, from |-> a, to |-> b]
    BY <1>3 DEF FramingInit
  <2>2. PICK s \in Streams(p, c) : \E a, b \in Int :
          call = [parser |-> p, client |-> c, stream |-> s, from |-> a, to |-> b]
    <3>1. \A x, y, a : a \in x..y => a \in Int
      OBVIOUS
    <3> QED BY <2>1, <3>1, Zenon
  <2>3. call.parser = p /\ call.stream = s /\ call.from \in Int /\ call.to \in Int
    BY <2>2
  <2>4. PICK n \in 1..MaxMessages : s \in [1..n -> MessagesOf(p, c)]
    BY DEF Streams
  <2>5. Len(s) = n /\ n \in Nat
    BY <2>4
  <2>6. \A i \in 1..Len(s) : s[i].size \in Nat
    BY <2>4, <2>5, FramingAssumption DEF MessagesOf
  <2>7. local \in [pos : Int, loop : BOOLEAN] /\ status = "run"
    BY <1>3, <2>3 DEF FramingInit
  <2>8. p # "dns" /\ p # "tls"
    BY Apart
  <2> QED BY <2>3, <2>5, <2>6, <2>7, <2>8
          DEF Inside3, DnsInside, FramingInside, HelloInside, OutsideRedis
<1>4. CASE RespInit
  BY <1>4, Apart DEF RespInit, Aligned, Stray, Inside3, DnsInside, FramingInside, HelloInside, OutsideRedis
<1>5. CASE LinesInit
  BY <1>5, Apart DEF LinesInit, LineParsers, Inside3, DnsInside, FramingInside, HelloInside,
                     OutsideRedis
<1>6. CASE HelloInit
  <2>1. local = [at |-> "record", hs |-> <<>>, off |-> 0, end |-> 0] /\ status = "run"
    BY <1>6 DEF HelloInit
  <2> QED BY <1>6, <2>1, HelloData, Apart
          DEF Inside3, DnsInside, FramingInside, HelloInside, OutsideRedis
<1> QED BY <1>1, <1>2, <1>3, <1>4, <1>5, <1>6 DEF MCInit

LEMMA InsideNext == Inside3 /\ [MCNext]_<<vars, callVars>> => Inside3'
<1> SUFFICES ASSUME Inside3, [MCNext]_<<vars, callVars>> PROVE Inside3'
  OBVIOUS
<1>1. CASE UNCHANGED callVars
  BY <1>1 DEF callVars, Inside3, DnsInside, FramingInside, HelloInside, OutsideRedis
<1>2. ASSUME call' = call, call.parser \in LineParsers \cup {"redis"},
             call.parser = "redis" \/ status' # "panic"
      PROVE  Inside3'
  <2>1. call.parser # "dns" /\ call.parser # "tls" /\ call.parser \notin Framed
    BY <1>2, Apart DEF LineParsers
  <2>2. DnsInside' /\ FramingInside' /\ HelloInside'
    BY <1>2, <2>1 DEF DnsInside, FramingInside, HelloInside
  <2>3. OutsideRedis'
    <3>1. call'.parser = "redis" \/ status' # "panic"
      BY <1>2
    <3> QED BY <3>1 DEF OutsideRedis
  <2> QED BY <2>2, <2>3 DEF Inside3
<1>3. CASE RespStep
  BY <1>2, <1>3 DEF RespStep, Running, Return, Panic
<1>4. CASE PieceStep
  BY <1>2, <1>4 DEF PieceStep, Running, Return
<1> QED BY <1>1, <1>3, <1>4, DnsInsideNext, FramingInsideNext, HelloInsideNext
        DEF MCNext, ParseStep, callVars

-----------------------------------------------------------------------------
(* Streams of messages.                                                    *)

(* The ends of the messages are what their recursion says.                 *)
LEMMA EndsLoop ==
  ASSUME NEW s, Len(s) \in Nat, \A i \in 1..Len(s) : s[i].size \in Nat
  PROVE  /\ Ends(s) \in [0..Len(s) -> Nat] /\ Ends(s)[0] = 0
         /\ \A j \in 1..Len(s) : Ends(s)[j] = Ends(s)[j - 1] + s[j].size
<1> DEFINE n == Len(s)
           turn(j, b) == b + s[j].size
           G == [x \in (1..n) \X Nat |-> turn(x[1], x[2])]
           Eq(f) == f = [j \in 0..n |-> IF j = 0 THEN 0 ELSE turn(j, f[j - 1])]
<1>1. n \in Nat /\ 0 \in Nat
  OBVIOUS
<1>2. ASSUME NEW j \in 1..n, NEW b \in Nat PROVE turn(j, b) \in Nat
  OBVIOUS
<1>3. G \in [(1..n) \X Nat -> Nat]
  BY <1>2
<1>4. \A j \in 1..n, b \in Nat : G[<<j, b>>] = turn(j, b)
  OBVIOUS
<1> HIDE DEF G, turn, n
<1>5. PICK f \in [0..n -> Nat] : Recurs(f, n, 0, G)
  BY <1>1, <1>3, Recursion
<1>6. Eq(f)
  <2>1. ASSUME NEW j \in 0..n PROVE f[j] = IF j = 0 THEN 0 ELSE turn(j, f[j - 1])
    <3>1. CASE j = 0
      BY <1>5, <3>1 DEF Recurs
    <3>2. CASE j # 0
      <4>1. j \in 1..n /\ j - 1 \in 0..n
        BY <1>1, <3>2
      <4>2. f[j - 1] \in Nat
        BY <4>1
      <4> QED BY <1>4, <1>5, <3>2, <4>1, <4>2 DEF Recurs
    <3> QED BY <3>1, <3>2
  <2> QED BY <2>1
<1>7. Ends(s) = CHOOSE g : Eq(g)
  BY DEF Ends, turn, n
<1>8. Eq(Ends(s))
  BY <1>6, <1>7
<1> DEFINE h == Ends(s)
           H == {j \in 0..n : h[j] \in Nat}
<1>9. h[0] = 0 /\ \A j \in 1..n : h[j] = turn(j, h[j - 1])
  <2> HIDE DEF h
  <2> QED BY <1>1, <1>8 DEF h
<1>10. 0..n \subseteq H
  <2> HIDE DEF h
  <2>1. 0 \in H
    BY <1>1, <1>9
  <2>2. ASSUME NEW j \in 0..n, j + 1 <= n, j \in H PROVE j + 1 \in H
    <3>1. j + 1 \in 1..n /\ (j + 1) - 1 = j /\ h[j] \in Nat /\ j + 1 \in 0..n
      BY <1>1, <2>2
    <3>2. turn(j + 1, h[j]) \in Nat
      BY <1>2, <3>1
    <3> QED BY <1>9, <3>1, <3>2
  <2> HIDE DEF H
  <2> QED BY <1>1, <2>1, <2>2, Induct
<1>11. h \in [0..n -> Nat]
  <2>1. h = [j \in 0..n |-> h[j]]
    BY <1>8
  <2> QED BY <1>10, <2>1
<1> QED BY <1>9, <1>11 DEF n, turn

(* A stream of messages that are not empty.                                *)
Solid(s) == Len(s) \in Nat /\ \A i \in 1..Len(s) : s[i].size \in Nat \ {0}

LEMMA StartOfNext ==
  ASSUME NEW s, Solid(s)
  PROVE  /\ \A i \in 1..Len(s) + 1 : StartOf(s, i) \in Nat
         /\ \A i \in 1..Len(s) : StartOf(s, i + 1) = StartOf(s, i) + s[i].size
<1>1. /\ Ends(s) \in [0..Len(s) -> Nat]
      /\ \A j \in 1..Len(s) : Ends(s)[j] = Ends(s)[j - 1] + s[j].size
  BY EndsLoop DEF Solid
<1>2. Len(s) \in Nat
  BY DEF Solid
<1>3. ASSUME NEW i \in 1..Len(s) + 1 PROVE StartOf(s, i) \in Nat
  <2>1. i - 1 \in 0..Len(s)
    BY <1>2
  <2> QED BY <1>1, <2>1 DEF StartOf
<1>4. ASSUME NEW i \in 1..Len(s) PROVE StartOf(s, i + 1) = StartOf(s, i) + s[i].size
  <2>1. (i + 1) - 1 = i
    BY <1>2
  <2> QED BY <1>1, <2>1 DEF StartOf
<1> QED BY <1>3, <1>4

LEMMA StartOfOrder ==
  ASSUME NEW s, Solid(s), NEW i \in 1..Len(s) + 1, NEW j \in 1..Len(s) + 1, i < j
  PROVE  StartOf(s, i) < StartOf(s, j)
<1> DEFINE n == Len(s)
           H == {k \in 0..n : \A x \in 1..k : StartOf(s, x) < StartOf(s, k + 1)}
<1>1. n \in Nat
  BY DEF Solid
<1>2. 0..n \subseteq H
  <2>1. 0 \in H
    BY <1>1
  <2>2. ASSUME NEW k \in 0..n, k + 1 <= n, k \in H PROVE k + 1 \in H
    <3>1. k + 1 \in 0..n /\ k + 1 \in 1..n
      BY <1>1, <2>2
    <3>2. /\ StartOf(s, (k + 1) + 1) = StartOf(s, k + 1) + s[k + 1].size
          /\ s[k + 1].size \in Nat \ {0}
      BY <3>1, StartOfNext DEF Solid
    <3>3. \A x \in 1..k + 1 : StartOf(s, x) \in Nat
      BY <1>1, <3>1, StartOfNext
    <3>4. ASSUME NEW x \in 1..k + 1 PROVE StartOf(s, x) < StartOf(s, (k + 1) + 1)
      <4>1. StartOf(s, x) \in Nat /\ StartOf(s, k + 1) \in Nat
        BY <3>1, <3>3
      <4>2. CASE x = k + 1
        BY <3>2, <4>1, <4>2
      <4>3. CASE x \in 1..k
        <5>1. StartOf(s, x) < StartOf(s, k + 1)
          BY <2>2, <4>3
        <5> QED BY <3>2, <4>1, <5>1
      <4> QED BY <4>2, <4>3
    <3> QED BY <3>1, <3>4
  <2> HIDE DEF H
  <2> QED BY <1>1, <2>1, <2>2, Induct
<1>3. j - 1 \in 0..n /\ (j - 1) + 1 = j /\ i \in 1..j - 1
  BY <1>1
<1> QED BY <1>2, <1>3

LEMMA MessageAtStart ==
  ASSUME Solid(call.stream)
  PROVE  /\ \A i \in 1..Len(call.stream) : MessageAt(StartOf(call.stream, i)) = i
         /\ \A n : MessageAt(n) # 0 => /\ MessageAt(n) \in 1..Len(call.stream)
                                       /\ StartOf(call.stream, MessageAt(n)) = n
<1> DEFINE s == call.stream
           at(n) == {i \in 1..Len(s) : StartOf(s, i) = n}
<1>1. Len(s) \in Nat
  BY DEF Solid
<1>2. ASSUME NEW i \in 1..Len(s) PROVE MessageAt(StartOf(s, i)) = i
  <2>1. ASSUME NEW j \in at(StartOf(s, i)) PROVE j = i
    <3>1. \A x \in 1..Len(s) : x \in 1..Len(s) + 1
      BY <1>1
    <3>2. StartOf(s, i) \in Nat
      BY <3>1, StartOfNext
    <3>3. CASE i < j
      BY <3>1, <3>2, <3>3, StartOfOrder
    <3>4. CASE j < i
      BY <3>1, <3>2, <3>4, StartOfOrder
    <3> QED BY <1>1, <3>3, <3>4
  <2>2. i \in at(StartOf(s, i))
    OBVIOUS
  <2>3. at(StartOf(s, i)) = {i}
    BY <2>1, <2>2
  <2> QED BY <2>3 DEF MessageAt
<1>3. ASSUME NEW n, MessageAt(n) # 0
      PROVE  MessageAt(n) \in 1..Len(s) /\ StartOf(s, MessageAt(n)) = n
  <2>1. at(n) # {}
    BY <1>3 DEF MessageAt
  <2>2. MessageAt(n) = CHOOSE i \in at(n) : TRUE
    BY <2>1 DEF MessageAt
  <2>3. MessageAt(n) \in at(n)
    BY <2>1, <2>2
  <2> QED BY <2>3
<1> QED BY <1>2, <1>3

(* The kinds of the messages.                                              *)
LEMMA KindFacts ==
  ASSUME NEW p \in Framed, NEW c \in BOOLEAN
  PROVE  /\ Frames[p].opening = IF p = "postgres" THEN {"startup", "ssl"} ELSE {}

         /\ p # "postgres" \/ ~c => {"startup", "ssl"} \cap DOMAIN Known(p, c) = {}
         /\ p = "postgres" /\ c => Known(p, c)["startup"] = FALSE
<1>1. p \in {"mysql", "postgres", "mongodb", "mqtt"}
  BY FramingAssumption
<1>2. CASE p = "mysql"
  <2>1. Known(p, c) = IF c THEN [command |-> TRUE, other |-> FALSE]
                      ELSE [ok |-> TRUE, err |-> TRUE, other |-> FALSE]
    BY <1>2 DEF Frames, Known, MysqlFrames
  <2>2. Frames[p].opening = {}
    BY <1>2 DEF Frames, MysqlFrames
  <2>3. CASE c
    BY <1>2, <2>1, <2>2, <2>3
  <2>4. CASE ~c
    BY <1>2, <2>1, <2>2, <2>4
  <2> QED BY <2>3, <2>4
<1>3. CASE p = "postgres"
  <2>1. Known(p, c) = IF c
                      THEN [startup |-> FALSE, ssl |-> FALSE, query |-> TRUE, other |-> FALSE]
                      ELSE [error |-> TRUE, other |-> FALSE]
    BY <1>3 DEF Frames, Known, PostgresFrames
  <2>2. Frames[p].opening = {"startup", "ssl"}
    BY <1>3 DEF Frames, PostgresFrames
  <2>3. CASE c
    <3>1. PICK r : r = [startup |-> FALSE, ssl |-> FALSE, query |-> TRUE, other |-> FALSE]
      OBVIOUS
    <3>2. r["startup"] = FALSE
      BY <3>1
    <3>3. Known(p, c) = r
      BY <2>1, <2>3, <3>1
    <3> QED BY <1>3, <2>2, <2>3, <3>2, <3>3
  <2>4. CASE ~c
    BY <1>3, <2>1, <2>2, <2>4
  <2> QED BY <2>3, <2>4
<1>4. CASE p = "mongodb"
  <2>1. Known(p, c) = IF c THEN [opMsg |-> TRUE, opQuery |-> TRUE, other |-> FALSE]
                      ELSE [opMsg |-> TRUE, other |-> FALSE]
    BY <1>4 DEF Frames, Known, MongodbFrames
  <2>2. Frames[p].opening = {}
    BY <1>4 DEF Frames, MongodbFrames
  <2>3. CASE c
    BY <1>4, <2>1, <2>2, <2>3
  <2>4. CASE ~c
    BY <1>4, <2>1, <2>2, <2>4
  <2> QED BY <2>3, <2>4
<1>5. CASE p = "mqtt"
  <2>1. Known(p, c) = [packet |-> TRUE, auth |-> FALSE]
    BY <1>5 DEF Frames, Known, MqttFrames
  <2>2. Frames[p].opening = {}
    BY <1>5 DEF Frames, MqttFrames
  <2> QED BY <1>5, <2>1, <2>2
<1> QED BY <1>1, <1>2, <1>3, <1>4, <1>5

LEMMA StreamFacts ==
  ASSUME NEW p \in Framed, NEW c \in BOOLEAN, NEW s \in Streams(p, c)
  PROVE  /\ Solid(s)
         /\ \A i \in 1..Len(s) : s[i].size >= Header /\ s[i].kind \in DOMAIN Known(p, c)
         /\ \A i \in 1..Len(s) :
              s[i].kind \in Frames[p].opening => i = 1 \/ s[i - 1].kind = "ssl"
<1>1. PICK n \in 1..MaxMessages : s \in [1..n -> MessagesOf(p, c)]
  BY DEF Streams
<1>2. Len(s) = n /\ n \in Nat
  BY <1>1
<1>3. \A i \in 1..Len(s) : s[i] \in MessagesOf(p, c)
  BY <1>1, <1>2
<1>4. \A i \in 1..Len(s) : s[i].size \in Nat \ {0} /\ s[i].size >= Header
                           /\ s[i].kind \in DOMAIN Known(p, c)
  BY <1>3, FramingAssumption DEF MessagesOf
<1> QED BY <1>2, <1>4 DEF Streams, Solid

-----------------------------------------------------------------------------
(* The loop over the messages.                                             *)

InChunk(i) == call.from <= StartOf(call.stream, i) /\ StartOf(call.stream, i + 1) <= call.to

(* What WholeMessages is about: a chunk that starts with a message f.      *)
Begins(f) == MessageAt(call.from) = f /\ f # 0 /\ ~Stops(f)

(* The call and its input.                                                 *)
FramedCall ==
  call.parser \in Framed =>
    /\ call.client \in BOOLEAN /\ call.stream \in Streams(call.parser, call.client)
    /\ call.from \in Nat /\ call.to \in Nat /\ call.from < call.to
    /\ call.to <= StreamEnd(call.stream)
    /\ out \in Seq(Nat) /\ local.loop \in BOOLEAN

(* The loop is at message i, and has made the events of those before it.   *)
AtMessage(f, i) ==
  /\ i \in f..Len(call.stream) + 1
  /\ local.pos = StartOf(call.stream, i) /\ local.pos <= call.to
  /\ \A j \in f..i - 1 : ~Stops(j)
  /\ i = f => Kind(f) # "startup"
  /\ Ascending(out) /\ Range(out) = {j \in WholeKnown : j < i}

LoopInv ==
  call.parser \in Framed =>
    \A f \in Nat : Begins(f) =>
      /\ status = "run" /\ ~local.loop => local.pos = call.from /\ out = <<>>
      /\ status = "run" /\ local.loop => \E i \in Nat : AtMessage(f, i)
      /\ status = "ok" => Ascending(out) /\ Range(out) = WholeKnown

(* The inductive invariant.                                                *)
FramingInv == FramedCall /\ LoopInv

(* The facts about the stream of a call.                                   *)
LEMMA CallFacts ==
  ASSUME FramedCall, call.parser \in Framed
  PROVE  /\ Solid(call.stream) /\ Len(call.stream) \in Nat
         /\ \A i \in 1..Len(call.stream) + 1 : StartOf(call.stream, i) \in Nat
         /\ \A i \in 1..Len(call.stream) :
              /\ call.stream[i].size \in Nat /\ call.stream[i].size >= Header
              /\ Kind(i) \in DOMAIN Known(call.parser, call.client)

              /\ StartOf(call.stream, i + 1) = StartOf(call.stream, i) + call.stream[i].size
         /\ call.from \in Nat /\ call.to \in Nat
         /\ call.to <= StartOf(call.stream, Len(call.stream) + 1)
<1>1. /\ call.client \in BOOLEAN /\ call.stream \in Streams(call.parser, call.client)
      /\ call.from \in Nat /\ call.to \in Nat /\ call.to <= StreamEnd(call.stream)
  BY DEF FramedCall
<1>2. /\ Solid(call.stream)
      /\ \A i \in 1..Len(call.stream) : /\ call.stream[i].size >= Header
                                        /\ Kind(i) \in DOMAIN Known(call.parser, call.client)
  BY <1>1, StreamFacts DEF Kind
<1> QED BY <1>1, <1>2, StartOfNext DEF Solid, StreamEnd

LEMMA BeginsAt ==
  ASSUME FramedCall, call.parser \in Framed, NEW f \in Nat, Begins(f)
  PROVE  f \in 1..Len(call.stream) /\ StartOf(call.stream, f) = call.from
BY CallFacts, MessageAtStart DEF Begins

(* A message the loop is at has a tag.                                     *)
LEMMA TaggedThere ==
  ASSUME FramedCall, call.parser \in Framed, NEW f \in Nat, Begins(f), NEW i \in Nat,
         AtMessage(f, i), i <= Len(call.stream)
  PROVE  Tagged(i) /\ Kind(i) \notin {"startup", "ssl"}
<1>1. f \in 1..Len(call.stream) /\ i \in 1..Len(call.stream) /\ i \in f..Len(call.stream) + 1
  BY BeginsAt, CallFacts DEF AtMessage
<1>2. call.client \in BOOLEAN /\ call.stream \in Streams(call.parser, call.client)
  BY DEF FramedCall
<1>3. Kind(i) \in DOMAIN Known(call.parser, call.client)
  BY <1>1, CallFacts
<1>4. CASE call.parser # "postgres" \/ ~call.client
  <2>1. Kind(i) \notin {"startup", "ssl"}
    BY <1>2, <1>3, <1>4, KindFacts
  <2>2. Frames[call.parser].opening \subseteq {"startup", "ssl"}
    BY <1>2, KindFacts
  <2> QED BY <1>1, <2>1, <2>2 DEF Tagged
<1>5. CASE call.parser = "postgres" /\ call.client
  <2>1. Frames[call.parser].opening = {"startup", "ssl"}
    BY <1>2, <1>5, KindFacts
  <2>2. CASE i = f
    <3>1. Kind(f) # "ssl"
      BY DEF Begins, Stops
    <3>2. Kind(f) # "startup"
      BY <2>2 DEF AtMessage
    <3> QED BY <1>1, <2>1, <2>2, <3>1, <3>2 DEF Tagged
  <2>3. CASE i # f
    <3>1. i - 1 \in f..i - 1 /\ i # 1
      BY <1>1, <2>3
    <3>2. call.stream[i - 1].kind # "ssl"
      BY <3>1 DEF AtMessage, Stops, Kind
    <3>3. Kind(i) \notin Frames[call.parser].opening
      BY <1>1, <1>2, <3>1, <3>2, StreamFacts DEF Kind
    <3> QED BY <1>1, <2>1, <3>3 DEF Tagged
  <2> QED BY <2>2, <2>3
<1> QED BY <1>2, <1>4, <1>5

(* Nothing before f is in the chunk.                                       *)
LEMMA BeforeFirst ==
  ASSUME FramedCall, call.parser \in Framed, NEW f \in Nat, Begins(f), NEW j \in 1..f - 1
  PROVE  ~InChunk(j)
<1>1. f \in 1..Len(call.stream) /\ StartOf(call.stream, f) = call.from
  BY BeginsAt
<1>2. j \in 1..Len(call.stream) + 1 /\ f \in 1..Len(call.stream) + 1 /\ j < f
  BY <1>1, CallFacts
<1>3. StartOf(call.stream, j) < call.from /\ StartOf(call.stream, j) \in Nat
  BY <1>1, <1>2, CallFacts, StartOfOrder
<1> QED BY <1>3, CallFacts DEF InChunk

LEMMA KnownMember ==
  WholeKnown = {i \in 1..Len(call.stream) :
                  /\ InChunk(i) /\ Known(call.parser, call.client)[Kind(i)]
                  /\ \A j \in 1..i : InChunk(j) => ~Stops(j)}
BY DEF WholeKnown, InChunk

(* If the loop ends at message i, there are no events behind it.           *)
LEMMA NothingBehind ==
  ASSUME FramedCall, call.parser \in Framed, NEW f \in Nat, Begins(f), NEW i \in Nat,
         AtMessage(f, i),
         i <= Len(call.stream) => StartOf(call.stream, i + 1) > call.to \/ Stops(i)
  PROVE  Range(out) = WholeKnown
<1>1. f \in 1..Len(call.stream) /\ StartOf(call.stream, f) = call.from
  BY BeginsAt
<1>2. i \in 1..Len(call.stream) + 1 /\ f <= i
  BY <1>1, CallFacts DEF AtMessage
<1> SUFFICES ASSUME NEW k \in WholeKnown, ~(k < i) PROVE FALSE
  BY DEF AtMessage
<1>3. k \in 1..Len(call.stream) /\ InChunk(k) /\ \A j \in 1..k : InChunk(j) => ~Stops(j)
  BY KnownMember
<1>4. i <= k /\ i <= Len(call.stream) /\ i \in 1..Len(call.stream) /\ i \in 1..k
  BY <1>2, <1>3, CallFacts
<1>5. StartOf(call.stream, i + 1) <= StartOf(call.stream, k + 1)
  <2>1. i + 1 \in 1..Len(call.stream) + 1 /\ k + 1 \in 1..Len(call.stream) + 1
    BY <1>3, <1>4, CallFacts
  <2>2. CASE i = k
    BY <2>1, <2>2, CallFacts
  <2>3. CASE i < k
    <3>1. i + 1 < k + 1 /\ Solid(call.stream)
      BY <1>3, <1>4, <2>3, CallFacts
    <3>2. StartOf(call.stream, i + 1) < StartOf(call.stream, k + 1)
      BY <2>1, <3>1, StartOfOrder
    <3> QED BY <2>1, <3>2, CallFacts
  <2> QED BY <1>3, <1>4, <2>2, <2>3
<1>6. i + 1 \in 1..Len(call.stream) + 1 /\ k + 1 \in 1..Len(call.stream) + 1
  BY <1>3, <1>4, CallFacts
<1>7. StartOf(call.stream, i + 1) <= call.to
  BY <1>3, <1>5, <1>6, CallFacts DEF InChunk
<1>8. Stops(i)
  BY <1>4, <1>6, <1>7, CallFacts
<1>9. InChunk(i)
  <2>1. call.from <= StartOf(call.stream, i)
    <3>1. f \in 1..Len(call.stream) + 1
      BY <1>1, CallFacts
    <3>2. CASE f = i
      BY <1>1, <3>2, CallFacts
    <3>3. CASE f < i
      <4>1. StartOf(call.stream, f) < StartOf(call.stream, i)
        BY <1>2, <3>1, <3>3, CallFacts, StartOfOrder
      <4> QED BY <1>1, <1>2, <4>1, CallFacts
    <3> QED BY <1>1, <1>2, <3>2, <3>3
  <2> QED BY <1>7, <2>1 DEF InChunk
<1> QED BY <1>3, <1>4, <1>8, <1>9

(* Message i is whole and does not stop the loop: an event if it is known. *)
LEMMA OneMore ==
  ASSUME FramedCall, call.parser \in Framed, NEW f \in Nat, Begins(f), NEW i \in Nat,
         AtMessage(f, i), i <= Len(call.stream), StartOf(call.stream, i + 1) <= call.to, ~Stops(i)
  PROVE  {j \in WholeKnown : j < i + 1} =
           {j \in WholeKnown : j < i}
             \cup (IF Known(call.parser, call.client)[Kind(i)] THEN {i} ELSE {})
<1>1. f \in 1..Len(call.stream) /\ StartOf(call.stream, f) = call.from
  BY BeginsAt
<1>2. i \in 1..Len(call.stream) /\ i \in f..Len(call.stream) + 1
  BY <1>1, CallFacts DEF AtMessage
<1>3. InChunk(i)
  <2>1. f \in 1..Len(call.stream) + 1 /\ i \in 1..Len(call.stream) + 1
    BY <1>1, <1>2, CallFacts
  <2>2. CASE f = i
    BY <1>1, <2>1, <2>2, CallFacts DEF InChunk
  <2>3. CASE f < i
    <3>1. StartOf(call.stream, f) < StartOf(call.stream, i)
      BY <2>1, <2>3, CallFacts, StartOfOrder
    <3> QED BY <1>1, <2>1, <3>1, CallFacts DEF InChunk
  <2> QED BY <1>1, <1>2, <2>2, <2>3
<1>4. \A j \in 1..i : InChunk(j) => ~Stops(j)
  <2> TAKE j \in 1..i
  <2>1. CASE j < f
    <3>1. j \in 1..f - 1
      BY <1>1, <2>1
    <3> QED BY <3>1, BeforeFirst
  <2>2. CASE j = i
    BY <2>2
  <2>3. CASE j \in f..i - 1
    BY <2>3 DEF AtMessage
  <2> QED BY <1>1, <1>2, <2>1, <2>2, <2>3
<1>5. i \in WholeKnown <=> Known(call.parser, call.client)[Kind(i)]
  BY <1>2, <1>3, <1>4, KnownMember
<1>6. \A j \in WholeKnown : j < i + 1 <=> j < i \/ j = i
  <2>1. WholeKnown \subseteq Int
    BY KnownMember
  <2> QED BY <2>1
<1> QED BY <1>2, <1>5, <1>6

(* One event more, in order.                                               *)
LEMMA AscendingAppend ==
  ASSUME NEW o \in Seq(Nat), Ascending(o), NEW i \in Nat, \A j \in Range(o) : j < i
  PROVE  /\ o \o <<i>> \in Seq(Nat) /\ Ascending(o \o <<i>>)
         /\ Range(o \o <<i>>) = Range(o) \cup {i}
<1> DEFINE q == o \o <<i>>
           n == Len(o)
<1>1. /\ n \in Nat /\ q \in Seq(Nat) /\ Len(q) = n + 1 /\ q[n + 1] = i
      /\ \A j \in 1..n : q[j] = o[j]
  OBVIOUS
<1>2. DOMAIN q = 1..n + 1 /\ DOMAIN o = 1..n
  BY <1>1
<1>3. \A j \in 1..n : o[j] \in Range(o) /\ o[j] < i
  BY <1>2 DEF Range
<1>4. \A j \in 1..n + 1 : j = n + 1 \/ j \in 1..n
  BY <1>1
<1> HIDE DEF q
<1>5. Ascending(q)
  <2> SUFFICES ASSUME NEW j \in 1..n + 1, NEW k \in 1..n + 1, j < k PROVE q[j] < q[k]
    BY <1>1 DEF Ascending
  <2>1. j \in 1..n
    BY <1>1, <1>4
  <2>2. CASE k = n + 1
    BY <1>1, <1>3, <2>1, <2>2
  <2>3. CASE k \in 1..n
    BY <1>1, <2>1, <2>3 DEF Ascending
  <2> QED BY <1>4, <2>2, <2>3
<1>6. Range(q) = Range(o) \cup {i}
  <2>1. n + 1 \in 1..n + 1 /\ \A j \in 1..n : j \in 1..n + 1
    BY <1>1
  <2>2. ASSUME NEW y \in Range(q) PROVE y \in Range(o) \cup {i}
    <3>1. PICK j \in 1..n + 1 : y = q[j]
      BY <1>2 DEF Range
    <3> QED BY <1>1, <1>3, <1>4, <3>1
  <2>3. ASSUME NEW y \in Range(o) PROVE y \in Range(q)
    <3>1. PICK j \in 1..n : y = o[j]
      BY <1>2 DEF Range
    <3>2. y = q[j] /\ j \in DOMAIN q
      BY <1>1, <1>2, <2>1, <3>1
    <3> QED BY <3>2 DEF Range
  <2>4. i \in Range(q)
    BY <1>1, <1>2, <2>1 DEF Range
  <2> QED BY <2>2, <2>3, <2>4
<1> QED BY <1>1, <1>5, <1>6 DEF q

(* The call does not change.                                               *)
LEMMA SameCall ==
  ASSUME call' = call
  PROVE  /\ WholeKnown' = WholeKnown
         /\ \A f \in Nat : Begins(f)' <=> Begins(f)
         /\ \A i \in Nat : Stops(i)' <=> Stops(i)
<1>1. \A n : MessageAt(n)' = MessageAt(n)
  BY DEF MessageAt
<1>2. \A i : Stops(i)' <=> Stops(i)
  BY DEF Stops, Kind, Refused
<1> QED BY <1>1, <1>2 DEF WholeKnown, Begins, Kind, Stops

LEMMA EnterLoop ==
  ASSUME FramingInv, Enter
  PROVE  LoopInv'
<1>1. call' = call /\ call.parser \in Framed /\ status = "run" /\ status' = "run" /\ ~local.loop
      /\ out' = out /\ FramedCall
  BY DEF Enter, Framing, Running, FramingInv
<1> SUFFICES ASSUME NEW f \in Nat, Begins(f) PROVE local'.loop /\ \E i \in Nat : AtMessage(f, i)'
  BY <1>1, SameCall DEF LoopInv
<1>2. local.pos = call.from /\ out = <<>>
  BY <1>1 DEF FramingInv, LoopInv
<1>3. f \in 1..Len(call.stream) /\ StartOf(call.stream, f) = call.from /\ MessageAt(call.from) = f
  BY <1>1, BeginsAt DEF Begins
<1>4. PICK n \in Skipped(call.from) : local' = [pos |-> n, loop |-> TRUE]
  BY <1>2 DEF Enter
<1>5. local'.pos = n /\ local'.loop
  BY <1>4
<1>6. call.client \in BOOLEAN /\ call.from \in Nat /\ call.to \in Nat /\ call.from < call.to
  BY <1>1 DEF FramedCall
<1>7. Ascending(<<>>) /\ Range(<<>>) = {}
  BY DEF Ascending, Range
<1>8. ASSUME NEW j \in WholeKnown PROVE ~(j < f)
  <2>1. j \in 1..Len(call.stream) /\ InChunk(j)
    BY KnownMember
  <2>2. j \notin 1..f - 1
    BY <1>1, <2>1, BeforeFirst
  <2> QED BY <1>3, <2>1, <2>2
<1>9. CASE n = call.from /\ Kind(f) # "startup"
  <2>1. {j \in WholeKnown : j < f} = {}
    BY <1>8
  <2>2. f \in f..Len(call.stream) + 1 /\ f..f - 1 = {}
    BY <1>1, <1>3, CallFacts
  <2>3. AtMessage(f, f)'
    BY <1>1, <1>2, <1>3, <1>5, <1>6, <1>7, <1>9, <2>1, <2>2, SameCall DEF AtMessage, Kind
  <2> QED BY <1>5, <2>3
<1>10. CASE /\ call.parser = "postgres" /\ call.client /\ Kind(f) = "startup"
            /\ n = call.from + call.stream[f].size /\ n <= call.to
  <2>0. /\ Len(call.stream) \in Nat
        /\ StartOf(call.stream, f + 1) = StartOf(call.stream, f) + call.stream[f].size
    BY <1>1, <1>3, CallFacts
  <2>1. n = StartOf(call.stream, f + 1) /\ f + 1 \in f..Len(call.stream) + 1
    BY <1>3, <1>10, <2>0
  <2>2. \A j \in f..(f + 1) - 1 : ~Stops(j)
    BY <1>3 DEF Begins
  <2>3. {j \in WholeKnown : j < f + 1} = {}
    <3>1. f \notin WholeKnown
      <4>1. Known(call.parser, call.client)["startup"] = FALSE
        BY <1>1, <1>6, <1>10, KindFacts
      <4> QED BY <1>10, <4>1, KnownMember
    <3>2. \A j \in WholeKnown : j \in Int
      BY KnownMember
    <3>3. \A j \in Int : j < f + 1 => j < f \/ j = f
      OBVIOUS
    <3> QED BY <1>8, <3>1, <3>2, <3>3
  <2>4. f + 1 # f
    OBVIOUS
  <2>5. AtMessage(f, f + 1)'
    BY <1>1, <1>2, <1>5, <1>7, <1>10, <2>1, <2>2, <2>3, <2>4, SameCall DEF AtMessage
  <2> QED BY <1>5, <2>5
<1>11. \/ n = call.from /\ Kind(f) # "startup"
       \/ /\ call.parser = "postgres" /\ call.client /\ Kind(f) = "startup"
          /\ n = call.from + call.stream[f].size /\ n <= call.to
  <2>1. CASE call.parser # "postgres" \/ ~call.client
    <3>1. Kind(f) # "startup"
      BY <1>1, <1>3, <1>6, <2>1, CallFacts, KindFacts
    <3> QED BY <1>4, <2>1, <3>1 DEF Skipped
  <2>2. CASE call.parser = "postgres" /\ call.client
    <3>1. n = IF Kind(f) = "startup" /\ call.from + call.stream[f].size <= call.to
              THEN call.from + call.stream[f].size ELSE call.from
      BY <1>3, <1>4, <2>2 DEF Skipped
    <3>2. Kind(f) = "startup" => ~(StartOf(call.stream, f + 1) > call.to)
      BY DEF Begins, Stops
    <3>3. Kind(f) = "startup" => call.from + call.stream[f].size <= call.to
      BY <1>1, <1>3, <1>6, <3>2, CallFacts
    <3> QED BY <2>2, <3>1, <3>3
  <2> QED BY <1>6, <2>1, <2>2
<1> QED BY <1>9, <1>10, <1>11

LEMMA TurnLoop ==
  ASSUME FramingInv, FrameStep, Inside3, Inside3'
  PROVE  LoopInv'
<1>1. call' = call /\ call.parser \in Framed /\ status = "run" /\ local.loop /\ FramedCall
  BY DEF FrameStep, Framing, Running, Return, Panic, FramingInv
<1>2. status' # "panic"
  BY <1>1, Apart DEF Inside3, OutsideRedis
<1> SUFFICES ASSUME NEW f \in Nat, Begins(f)
             PROVE  /\ status' = "run" => local'.loop /\ \E i \in Nat : AtMessage(f, i)'
                    /\ status' = "ok" => Ascending(out') /\ Range(out') = WholeKnown
  BY <1>1, SameCall DEF LoopInv
<1>3. PICK i \in Nat : AtMessage(f, i)
  BY <1>1 DEF FramingInv, LoopInv
<1>4. f \in 1..Len(call.stream)
  BY <1>1, BeginsAt
<1> DEFINE rest == call.to - local.pos
<1>5. /\ i \in 1..Len(call.stream) + 1 /\ local.pos = StartOf(call.stream, i) /\ local.pos \in Nat
      /\ call.to \in Nat /\ rest \in Nat /\ Len(call.stream) \in Nat /\ Header \in Nat \ {0}
  BY <1>1, <1>3, <1>4, CallFacts, FramingAssumption DEF AtMessage
<1>6. ASSUME Return("ok"), i <= Len(call.stream) => StartOf(call.stream, i + 1) > call.to \/ Stops(i)
      PROVE  status' = "ok" /\ Ascending(out') /\ Range(out') = WholeKnown
  BY <1>1, <1>3, <1>6, NothingBehind DEF Return, AtMessage
<1>7. CASE i = Len(call.stream) + 1
  <2>1. rest < Header
    BY <1>1, <1>5, <1>7, CallFacts
  <2>2. Return("ok")
    BY <2>1 DEF FrameStep
  <2> QED BY <1>5, <1>6, <1>7, <2>2
<1>8. CASE i \in 1..Len(call.stream)
  <2> DEFINE size == call.stream[i].size
  <2>1. /\ Tagged(i) /\ Kind(i) \notin {"startup", "ssl"} /\ MessageAt(local.pos) = i
        /\ size \in Nat /\ size >= Header /\ StartOf(call.stream, i + 1) = local.pos + size
    BY <1>1, <1>3, <1>5, <1>8, TaggedThere, CallFacts, MessageAtStart
  <2>2. Declared(local.pos) = {size}
    BY <2>1 DEF Declared
  <2>3. CASE rest < Header
    <3>1. Return("ok")
      BY <2>3 DEF FrameStep
    <3>2. StartOf(call.stream, i + 1) > call.to
      BY <1>5, <2>1, <2>3, SMTT(40)
    <3> QED BY <1>6, <3>1, <3>2
  <2>4. CASE Refused(i)
    <3>1. Return("ok")
      BY <2>1, <2>4 DEF FrameStep
    <3>2. Stops(i)
      BY <2>4 DEF Stops
    <3> QED BY <1>6, <3>1, <3>2
  <2>5. CASE ~(rest < Header) /\ ~Refused(i) /\ ~Fits(size, rest)
    <3>1. Return("ok")
      BY <2>1, <2>2, <2>5 DEF FrameStep
    <3>2. size > rest \/ Stops(i)
      <4>1. CASE call.parser = "mysql"
        <5>1. Frames[call.parser].least = Header + 1
          BY <1>1, <4>1, FramingLeast
        <5>2. size > rest \/ size = Header
          BY <1>5, <2>1, <2>5, <5>1, SMTT(40) DEF Fits
        <5> QED BY <4>1, <5>2 DEF Stops
      <4>2. CASE call.parser # "mysql"
        <5>1. Frames[call.parser].least = Header
          BY <1>1, <4>2, FramingLeast
        <5> QED BY <1>5, <2>1, <2>5, <5>1 DEF Fits
      <4> QED BY <4>1, <4>2
    <3>3. StartOf(call.stream, i + 1) > call.to \/ Stops(i)
      BY <1>5, <2>1, <3>2
    <3> QED BY <1>6, <3>1, <3>3
  <2>6. CASE ~(rest < Header) /\ ~Refused(i) /\ Fits(size, rest)
    <3>1. /\ \E ev \in Decoded(i) : out' = out \o ev
          /\ local' = [local EXCEPT !.pos = @ + size] /\ status' = status
      BY <1>2, <2>1, <2>2, <2>6 DEF FrameStep, Panic, Return
    <3>2. ~Stops(i) /\ size <= rest
      BY <1>1, <1>5, <2>1, <2>6, FramingLeast, SMTT(40) DEF Fits, Stops
    <3>3. local'.pos = StartOf(call.stream, i + 1) /\ local'.pos <= call.to /\ local'.loop
      <4>1. local \in [pos : Int, loop : BOOLEAN]
        BY <1>1 DEF Inside3, FramingInside
      <4>2. local'.pos = local.pos + size /\ local'.loop = local.loop
        BY <3>1, <4>1
      <4> QED BY <1>1, <1>5, <2>1, <3>2, <4>2, SMTT(20)
    <3>4. {j \in WholeKnown : j < i + 1} =
            {j \in WholeKnown : j < i}
              \cup (IF Known(call.parser, call.client)[Kind(i)] THEN {i} ELSE {})
      BY <1>1, <1>3, <1>5, <1>8, <3>2, <3>3, OneMore
    <3>5. out \in Seq(Nat) /\ Ascending(out) /\ Range(out) = {j \in WholeKnown : j < i}
      BY <1>1, <1>3 DEF FramedCall, AtMessage
    <3>6. Ascending(out') /\ Range(out') = {j \in WholeKnown : j < i + 1}
      <4>1. CASE Known(call.parser, call.client)[Kind(i)]
        <5>0. Decoded(i) = {<<i>>}
          BY <1>5, <2>1, <4>1 DEF Decoded
        <5>1. out' = out \o <<i>>
          BY <3>1, <5>0
        <5> QED BY <3>4, <3>5, <4>1, <5>1, AscendingAppend
      <4>2. CASE ~Known(call.parser, call.client)[Kind(i)]
        <5>0. Decoded(i) = {<<>>}
          BY <1>5, <2>1, <4>2 DEF Decoded
        <5>1. out' = out \o <<>>
          BY <3>1, <5>0
        <5>2. out' = out
          BY <3>5, <5>1, ConcatEmptySeq
        <5> QED BY <3>4, <3>5, <4>2, <5>2
      <4> QED BY <4>1, <4>2
    <3>7. \A j \in f..(i + 1) - 1 : ~Stops(j)
      BY <1>3, <1>4, <1>5, <3>2 DEF AtMessage
    <3>8. i + 1 \in f..Len(call.stream) + 1 /\ i + 1 # f
      BY <1>3, <1>4, <1>5, <1>8 DEF AtMessage
    <3>9. AtMessage(f, i + 1)'
      BY <1>1, <3>3, <3>6, <3>7, <3>8, SameCall DEF AtMessage
    <3> QED BY <1>1, <3>1, <3>3, <3>9
  <2> QED BY <2>3, <2>4, <2>5, <2>6
<1> QED BY <1>5, <1>7, <1>8

LEMMA FramedCallNext ==
  ASSUME FramedCall, Inside3, FramingNext
  PROVE  FramedCall'
<1>1. call' = call /\ call.parser \in Framed
  BY DEF FramingNext, Enter, FrameStep, Framing, Running, Return, Panic
<1>2. local \in [pos : Int, loop : BOOLEAN] /\ out \in Seq(Nat) /\ Len(call.stream) \in Nat
  BY <1>1 DEF Inside3, FramingInside, FramedCall
<1> SUFFICES local'.loop \in BOOLEAN /\ out' \in Seq(Nat)
  BY <1>1 DEF FramedCall
<1>3. CASE Enter
  BY <1>2, <1>3 DEF Enter
<1>4. CASE FrameStep
  <2>1. CASE local' = local /\ out' = out
    BY <1>2, <2>1
  <2>2. ASSUME NEW total, local' = [local EXCEPT !.pos = @ + total],
               NEW ev \in Decoded(MessageAt(local.pos)), out' = out \o ev
        PROVE  local'.loop \in BOOLEAN /\ out' \in Seq(Nat)
    <3>1. MessageAt(local.pos) \in Nat
      BY <1>2, MessageAtRange
    <3>2. \A i \in Nat : <<i>> \in Seq(Nat)
      OBVIOUS
    <3>3. <<>> \in Seq(Nat) /\ 0 \in Nat
      OBVIOUS
    <3>4. ev \in Seq(Nat)
      BY <2>2, <3>1, <3>2, <3>3, Zenon DEF Decoded
    <3>5. out' \in Seq(Nat)
      BY <1>2, <2>2, <3>4, ConcatType
    <3> QED BY <1>2, <2>2, <3>5
  <2> QED BY <1>4, <2>1, <2>2 DEF FrameStep, Return, Panic
<1> QED BY <1>3, <1>4 DEF FramingNext

LEMMA LinesCall == LinesInit => call.parser \in LineParsers
<1> SUFFICES ASSUME LinesInit PROVE call.parser \in LineParsers
  OBVIOUS
<1>1. PICK p \in LineParsers : \E c, s, d : call = [parser |-> p, client |-> c, stream |-> s, data |-> d]
  BY DEF LinesInit
<1> QED BY <1>1

LEMMA FramingCall == FramingInit => call.parser \in Framed
<1> SUFFICES ASSUME FramingInit PROVE call.parser \in Framed
  OBVIOUS
<1>1. PICK p \in Framed : \E c, s, a, b :
        call = [parser |-> p, client |-> c, stream |-> s, from |-> a, to |-> b]
  BY DEF FramingInit
<1> QED BY <1>1

LEMMA FramingStart == MCInit => FramingInv
<1> SUFFICES ASSUME MCInit, call.parser \in Framed PROVE FramingInv
  BY DEF FramingInv, FramedCall, LoopInv
<1>1. FramingInit
  <2>1. ~NoCall
    BY Apart DEF NoCall
  <2>2. ~DnsInit
    BY Apart DEF DnsInit
  <2>3. ~RespInit
    BY Apart DEF RespInit, Aligned, Stray
  <2>4. ~LinesInit
    BY Apart, LinesCall DEF LineParsers
  <2>5. ~HelloInit
    BY Apart, HelloData
  <2> QED BY <2>1, <2>2, <2>3, <2>4, <2>5 DEF MCInit
<1>2. PICK p \in Framed, c \in BOOLEAN : \E s \in Streams(p, c) :
        \E a \in 0..StreamEnd(s) - 1 : \E b \in a + 1..StreamEnd(s) :
          call = [parser |-> p, client |-> c, stream |-> s, from |-> a, to |-> b]
  BY <1>1 DEF FramingInit
<1>3. PICK s \in Streams(p, c) : \E a \in 0..StreamEnd(s) - 1 : \E b \in a + 1..StreamEnd(s) :
        call = [parser |-> p, client |-> c, stream |-> s, from |-> a, to |-> b]
  BY <1>2
<1>4. PICK a \in 0..StreamEnd(s) - 1 : \E b \in a + 1..StreamEnd(s) :
        call = [parser |-> p, client |-> c, stream |-> s, from |-> a, to |-> b]
  BY <1>3
<1>5. PICK b \in a + 1..StreamEnd(s) :
        call = [parser |-> p, client |-> c, stream |-> s, from |-> a, to |-> b]
  BY <1>4
<1>6. StreamEnd(s) \in Nat
  <2>1. Solid(s)
    BY StreamFacts
  <2>2. Len(s) + 1 \in 1..Len(s) + 1
    BY <2>1 DEF Solid
  <2> QED BY <2>1, <2>2, StartOfNext DEF StreamEnd
<1>7. a \in Nat /\ b \in Nat /\ a < b /\ b <= StreamEnd(s)
  BY <1>6
<1>8. call.parser = p /\ call.client = c /\ call.stream = s /\ call.from = a /\ call.to = b
  BY <1>5
<1>9. local = [pos |-> a, loop |-> FALSE] /\ out = <<>> /\ status = "run"
  BY <1>1, <1>8 DEF FramingInit
<1>10. local.pos = a /\ local.loop = FALSE /\ out \in Seq(Nat)
  BY <1>9
<1>11. FramedCall
  BY <1>7, <1>8, <1>10 DEF FramedCall
<1>12. LoopInv
  BY <1>8, <1>9, <1>10 DEF LoopInv
<1> QED BY <1>11, <1>12 DEF FramingInv

LEMMA FramingKeeps ==
  FramingInv /\ Inside3 /\ Inside3' /\ [MCNext]_<<vars, callVars>> => FramingInv'
<1> SUFFICES ASSUME FramingInv, Inside3, Inside3', [MCNext]_<<vars, callVars>> PROVE FramingInv'
  OBVIOUS
<1>1. CASE UNCHANGED callVars
  <2>1. call' = call /\ local' = local /\ out' = out /\ status' = status
    BY <1>1 DEF callVars
  <2>2. \A f, i : AtMessage(f, i) => AtMessage(f, i)'
    BY <2>1, SameCall DEF AtMessage, Stops, Kind, Refused
  <2>3. LoopInv'
    BY <2>1, <2>2, SameCall DEF FramingInv, LoopInv
  <2> QED BY <2>1, <2>3 DEF FramingInv, FramedCall
<1>2. ASSUME call' = call, call.parser \notin Framed PROVE FramingInv'
  BY <1>2 DEF FramingInv, FramedCall, LoopInv
<1>3. CASE DnsNext
  BY <1>2, <1>3, Apart
     DEF DnsNext, Section, NameStep, FormatRData, TxtStep, InName, Running, Return, NameFails,
         NameEnds, Follow, Label, Panic, DecodeName
<1>4. CASE RespStep
  BY <1>2, <1>4, Apart DEF RespStep, Running, Return, Panic
<1>5. CASE PieceStep
  BY <1>2, <1>5, Apart DEF PieceStep, Running, Return, LineParsers
<1>6. CASE HelloNext
  BY <1>2, <1>6, Apart DEF HelloNext, Record, Vector, CipherSuites, ExtensionLength, Extension,
                          Running, Return, Panic
<1>7. CASE FramingNext
  <2>1. FramedCall'
    BY <1>7, FramedCallNext DEF FramingInv
  <2> QED BY <1>7, <2>1, EnterLoop, TurnLoop DEF FramingNext, FramingInv
<1> QED BY <1>1, <1>3, <1>4, <1>5, <1>6, <1>7 DEF MCNext, ParseStep, callVars

(* mysql, postgres, mongodb and mqtt/parser.go, Parse: of a chunk that     *)
(* starts with a message, an event of each whole message that the decode   *)
(* functions know, and no other, in order.                                 *)
THEOREM EveryWholeMessage == MCSpec => []WholeMessages
<1>1. FramingInv /\ Inside3 => WholeMessages
  <2> SUFFICES ASSUME FramingInv, Inside3, status = "ok", call.parser \in Framed,
                      MessageAt(call.from) # 0, ~Stops(MessageAt(call.from))
               PROVE  Range(out) = WholeKnown /\ Ascending(out)
    BY DEF WholeMessages
  <2>1. MessageAt(call.from) \in Nat
    BY MessageAtRange DEF Inside3, FramingInside
  <2>2. Begins(MessageAt(call.from))
    BY DEF Begins
  <2> QED BY <2>1, <2>2 DEF FramingInv, LoopInv
<1> QED BY <1>1, InsideInit, InsideNext, FramingStart, FramingKeeps, PTL DEF MCSpec

-----------------------------------------------------------------------------
(* Chunks of lines.                                                        *)

(* The unit behind unit d of the stream s.                                 *)
Behind(s, d) == IF d[2] < s[d[1]].text + 2 THEN <<d[1], d[2] + 1>> ELSE <<d[1] + 1, 1>>

(* d is a run of units of the stream s.                                    *)
Walk(s, d) ==
  /\ d \in Seq(Nat \X Nat)
  /\ \A j \in 1..Len(d) : d[j][1] \in 1..Len(s) /\ d[j][2] \in 1..s[d[j][1]].text + 2
  /\ \A j \in 1..Len(d) : j + 1 <= Len(d) => d[j + 1] = Behind(s, d[j])

LineStream(s) == Len(s) \in Nat /\ \A i \in 1..Len(s) : s[i] \in TextLines

LEMMA UnitsWalk ==
  ASSUME NEW s, LineStream(s), NEW i \in 1..Len(s)
  PROVE  /\ UnitsOf(i, s[i]) \in Seq(Nat \X Nat) /\ Walk(s, UnitsOf(i, s[i]))
         /\ Len(UnitsOf(i, s[i])) = s[i].text + 2
         /\ \A n \in 1..s[i].text + 2 : UnitsOf(i, s[i])[n] = <<i, n>>
<1> DEFINE t == s[i].text
           u == UnitsOf(i, s[i])
<1>1. t \in Nat /\ i \in Nat
  BY DEF LineStream, TextLines
<1>2. u = [n \in 1..t + 2 |-> <<i, n>>]
  BY DEF UnitsOf
<1> HIDE DEF u, t
<1>3. u \in [1..t + 2 -> Nat \X Nat] /\ t + 2 \in Nat /\ \A n \in 1..t + 2 : u[n] = <<i, n>>
  BY <1>1, <1>2
<1>4. u \in Seq(Nat \X Nat) /\ Len(u) = t + 2
  BY <1>3
<1>5. Walk(s, u)
  <2>1. \A j \in 1..Len(u) : u[j][1] \in 1..Len(s) /\ u[j][2] \in 1..s[u[j][1]].text + 2
    BY <1>3, <1>4 DEF t
  <2>2. ASSUME NEW j \in 1..Len(u), j + 1 <= Len(u) PROVE u[j + 1] = Behind(s, u[j])
    <3>1. u[j] = <<i, j>> /\ u[j + 1] = <<i, j + 1>> /\ j < t + 2
      BY <1>1, <1>3, <1>4, <2>2
    <3> QED BY <3>1 DEF Behind, t
  <2> QED BY <1>4, <2>1, <2>2 DEF Walk
<1> QED BY <1>3, <1>4, <1>5 DEF t, u

LEMMA ConcatWalk ==
  ASSUME NEW s, NEW x, NEW y, Walk(s, x), Walk(s, y), x # <<>>, y # <<>>, y[1] = Behind(s, x[Len(x)])
  PROVE  /\ Walk(s, x \o y) /\ Len(x \o y) = Len(x) + Len(y)
         /\ (x \o y)[Len(x \o y)] = y[Len(y)] /\ (x \o y)[1] = x[1]
<1> DEFINE z == x \o y
<1>1. x \in Seq(Nat \X Nat) /\ y \in Seq(Nat \X Nat) /\ Len(x) \in Nat \ {0} /\ Len(y) \in Nat \ {0}
  BY DEF Walk
<1>2. z \in Seq(Nat \X Nat) /\ Len(z) = Len(x) + Len(y)
      /\ \A i \in 1..Len(x) + Len(y) : z[i] = IF i <= Len(x) THEN x[i] ELSE y[i - Len(x)]
  BY <1>1, ConcatProperties
<1> HIDE DEF z
<1>3. \A i \in 1..Len(x) : z[i] = x[i]
  <2> TAKE i \in 1..Len(x)
  <2>1. i \in 1..Len(x) + Len(y) /\ i <= Len(x)
    BY <1>1
  <2> QED BY <1>2, <2>1
<1>4. \A i \in 1..Len(y) : z[Len(x) + i] = y[i]
  <2> TAKE i \in 1..Len(y)
  <2>1. Len(x) + i \in 1..Len(x) + Len(y) /\ ~(Len(x) + i <= Len(x)) /\ (Len(x) + i) - Len(x) = i
    BY <1>1, SMTT(30)
  <2> QED BY <1>2, <2>1
<1>5. \A j \in 1..Len(z) : j \in 1..Len(x) \/ \E i \in 1..Len(y) : j = Len(x) + i
  <2> TAKE j \in 1..Len(z)
  <2>1. CASE j <= Len(x)
    BY <1>1, <2>1
  <2>2. CASE ~(j <= Len(x))
    <3>1. j - Len(x) \in 1..Len(y) /\ j = Len(x) + (j - Len(x))
      BY <1>1, <1>2, <2>2
    <3> QED BY <3>1
  <2> QED BY <2>1, <2>2
<1>6. \A j \in 1..Len(z) : z[j][1] \in 1..Len(s) /\ z[j][2] \in 1..s[z[j][1]].text + 2
  <2> TAKE j \in 1..Len(z)
  <2>1. CASE j \in 1..Len(x)
    BY <1>3, <2>1 DEF Walk
  <2>2. CASE \E i \in 1..Len(y) : j = Len(x) + i
    BY <1>4, <2>2 DEF Walk
  <2> QED BY <1>5, <2>1, <2>2
<1>7. ASSUME NEW j \in 1..Len(z), j + 1 <= Len(z) PROVE z[j + 1] = Behind(s, z[j])
  <2>1. CASE j + 1 <= Len(x)
    <3>1. j \in 1..Len(x) /\ j + 1 \in 1..Len(x)
      BY <1>1, <2>1
    <3> QED BY <1>3, <2>1, <3>1 DEF Walk
  <2>2. CASE j = Len(x)
    <3>1. 1 \in 1..Len(y) /\ j \in 1..Len(x)
      BY <1>1, <2>2
    <3>2. z[j + 1] = y[1] /\ z[j] = x[j]
      BY <1>3, <1>4, <2>2, <3>1
    <3> QED BY <2>2, <3>2
  <2>3. CASE j > Len(x)
    <3>0. j \notin 1..Len(x)
      BY <1>1, <2>3
    <3>1. PICK i \in 1..Len(y) : j = Len(x) + i
      BY <1>5, <3>0
    <3>2. i + 1 \in 1..Len(y) /\ j + 1 = Len(x) + (i + 1) /\ i + 1 <= Len(y)
      BY <1>1, <1>2, <1>7, <3>1
    <3>3. z[j + 1] = y[i + 1] /\ z[j] = y[i]
      BY <1>4, <3>1, <3>2
    <3> QED BY <3>2, <3>3 DEF Walk
  <2> QED BY <1>1, <2>1, <2>2, <2>3
<1>8. z[1] = x[1] /\ z[Len(z)] = y[Len(y)]
  <2>1. 1 \in 1..Len(x) /\ Len(y) \in 1..Len(y)
    BY <1>1
  <2> QED BY <1>2, <1>3, <1>4, <2>1
<1> QED BY <1>2, <1>6, <1>7, <1>8 DEF Walk, z

LEMMA SubWalk ==
  ASSUME NEW s, NEW x, Walk(s, x), NEW a \in 1..Len(x), NEW b \in a..Len(x)
  PROVE  Walk(s, SubSeq(x, a, b)) /\ Len(SubSeq(x, a, b)) \in Nat \ {0}
<1> DEFINE d == SubSeq(x, a, b)
<1>1. x \in Seq(Nat \X Nat) /\ Len(x) \in Nat /\ a \in Nat /\ b \in Nat /\ a <= b /\ a >= 1
  BY DEF Walk
<1>2. \A i \in a..b : x[i] \in Nat \X Nat
  BY <1>1, SMTT(20)
<1>3. d \in Seq(Nat \X Nat) /\ Len(d) = b - a + 1 /\ \A i \in 1..b - a + 1 : d[i] = x[a + i - 1]
  BY <1>1, <1>2, SubSeqProperties
<1> HIDE DEF d
<1>4. \A j \in 1..Len(d) : a + j - 1 \in 1..Len(x) /\ d[j] = x[a + j - 1]
  <2> TAKE j \in 1..Len(d)
  <2>1. j \in Nat /\ j >= 1 /\ j <= b - a + 1 /\ b <= Len(x)
    BY <1>1, <1>3
  <2>2. j \in 1..b - a + 1
    BY <1>1, <2>1
  <2>3. a + j - 1 \in 1..Len(x)
    BY <1>1, <2>1
  <2> QED BY <1>3, <2>2, <2>3
<1>5. ASSUME NEW j \in 1..Len(d), j + 1 <= Len(d) PROVE d[j + 1] = Behind(s, d[j])
  <2>1. j + 1 \in 1..Len(d)
    BY <1>1, <1>3, <1>5
  <2>2. a + (j + 1) - 1 = (a + j - 1) + 1 /\ (a + j - 1) + 1 <= Len(x) /\ a + j - 1 \in 1..Len(x)
    BY <1>1, <1>4, <2>1
  <2> QED BY <1>4, <2>1, <2>2 DEF Walk
<1>6. Walk(s, d)
  BY <1>3, <1>4, <1>5 DEF Walk
<1> QED BY <1>1, <1>3, <1>6 DEF d

(* FlattenSeq of the units of the lines of a stream is a run of its units. *)
LEMMA FlattenWalk ==
  ASSUME NEW n \in Nat, n >= 1, NEW s, Len(s) = n, LineStream(s)
  PROVE  Walk(s, FlattenSeq([i \in 1..n |-> UnitsOf(i, s[i])]))
<1> DEFINE ss == [i \in 1..n |-> UnitsOf(i, s[i])]
           S == Nat \X Nat
<1>1. \A i \in 1..n : UnitsOf(i, s[i]) \in Seq(S)
  BY UnitsWalk
<1>2. ss \in [1..n -> Seq(S)] /\ \A i \in 1..n : ss[i] = UnitsOf(i, s[i])
  BY <1>1
<1> HIDE DEF ss
<1>3. ss \in Seq(Seq(S)) /\ Len(ss) = n
  <2> HIDE DEF S
  <2> QED BY <1>2
<1>4. PICK h \in [1..n -> Seq(S)] :
        /\ FlattenSeq(ss) = h[n] /\ h[1] = ss[1]
        /\ \A i \in 1..n : i # 1 => h[i] = h[i - 1] \o ss[i]
  <2> HIDE DEF S
  <2>1. Len(ss) # 0
    BY <1>3
  <2>2. \E h \in [1..Len(ss) -> Seq(S)] :
           /\ FlattenSeq(ss) = h[Len(ss)] /\ h[1] = ss[1]
           /\ \A i \in 1..Len(ss) : i # 1 => h[i] = h[i - 1] \o ss[i]
    BY <1>3, <2>1, FlattenLoop
  <2> QED BY <1>3, <2>2
<1> DEFINE Good(x, i) == Walk(s, x) /\ x # <<>> /\ x[Len(x)] = <<i, s[i].text + 2>>
<1>5. ASSUME NEW i \in 1..n
      PROVE  s[i].text \in Nat /\ Good(ss[i], i) /\ ss[i][1] = <<i, 1>>
  <2>1. s[i].text \in Nat
    BY DEF LineStream, TextLines
  <2>2. /\ Walk(s, ss[i]) /\ Len(ss[i]) = s[i].text + 2
        /\ \A m \in 1..s[i].text + 2 : ss[i][m] = <<i, m>>
    BY <1>2, UnitsWalk
  <2>3. ss[i] # <<>> /\ s[i].text + 2 \in 1..s[i].text + 2 /\ 1 \in 1..s[i].text + 2
    BY <2>1, <2>2
  <2> QED BY <2>1, <2>2, <2>3
<1> DEFINE H == {i \in 0..n : i = 0 \/ Good(h[i], i)}
<1>6. 0 \in H
  OBVIOUS
<1>7. ASSUME NEW i \in 0..n, i + 1 <= n, i \in H PROVE i + 1 \in H
  <2>1. i + 1 \in 1..n /\ (i + 1) - 1 = i /\ i + 1 \in 0..n
    BY <1>7
  <2>2. CASE i = 0
    <3>1. Good(h[1], 1)
      BY <1>4, <1>5, <2>1, <2>2
    <3> QED BY <2>1, <2>2, <3>1
  <2>3. CASE i # 0
    <3>1. i \in 1..n /\ Good(h[i], i) /\ i + 1 # 1
      BY <1>7, <2>3
    <3>2. h[i + 1] = h[i] \o ss[i + 1]
      BY <1>4, <2>1, <3>1
    <3>3. Good(ss[i + 1], i + 1) /\ ss[i + 1][1] = <<i + 1, 1>>
      BY <1>5, <2>1
    <3>4. Behind(s, <<i, s[i].text + 2>>) = <<i + 1, 1>>
      <4>1. s[i].text \in Nat
        BY <1>5, <3>1
      <4> QED BY <4>1 DEF Behind
    <3>5. Walk(s, h[i]) /\ Walk(s, ss[i + 1]) /\ h[i] # <<>> /\ ss[i + 1] # <<>>
          /\ ss[i + 1][1] = Behind(s, h[i][Len(h[i])])
      BY <3>1, <3>3, <3>4
    <3> DEFINE x == h[i]
               y == ss[i + 1]
               z == h[i + 1]
    <3>5a. Walk(s, x) /\ Walk(s, y) /\ x # <<>> /\ y # <<>> /\ y[1] = Behind(s, x[Len(x)])
           /\ z = x \o y
      BY <3>2, <3>5
    <3> HIDE DEF x, y, z
    <3>6. Walk(s, z) /\ Len(z) = Len(x) + Len(y) /\ z[Len(z)] = y[Len(y)]
      BY <3>5a, ConcatWalk
    <3>7. Len(x) \in Nat \ {0} /\ Len(y) \in Nat
      BY <3>5a, SMTT(40) DEF Walk
    <3>8. z # <<>>
      BY <3>6, <3>7
    <3>9. Good(z, i + 1)
      BY <3>3, <3>6, <3>8 DEF y
    <3> QED BY <2>1, <3>9 DEF z
  <2> QED BY <2>2, <2>3
<1>8. n \in H
  <2> HIDE DEF H
  <2>1. 0..n \subseteq H
    BY <1>6, <1>7, Induct
  <2> QED BY <2>1
<1> QED BY <1>4, <1>8 DEF ss

(* The units of a line follow each other.                                  *)
LEMMA RunIn ==
  ASSUME NEW s, NEW d, Walk(s, d), LineStream(s), NEW i \in 1..Len(d), NEW e \in Nat,
         i + e <= Len(d), d[i][2] + e <= s[d[i][1]].text + 2
  PROVE  d[i + e] = <<d[i][1], d[i][2] + e>>
<1> DEFINE H == {x \in 0..e : d[i + x] = <<d[i][1], d[i][2] + x>>}
           t == s[d[i][1]].text
<1>1. /\ d \in Seq(Nat \X Nat) /\ Len(d) \in Nat /\ i \in Nat /\ d[i] \in Nat \X Nat
      /\ d[i][1] \in Nat /\ d[i][2] \in Nat
  BY DEF Walk
<1>2. d[i][1] \in 1..Len(s) /\ t \in Nat
  BY SMTT(20) DEF Walk, LineStream, TextLines
<1>3. 0 \in H
  <2>1. d[i] = <<d[i][1], d[i][2]>>
    BY <1>1, SMTT(20)
  <2>2. i + 0 = i /\ d[i][2] + 0 = d[i][2] /\ 0 \in 0..e
    BY <1>1
  <2> QED BY <2>1, <2>2
<1>4. ASSUME NEW x \in 0..e, x + 1 <= e, x \in H PROVE x + 1 \in H
  <2>1. /\ i + x \in 1..Len(d) /\ (i + x) + 1 <= Len(d) /\ i + (x + 1) = (i + x) + 1
        /\ x + 1 \in 0..e /\ (d[i][2] + x) + 1 = d[i][2] + (x + 1) /\ d[i][2] + x < t + 2
    <3> DEFINE m == d[i][2]
               l == Len(d)
    <3>1. m + e <= t + 2 /\ x \in Nat /\ m \in Nat /\ l \in Nat /\ i \in Nat /\ i >= 1
          /\ i + e <= l /\ t \in Nat /\ x + 1 <= e
      BY <1>1, <1>2, <1>4
    <3> HIDE DEF t, H, m, l
    <3>2. i + x \in 1..l /\ (i + x) + 1 <= l /\ i + (x + 1) = (i + x) + 1
      BY <3>1
    <3>3. x + 1 \in 0..e /\ (m + x) + 1 = m + (x + 1) /\ m + x < t + 2
      BY <3>1
    <3> QED BY <3>2, <3>3 DEF m, l
  <2>2. d[(i + x) + 1] = Behind(s, d[i + x])
    BY <2>1 DEF Walk
  <2>3. d[i + x] = <<d[i][1], d[i][2] + x>>
    BY <1>4
  <2>4. Behind(s, d[i + x]) = <<d[i][1], (d[i][2] + x) + 1>>
    BY <2>1, <2>3 DEF Behind
  <2> QED BY <2>1, <2>2, <2>4
<1>5. e \in H
  <2> HIDE DEF H
  <2>1. 0..e \subseteq H
    BY <1>3, <1>4, Induct
  <2> QED BY <2>1
<1> QED BY <1>5

(* The order of two units.                                                 *)
NotAfter(x, y) == x[1] < y[1] \/ (x[1] = y[1] /\ x[2] <= y[2])

(* Units are in the order of the stream.                                   *)
LEMMA InOrder ==
  ASSUME NEW s, NEW d, Walk(s, d), LineStream(s), NEW i \in 1..Len(d), NEW j \in i..Len(d)
  PROVE  NotAfter(d[i], d[j])
<1> DEFINE n == Len(d) - i
           H == {x \in 0..n : NotAfter(d[i], d[i + x])}
<1>1. /\ d \in Seq(Nat \X Nat) /\ Len(d) \in Nat /\ i \in Nat /\ n \in Nat
      /\ \A x \in 1..Len(d) : d[x][1] \in Nat /\ d[x][2] \in Nat
  BY DEF Walk
<1>2. 0 \in H
  <2>1. i + 0 = i /\ 0 \in 0..n
    BY <1>1
  <2>2. NotAfter(d[i], d[i])
    BY <1>1 DEF NotAfter
  <2> QED BY <2>1, <2>2
<1>3. ASSUME NEW x \in 0..n, x + 1 <= n, x \in H PROVE x + 1 \in H
  <2>1. /\ i + x \in 1..Len(d) /\ (i + x) + 1 <= Len(d) /\ i + (x + 1) = (i + x) + 1
        /\ (i + x) + 1 \in 1..Len(d) /\ x + 1 \in 0..n
    BY <1>1, <1>3
  <2>2. d[(i + x) + 1] = Behind(s, d[i + x])
    BY <2>1 DEF Walk
  <2>3. d[(i + x) + 1] = <<d[i + x][1], d[i + x][2] + 1>> \/ d[(i + x) + 1] = <<d[i + x][1] + 1, 1>>
    BY <2>2 DEF Behind
  <2>4. NotAfter(d[i], d[i + x])
    BY <1>3
  <2> DEFINE y == d[i + x]
             z == d[(i + x) + 1]
  <2>5. y[1] \in Nat /\ y[2] \in Nat /\ d[i][1] \in Nat /\ d[i][2] \in Nat
    BY <1>1, <2>1
  <2>6. NotAfter(d[i], z)
    <3>1. NotAfter(d[i], y) /\ (z = <<y[1], y[2] + 1>> \/ z = <<y[1] + 1, 1>>)
      BY <2>3, <2>4
    <3> HIDE DEF y, z
    <3> QED BY <2>5, <3>1, SMTT(30) DEF NotAfter
  <2> QED BY <2>1, <2>6
<1>4. j - i \in H
  <2>0. j - i \in 0..n
    BY <1>1
  <2> HIDE DEF H, n
  <2>1. 0..n \subseteq H
    BY <1>1, <1>2, <1>3, Induct
  <2> QED BY <2>0, <2>1
<1>5. i + (j - i) = j
  BY <1>1
<1> QED BY <1>4, <1>5

(* The units of line l are all in the chunk.                               *)
WholeLine(l) == Range(UnitsOf(l, call.stream[l])) \subseteq Range(call.data)

(* The chunk starts with the LF before line l.                             *)
BehindLF(l) == l > 1 /\ call.data[1] = <<l - 1, call.stream[l - 1].text + 2>>

(* Line l should make an event.                                            *)
LineDue(l) ==
  call.stream[l].text > 0
  /\ (~call.client /\ call.parser \in {"smtp", "ftp"} => call.stream[l].code)

(* A call of a line parser is about a chunk of a stream.                   *)
LinesChunk ==
  /\ call.parser \in LineParsers /\ call.client \in BOOLEAN
  /\ LineStream(call.stream) /\ Walk(call.stream, call.data) /\ Len(call.data) \in Nat \ {0}

(* The events o are right as far as the lines in front of line cur go.     *)
Settled(o, cur) ==
  /\ o \in Seq(Nat) /\ Ascending(o) /\ \A x \in Range(o) : x < cur
  /\ \A l \in 1..Len(call.stream) :
       l < cur /\ WholeLine(l) /\ ~BehindLF(l) => (l \in Range(o) <=> LineDue(l))

LEMMA UnitFacts ==
  ASSUME LinesChunk
  PROVE  /\ Len(call.data) \in Nat \ {0} /\ Len(call.stream) \in Nat
         /\ \A j \in 1..Len(call.data) :
              /\ call.data[j][1] \in 1..Len(call.stream) /\ call.data[j][1] \in Nat
              /\ call.data[j][2] \in Nat /\ call.data[j][2] >= 1
              /\ call.data[j] = <<call.data[j][1], call.data[j][2]>>
              /\ call.data[j][2] <= call.stream[call.data[j][1]].text + 2
              /\ call.stream[call.data[j][1]].text \in Nat
         /\ \A l \in 1..Len(call.stream) :
              /\ call.stream[l].text \in Nat /\ call.stream[l].code \in BOOLEAN
              /\ call.stream[l].code => call.stream[l].text >= CodeSize
<1> DEFINE s == call.stream
           d == call.data
<1>0. LineStream(s) /\ Walk(s, d) /\ Len(d) \in Nat \ {0}
  BY DEF LinesChunk
<1> HIDE DEF s, d
<1>1. Len(s) \in Nat /\ \A l \in 1..Len(s) : s[l].text \in Nat /\ s[l].code \in BOOLEAN
                                              /\ (s[l].code => s[l].text >= CodeSize)
  BY <1>0 DEF LineStream, TextLines
<1>2. ASSUME NEW j \in 1..Len(d)
      PROVE  /\ d[j][1] \in 1..Len(s) /\ d[j][1] \in Nat /\ d[j][2] \in Nat /\ d[j][2] >= 1
             /\ d[j] = <<d[j][1], d[j][2]>>
             /\ d[j][2] <= s[d[j][1]].text + 2 /\ s[d[j][1]].text \in Nat
  <2>1. d[j] \in Nat \X Nat /\ d[j][1] \in 1..Len(s) /\ d[j][2] \in 1..s[d[j][1]].text + 2
    BY <1>0 DEF Walk
  <2> QED BY <1>1, <2>1
<1> QED BY <1>0, <1>1, <1>2 DEF s, d

(* A whole line has its first unit and its LF in the chunk.                *)
LEMMA WholeEnds ==
  ASSUME LinesChunk, NEW l \in 1..Len(call.stream), WholeLine(l)
  PROVE  /\ \E j \in 1..Len(call.data) : call.data[j] = <<l, 1>>
         /\ \E j \in 1..Len(call.data) : call.data[j] = <<l, call.stream[l].text + 2>>
<1> DEFINE s == call.stream
           d == call.data
           u == UnitsOf(l, s[l])
           n == s[l].text + 2
<1>1. n \in Nat /\ n >= 2
  BY UnitFacts
<1>2. u = [x \in 1..n |-> <<l, x>>]
  BY DEF UnitsOf
<1>3. Range(u) \subseteq Range(d)
  BY DEF WholeLine
<1>4. d \in Seq(Nat \X Nat)
  BY DEF LinesChunk, Walk
<1> HIDE DEF u, n, d
<1>5. DOMAIN u = 1..n /\ u[1] = <<l, 1>> /\ u[n] = <<l, n>> /\ 1 \in 1..n /\ n \in 1..n
  BY <1>1, <1>2
<1>6. <<l, 1>> \in Range(u) /\ <<l, n>> \in Range(u)
  BY <1>5 DEF Range
<1>7. Range(d) = {d[j] : j \in 1..Len(d)}
  <2>1. DOMAIN d = 1..Len(d)
    BY <1>4
  <2> QED BY <2>1 DEF Range
<1>8. <<l, 1>> \in {d[j] : j \in 1..Len(d)} /\ <<l, n>> \in {d[j] : j \in 1..Len(d)}
  BY <1>3, <1>6, <1>7
<1> QED BY <1>8 DEF n, d

(* A line is not whole if the chunk starts behind its first unit.          *)
LEMMA CutAtStart ==
  ASSUME LinesChunk, NEW l \in 1..Len(call.stream), WholeLine(l)
  PROVE  call.data[1][1] < l \/ call.data[1] = <<l, 1>>
<1> DEFINE x == call.data[1]
<1>1. PICK j \in 1..Len(call.data) : call.data[j] = <<l, 1>>
  BY WholeEnds
<1>2. 1 \in 1..Len(call.data) /\ j \in 1..Len(call.data)
  BY UnitFacts
<1>3. NotAfter(x, <<l, 1>>)
  BY <1>1, <1>2, InOrder DEF LinesChunk
<1>4. x = <<x[1], x[2]>> /\ x[1] \in Nat /\ x[2] \in Nat /\ x[2] >= 1 /\ l \in Nat
  BY <1>2, UnitFacts
<1> HIDE DEF x
<1>5. x[1] < l \/ (x[1] = l /\ x[2] = 1)
  BY <1>3, <1>4 DEF NotAfter
<1>6. (x[1] = l /\ x[2] = 1) => x = <<l, 1>>
  BY <1>4
<1> QED BY <1>5, <1>6 DEF x

(* Nor if the chunk ends in front of its LF.                               *)
LEMMA CutAtEnd ==
  ASSUME LinesChunk, NEW l \in 1..Len(call.stream), WholeLine(l)
  PROVE  LET x == call.data[Len(call.data)] IN l < x[1] \/ x = <<l, call.stream[l].text + 2>>
<1> DEFINE n == Len(call.data)
           x == call.data[n]
           t == call.stream[l].text
<1>1. PICK j \in 1..n : call.data[j] = <<l, t + 2>>
  BY WholeEnds
<1>2. n \in 1..n /\ n \in j..n /\ t \in Nat /\ l \in Nat
  BY UnitFacts
<1>3. NotAfter(<<l, t + 2>>, x)
  BY <1>1, <1>2, InOrder DEF LinesChunk
<1>4. x = <<x[1], x[2]>> /\ x[1] \in Nat /\ x[2] \in Nat /\ x[2] <= call.stream[x[1]].text + 2
  BY <1>2, UnitFacts
<1>5. x[1] = l => x[2] <= t + 2
  BY <1>4
<1> HIDE DEF x, t
<1>6. l < x[1] \/ (x[1] = l /\ x[2] = t + 2)
  BY <1>2, <1>3, <1>4, <1>5 DEF NotAfter
<1>7. (x[1] = l /\ x[2] = t + 2) => x = <<l, t + 2>>
  BY <1>4
<1> QED BY <1>6, <1>7 DEF x, t

(* The events o are right as far as all lines of the stream go.            *)
AllSettled(o) ==
  /\ Ascending(o)
  /\ \A l \in 1..Len(call.stream) :
       WholeLine(l) /\ ~BehindLF(l) => (l \in Range(o) <=> LineDue(l))

(* Behind the last line that is in the chunk no line is whole.             *)
LEMMA SettledEnd ==
  ASSUME LinesChunk, NEW o, NEW k \in Nat, Settled(o, k), k > call.data[Len(call.data)][1]
  PROVE  AllSettled(o)
<1> SUFFICES ASSUME NEW l \in 1..Len(call.stream), WholeLine(l), ~(l < k) PROVE FALSE
  BY DEF Settled, AllSettled
<1> DEFINE x == call.data[Len(call.data)]
<1>1. l < x[1] \/ x = <<l, call.stream[l].text + 2>>
  BY CutAtEnd
<1>2. Len(call.data) \in 1..Len(call.data)
  BY UnitFacts
<1>3. x[1] \in Nat /\ l \in Nat /\ k > x[1]
  BY <1>2, UnitFacts
<1> HIDE DEF x
<1>4. l < x[1] \/ l = x[1]
  BY <1>1
<1> QED BY <1>3, <1>4

(* No line in front of the chunk's first one is whole.                     *)
LEMMA SettledStart ==
  ASSUME LinesChunk
  PROVE  Settled(<<>>, call.data[1][1])
<1> DEFINE k == call.data[1][1]
<1>1. 1 \in 1..Len(call.data)
  BY UnitFacts
<1>2. k \in Nat
  BY <1>1, UnitFacts
<1>3. ASSUME NEW l \in 1..Len(call.stream), l < k, WholeLine(l) PROVE FALSE
  <2>1. k < l \/ call.data[1] = <<l, 1>>
    BY <1>3, CutAtStart
  <2> HIDE DEF k
  <2>2. k < l \/ k = l
    BY <2>1 DEF k
  <2> QED BY <1>2, <1>3, <2>2
<1>4. <<>> \in Seq(Nat) /\ Ascending(<<>>) /\ Range(<<>>) = {}
  BY DEF Ascending, Range
<1> QED BY <1>3, <1>4 DEF Settled

(* One more line, of which there is an event or not.                       *)
LEMMA SettledNext ==
  ASSUME NEW o, NEW k \in Nat, Settled(o, k), NEW n \in Nat, n > k, NEW x \in Nat, x >= k, x < n,
         NEW p, p = o \/ p = Append(o, x),
         \A l \in 1..Len(call.stream) :
           k <= l /\ l < n /\ WholeLine(l) /\ ~BehindLF(l) =>
             l = x /\ (LineDue(l) <=> p = Append(o, x))
  PROVE  Settled(p, n)
<1>1. o \in Seq(Nat) /\ Ascending(o) /\ \A y \in Range(o) : y < k
  BY DEF Settled
<1>2. Range(o) \subseteq Nat
  <2>1. DOMAIN o = 1..Len(o) /\ \A i \in 1..Len(o) : o[i] \in Nat
    BY <1>1
  <2> QED BY <2>1 DEF Range
<1>3. \A y \in Range(o) : y < x
  BY <1>1, <1>2
<1>4. Append(o, x) = o \o <<x>>
  BY <1>1, AppendIsConcat
<1>5. /\ Append(o, x) \in Seq(Nat) /\ Ascending(Append(o, x))
      /\ Range(Append(o, x)) = Range(o) \cup {x}
  BY <1>1, <1>3, <1>4, AscendingAppend
<1>6. p \in Seq(Nat) /\ Ascending(p) /\ x \in Nat /\ (p = o \/ Range(p) = Range(o) \cup {x})
  BY <1>1, <1>5
<1>7. \A y \in Range(p) : y < n
  BY <1>1, <1>2, <1>6
<1>8. x \notin Range(o) /\ (p = Append(o, x) => x \in Range(p)) /\ (p # Append(o, x) => p = o)
  <2>1. x \notin Range(o)
    <3>1. ~(x < x)
      OBVIOUS
    <3> QED BY <1>3, <3>1
  <2> QED BY <1>5, <2>1
<1>9. ASSUME NEW l \in 1..Len(call.stream), l < n, WholeLine(l), ~BehindLF(l)
      PROVE  l \in Range(p) <=> LineDue(l)
  <2>1. CASE l < k
    <3>1. l \in Range(o) <=> LineDue(l)
      BY <1>9, <2>1 DEF Settled
    <3>2. l # x
      BY <2>1
    <3> QED BY <1>6, <3>1, <3>2
  <2>2. CASE k <= l
    <3>1. l = x /\ (LineDue(l) <=> p = Append(o, x))
      BY <1>9, <2>2
    <3> QED BY <1>8, <3>1
  <2> QED BY <2>1, <2>2
<1> QED BY <1>6, <1>7, <1>9 DEF Settled

(* Where the CR of line k is, if unit m of the line is at i.               *)
CRAt(i, k, m) == i + (call.stream[k].text + 1 - m)

(* Where the piece ends that starts with unit m of line k at i, or with a  *)
(* LF in front of it: in front of the line's CR, if its LF is there too.   *)
LEMMA PieceBreak ==
  ASSUME LinesChunk, NEW i \in 1..Len(call.data), NEW k, NEW m, call.data[i] = <<k, m>>,
         m <= call.stream[k].text + 1,
         NEW f \in 1..Len(call.data), f = i \/ (f + 1 = i /\ IsLF(f))
  PROVE  /\ CRAt(i, k, m) \in Nat /\ CRAt(i, k, m) >= i
         /\ \A j \in i..Len(call.data) :
              j <= CRAt(i, k, m) + 1 => call.data[j] = <<k, m + (j - i)>>
         /\ CRAt(i, k, m) < Len(call.data) => PieceEnd(f) = CRAt(i, k, m) - 1
         /\ CRAt(i, k, m) >= Len(call.data) => PieceEnd(f) = Len(call.data)
<1> DEFINE c == CRAt(i, k, m)
           d == call.data
           s == call.stream
           N == Len(d)
           t == s[k].text
<1>1. /\ N \in Nat /\ i \in Nat /\ i >= 1 /\ i <= N /\ f \in Nat /\ f >= 1 /\ f <= N
      /\ k \in Nat /\ m \in Nat /\ m >= 1 /\ t \in Nat /\ m <= t + 1 /\ c = i + (t + 1 - m)
  BY UnitFacts DEF CRAt
<1> HIDE DEF c
<1>2. c \in Nat /\ c >= i /\ c + 1 = i + (t + 2 - m) /\ f <= c /\ m + (c - i) = t + 1
      /\ m + ((c + 1) - i) = t + 2
  <2>1. f <= i
    BY <1>1
  <2> HIDE DEF t, N
  <2>2. c \in Nat /\ c >= i
    BY <1>1
  <2>3. c + 1 = i + (t + 2 - m) /\ m + (c - i) = t + 1 /\ m + ((c + 1) - i) = t + 2
    <3>1. i \in Nat /\ m \in Nat /\ t \in Nat /\ c = i + (t + 1 - m)
      BY <1>1
    <3>2. c + 1 = i + (t + 2 - m)
      BY <3>1
    <3>3. m + (c - i) = t + 1
      BY <3>1
    <3>4. m + ((c + 1) - i) = t + 2
      BY <3>1
    <3> QED BY <3>2, <3>3, <3>4
  <2>4. f <= c
    BY <1>1, <2>1, <2>2
  <2> QED BY <2>2, <2>3, <2>4
<1>3. ASSUME NEW j \in i..N, j <= c + 1 PROVE d[j] = <<k, m + (j - i)>>
  <2>1. j - i \in Nat /\ i + (j - i) = j /\ i + (j - i) <= N /\ m + (j - i) <= t + 2
    <3>1. j \in Int /\ i <= j /\ j <= N /\ j <= c + 1
      BY <1>1, <1>3
    <3> HIDE DEF t, N
    <3> QED BY <1>1, <1>2, <3>1
  <2>2. d[i][1] = k /\ d[i][2] = m
    OBVIOUS
  <2>3. Walk(s, d) /\ LineStream(s) /\ i \in 1..Len(d)
    BY DEF LinesChunk
  <2> HIDE DEF d, s
  <2> DEFINE x == j - i
  <2>4. x \in Nat /\ i + x <= Len(d) /\ d[i][2] + x <= s[d[i][1]].text + 2
    BY <2>1, <2>2 DEF t, N
  <2> HIDE DEF x
  <2>5. d[i + x] = <<d[i][1], d[i][2] + x>>
    BY <2>3, <2>4, RunIn
  <2> QED BY <2>1, <2>2, <2>5 DEF x
<1>4. ASSUME NEW j \in f..N - 1, j < c PROVE j \notin Breaks(f)
  <2>1. CASE j >= i
    <3>1. j \in i..N /\ j <= c + 1 /\ m + (j - i) < t + 1 /\ m + (j - i) \in Int /\ t \in Nat
      <4>1. j \in Int /\ j <= N - 1 /\ j < c /\ j >= i
        BY <1>1, <1>4, <2>1
      <4> HIDE DEF t, N
      <4>2. m + (c - i) = t + 1 /\ m \in Nat /\ i \in Nat /\ c \in Nat /\ t \in Nat /\ N \in Nat
        BY <1>1, <1>2
      <4>3. j \in i..N /\ j <= c + 1
        BY <4>1, <4>2
      <4>4. m + (j - i) < t + 1 /\ m + (j - i) \in Int
        BY <4>1, <4>2
      <4> QED BY <4>2, <4>3, <4>4
    <3>2. d[j] = <<k, m + (j - i)>>
      BY <1>3, <3>1
    <3>3. ~IsCR(j)
      BY <3>1, <3>2 DEF IsCR, LineAt
    <3> QED BY <3>3 DEF Breaks
  <2>2. CASE ~(j >= i)
    <3>1. j = f /\ IsLF(f) /\ j \in 1..N
      <4> HIDE DEF N
      <4> QED BY <1>1, <1>4, <2>2
    <3>2. s[d[j][1]].text \in Nat
      BY <3>1, UnitFacts
    <3>3. ~IsCR(j)
      BY <3>1, <3>2 DEF IsCR, IsLF, LineAt
    <3> QED BY <3>3 DEF Breaks
  <2> QED BY <2>1, <2>2
<1>5. ASSUME c < N PROVE PieceEnd(f) = c - 1
  <2>1. c \in i..N /\ c + 1 \in i..N /\ c \in f..N - 1 /\ c <= c + 1 /\ c + 1 <= c + 1
    <3>1. c < N /\ f <= i
      BY <1>1, <1>5
    <3> HIDE DEF N
    <3>2. c \in Nat /\ i \in Nat /\ f \in Nat /\ N \in Nat /\ c >= i
      BY <1>1, <1>2
    <3> QED BY <3>1, <3>2
  <2>2. d[c] = <<k, t + 1>> /\ d[c + 1] = <<k, t + 2>>
    <3>1. d[c] = <<k, m + (c - i)>> /\ d[c + 1] = <<k, m + ((c + 1) - i)>>
      BY <1>3, <2>1
    <3> QED BY <1>2, <3>1
  <2>3. IsCR(c) /\ IsLF(c + 1)
    BY <2>2 DEF IsCR, IsLF, LineAt
  <2>4. c \in Breaks(f)
    BY <2>1, <2>3 DEF Breaks
  <2>5. \A j \in Breaks(f) : j \in Int /\ c <= j
    <3>1. \A j \in Breaks(f) : j \in f..N - 1
      BY DEF Breaks
    <3> HIDE DEF N
    <3> QED BY <1>1, <1>2, <1>4, <3>1, SMTT(40)
  <2>6. PieceEnd(f) = (CHOOSE j \in Breaks(f) : \A x \in Breaks(f) : j <= x) - 1
    BY <2>4 DEF PieceEnd
  <2> DEFINE e == CHOOSE j \in Breaks(f) : \A x \in Breaks(f) : j <= x
  <2>7. e \in Breaks(f) /\ \A x \in Breaks(f) : e <= x
    BY <2>4, <2>5
  <2> HIDE DEF e
  <2>8. e = c
    BY <1>2, <2>4, <2>5, <2>7
  <2> QED BY <2>6, <2>8 DEF e
<1>6. ASSUME c >= N PROVE PieceEnd(f) = N
  <2>1. \A j \in f..N - 1 : j < c
    <3> HIDE DEF N
    <3> QED BY <1>1, <1>2, <1>6
  <2>2. Breaks(f) = {}
    BY <1>4, <2>1 DEF Breaks
  <2> QED BY <2>2 DEF PieceEnd
<1> QED BY <1>1, <1>2, <1>3, <1>5, <1>6 DEF c

(* Whether there is an event of a whole line.                              *)
LEMMA EventOfLine ==
  ASSUME LinesChunk, NEW i \in 1..Len(call.data), NEW k, call.data[i] = <<k, 1>>,
         NEW e, e = i + call.stream[k].text - 1, NEW event \in Eligible(i, e)
  PROVE  event \in BOOLEAN /\ (event <=> LineDue(k))
<1> DEFINE t == call.stream[k].text
           r == call.stream[k].code
<1>1. k \in 1..Len(call.stream) /\ t \in Nat /\ r \in BOOLEAN /\ (r => t >= CodeSize) /\ i \in Nat
  BY UnitFacts, SMTT(40)
<1>2. CodeSize \in Nat
  BY LinesAssumption
<1>3. (i > e <=> t = 0) /\ e - i + 1 = t
  <2> HIDE DEF t
  <2>1. e = i + t - 1
    BY DEF t
  <2> QED BY <1>1, <2>1
<1>4. call.parser \in {"smtp", "ftp", "imap", "pop3"} /\ call.client \in BOOLEAN
  BY DEF LinesChunk, LineParsers
<1>5. CASE t = 0
  <2>1. Eligible(i, e) = {FALSE}
    BY <1>3, <1>5 DEF Eligible
  <2>2. ~(t > 0)
    BY <1>5
  <2>3. event = FALSE
    BY <2>1
  <2> QED BY <2>2, <2>3 DEF LineDue
<1>6. CASE t # 0
  <2>1. ~IsLF(i) /\ ~IsCR(i) /\ call.data[i][2] = 1 /\ LineAt(i) = k
    <3>1. call.data[i][1] = k /\ call.data[i][2] = 1
      OBVIOUS
    <3>2. 1 # t + 1 /\ 1 # t + 2
      <4> HIDE DEF t
      <4> QED BY <1>1, <1>6
    <3> QED BY <3>1, <3>2 DEF IsLF, IsCR, LineAt
  <2>2. StartsWithCode(i, e) = {r}
    <3>1. CASE t < CodeSize
      <4>1. StartsWithCode(i, e) = {FALSE}
        BY <1>3, <3>1 DEF StartsWithCode
      <4>2. r = FALSE
        BY <1>1, <1>2, <3>1
      <4> QED BY <4>1, <4>2
    <3>2. CASE ~(t < CodeSize)
      BY <1>3, <2>1, <3>2 DEF StartsWithCode
    <3> QED BY <3>1, <3>2
  <2>3. ~(i > e) /\ t > 0
    BY <1>1, <1>3, <1>6
  <2>4. CASE call.parser = "smtp"
    <3>1. Eligible(i, e) = IF call.client THEN {TRUE} ELSE {r}
      BY <2>2, <2>3, <2>4 DEF Eligible, SmtpEvent
    <3>2. LineDue(k) <=> call.client \/ r
      BY <1>1, <1>4, <2>3, <2>4 DEF LineDue
    <3>3. CASE call.client
      <4>1. event = TRUE
        BY <3>1, <3>3
      <4> QED BY <3>2, <3>3, <4>1
    <3>4. CASE ~call.client
      <4>1. event = r
        BY <3>1, <3>4
      <4> HIDE DEF r
      <4> QED BY <1>1, <3>2, <3>4, <4>1
    <3> QED BY <3>3, <3>4
  <2>5. CASE call.parser = "ftp"
    <3>1. Eligible(i, e) = IF call.client THEN {TRUE} ELSE {r}
      BY <2>2, <2>3, <2>5 DEF Eligible, FtpEvent
    <3>2. LineDue(k) <=> call.client \/ r
      BY <1>1, <1>4, <2>3, <2>5 DEF LineDue
    <3>3. CASE call.client
      <4>1. event = TRUE
        BY <3>1, <3>3
      <4> QED BY <3>2, <3>3, <4>1
    <3>4. CASE ~call.client
      <4>1. event = r
        BY <3>1, <3>4
      <4> HIDE DEF r
      <4> QED BY <1>1, <3>2, <3>4, <4>1
    <3> QED BY <3>3, <3>4
  <2>6. CASE call.parser = "imap"
    BY <2>3, <2>6 DEF Eligible, ImapEvent, LineDue
  <2>7. CASE call.parser = "pop3"
    BY <2>3, <2>7 DEF Eligible, Pop3Event, LineDue
  <2> QED BY <1>4, <2>4, <2>5, <2>6, <2>7
<1> QED BY <1>5, <1>6

(* Behind the LF of a line comes the first unit of the next one, or the    *)
(* end of the chunk, behind which no line is whole.                        *)
LEMMA BehindBreak ==
  ASSUME LinesChunk, NEW j \in 1..Len(call.data), NEW k, call.data[j] = <<k, call.stream[k].text + 2>>,
         NEW p, Settled(p, k + 1)
  PROVE  /\ k \in Nat
         /\ j + 1 <= Len(call.data) => /\ call.data[j + 1] = <<k + 1, 1>>
                                       /\ call.data[j + 1][2] = 1 /\ Settled(p, LineAt(j + 1))
         /\ j + 1 > Len(call.data) => AllSettled(p)
<1>1. k \in Nat /\ call.stream[k].text \in Nat /\ Len(call.data) \in Nat /\ j \in Nat
  BY UnitFacts
<1>2. ASSUME j + 1 <= Len(call.data)
      PROVE  /\ call.data[j + 1] = <<k + 1, 1>> /\ call.data[j + 1][2] = 1
             /\ Settled(p, LineAt(j + 1))
  <2>1. call.data[j + 1] = Behind(call.stream, call.data[j])
    BY <1>2 DEF LinesChunk, Walk
  <2>2. call.data[j + 1] = <<k + 1, 1>>
    BY <1>1, <2>1 DEF Behind
  <2> QED BY <2>2 DEF LineAt
<1>3. ASSUME j + 1 > Len(call.data) PROVE AllSettled(p)
  <2>1. j = Len(call.data)
    BY <1>1, <1>3
  <2>2. call.data[Len(call.data)][1] = k
    BY <2>1
  <2>3. k + 1 \in Nat /\ k + 1 > call.data[Len(call.data)][1]
    BY <1>1, <2>2
  <2> QED BY <2>3, SettledEnd
<1> QED BY <1>1, <1>2, <1>3

(* The lines from k on in front of n have no whole line to be settled.     *)
LEMMA SettledVoid ==
  ASSUME NEW o, NEW k \in Nat, Settled(o, k), NEW n \in Nat, n > k, NEW x \in Nat, x >= k, x < n,
         NEW p, p = o \/ p = Append(o, x),
         \A l \in 1..Len(call.stream) : k <= l /\ l < n => ~WholeLine(l) \/ BehindLF(l)
  PROVE  Settled(p, n)
BY SettledNext

(* Line k is settled.                                                      *)
LEMMA SettledLine ==
  ASSUME NEW o, NEW k \in Nat, Settled(o, k), NEW p, p = o \/ p = Append(o, k),
         WholeLine(k) /\ ~BehindLF(k) => (LineDue(k) <=> p = Append(o, k))
  PROVE  Settled(p, k + 1)
<1> DEFINE n == k + 1
<1>1. n \in Nat /\ n > k /\ k >= k /\ k < n
  OBVIOUS
<1>2. \A l \in 1..Len(call.stream) :
        k <= l /\ l < n /\ WholeLine(l) /\ ~BehindLF(l) => l = k /\ (LineDue(l) <=> p = Append(o, k))
  <2> TAKE l \in 1..Len(call.stream)
  <2>1. k <= l /\ l < n => l = k
    OBVIOUS
  <2> QED BY <2>1
<1> HIDE DEF n
<1>3. Settled(p, n)
  BY <1>1, <1>2, SettledNext
<1> QED BY <1>3 DEF n

(* One turn of the loop over the pieces, from the first piece or one that  *)
(* starts with a line.                                                     *)
LEMMA OnePiece ==
  ASSUME LinesChunk, NEW i \in 1..Len(call.data), NEW o, Settled(o, LineAt(i)),
         i = 1 \/ call.data[i][2] = 1, NEW event \in Eligible(i, PieceEnd(i)),
         NEW p, p = IF event THEN Append(o, LineAt(PieceEnd(i))) ELSE o,
         NEW n, n = AfterBreak(PieceEnd(i))
  PROVE  /\ n \in Nat /\ n >= 1
         /\ n <= Len(call.data) => call.data[n][2] = 1 /\ Settled(p, LineAt(n))
         /\ n > Len(call.data) => AllSettled(p)
<1> DEFINE N == Len(call.data)
           e == PieceEnd(i)
<1>0. PICK k, m : call.data[i] = <<k, m>> /\ call.data[i][1] = k /\ call.data[i][2] = m
  BY UnitFacts
<1> DEFINE t == call.stream[k].text
<1>1. /\ N \in Nat /\ N >= 1 /\ i \in Nat /\ i >= 1 /\ i <= N /\ k \in Nat /\ k \in 1..Len(call.stream)
      /\ m \in Nat /\ m >= 1 /\ m <= t + 2 /\ t \in Nat /\ call.data[i] = <<k, m>>
  BY <1>0, UnitFacts
<1>2. Settled(o, k) /\ o \in Seq(Nat)
  BY <1>0 DEF LineAt, Settled
<1>3. n = e + 3
  BY DEF AfterBreak
<1>4. p = o \/ p = Append(o, LineAt(e))
  OBVIOUS
<1>5. CASE m <= t + 1
  <2> DEFINE c == CRAt(i, k, m)
  <2>1. /\ c \in Nat /\ c >= i
        /\ \A j \in i..N : j <= c + 1 => call.data[j] = <<k, m + (j - i)>>
        /\ c < N => e = c - 1
        /\ c >= N => e = N
    <3> HIDE DEF c
    <3>1. call.data[i] = <<k, m>> /\ m <= call.stream[k].text + 1
      BY <1>1, <1>5
    <3>2. i = i \/ (i + 1 = i /\ IsLF(i))
      OBVIOUS
    <3>3. /\ c \in Nat /\ c >= i
          /\ \A j \in i..Len(call.data) : j <= c + 1 => call.data[j] = <<k, m + (j - i)>>
          /\ c < Len(call.data) => PieceEnd(i) = c - 1
          /\ c >= Len(call.data) => PieceEnd(i) = Len(call.data)
      BY <3>1, <3>2, PieceBreak DEF c
    <3> QED BY <3>3 DEF N, e
  <2> HIDE DEF c
  <2>2. k + 1 \in Nat /\ k + 1 > k /\ \A l \in 1..Len(call.stream) : k <= l /\ l < k + 1 => l = k
    <3> QED BY <1>1
  <2>3. CASE c < N
    <3>1. /\ c + 1 \in i..N /\ c + 1 \in 1..N /\ c + 1 <= c + 1 /\ m + ((c + 1) - i) = t + 2
          /\ e = c - 1 /\ n = (c + 1) + 1
      <4> HIDE DEF t, N, e
      <4>1. c \in Nat /\ i \in Nat /\ i >= 1 /\ N \in Nat /\ m \in Nat /\ t \in Nat /\ c >= i /\ c < N
            /\ c = i + (t + 1 - m)
        BY <1>1, <2>1, <2>3 DEF c, CRAt, t
      <4>2. c + 1 \in i..N /\ c + 1 \in 1..N /\ c + 1 <= c + 1
        BY <4>1
      <4>3. m + ((c + 1) - i) = t + 2
        BY <4>1
      <4>4. e = c - 1 /\ n = (c + 1) + 1
        BY <1>3, <2>1, <2>3, <4>1
      <4> QED BY <4>2, <4>3, <4>4
    <3>2. call.data[c + 1] = <<k, call.stream[k].text + 2>>
      BY <2>1, <3>1
    <3>3. p = o \/ p = Append(o, k)
      <4>1. CASE i > e
        <5>1. event = FALSE
          BY <4>1 DEF Eligible
        <5> QED BY <5>1
      <4>2. CASE ~(i > e)
        <5>1. e \in i..N /\ e <= c + 1
          <6> HIDE DEF t, N, e
          <6> QED BY <1>1, <2>1, <2>3, <3>1, <4>2
        <5>2. LineAt(e) = k
          BY <2>1, <5>1 DEF LineAt
        <5> QED BY <1>4, <5>2
      <4> QED BY <4>1, <4>2
    <3>4. ASSUME WholeLine(k), ~BehindLF(k) PROVE LineDue(k) <=> p = Append(o, k)
      <4>1. m = 1
        <5>1. CASE i = 1
          <6>1. call.data[1][1] < k \/ call.data[1] = <<k, 1>>
            BY <1>1, <3>4, CutAtStart
          <6>2. ~(k < k)
            BY <1>1
          <6> QED BY <1>0, <5>1, <6>1, <6>2
        <5> QED BY <1>0, <5>1
      <4>2. call.data[i] = <<k, 1>> /\ e = i + call.stream[k].text - 1
        <5>1. e = i + t - 1
          <6> HIDE DEF t, N, e
          <6> QED BY <1>1, <3>1, <4>1, SMTT(40) DEF c, CRAt, t
        <5> QED BY <1>1, <4>1, <5>1
      <4>3. event \in BOOLEAN /\ (event <=> LineDue(k))
        BY <4>2, EventOfLine
      <4>4. CASE event = TRUE
        <5>1. ~(i > e)
          BY <4>4 DEF Eligible
        <5>2. e \in i..N /\ e <= c + 1
          <6> HIDE DEF t, N, e
          <6>1. e = c - 1 /\ c \in Nat /\ c < N /\ N \in Nat /\ i \in Nat /\ ~(i > e)
            BY <1>1, <2>1, <2>3, <3>1, <5>1
          <6> QED BY <6>1
        <5>3. LineAt(e) = k
          BY <2>1, <5>2 DEF LineAt
        <5> QED BY <4>3, <4>4, <5>3
      <4>5. CASE event = FALSE
        <5>1. p = o
          BY <4>5
        <5>2. Append(o, k) # o
          <6>1. Len(Append(o, k)) = Len(o) + 1 /\ Len(o) \in Nat
            BY <1>1, <1>2
          <6> QED BY <6>1
        <5> QED BY <4>3, <4>5, <5>1, <5>2
      <4> QED BY <4>3, <4>4, <4>5
    <3>5. Settled(p, k + 1)
      BY <1>1, <1>2, <3>3, <3>4, SettledLine
    <3>6. /\ (c + 1) + 1 <= N => /\ call.data[(c + 1) + 1][2] = 1
                                 /\ Settled(p, LineAt((c + 1) + 1))
          /\ (c + 1) + 1 > N => AllSettled(p)
      <4> QED BY <3>1, <3>2, <3>5, BehindBreak
    <3>7. n \in Nat /\ n >= 1
      BY <2>1, <3>1, SMTT(40)
    <3> QED BY <3>1, <3>6, <3>7
  <2>4. CASE c >= N
    <3>1. N \in i..N /\ N <= c + 1 /\ m + (N - i) # t + 2 /\ e = N /\ n = N + 3
      <4> HIDE DEF t, N, e
      <4>1. c \in Nat /\ i \in Nat /\ i <= N /\ N \in Nat /\ m \in Nat /\ t \in Nat /\ c >= N
            /\ c = i + (t + 1 - m)
        BY <1>1, <2>1, <2>4 DEF c, CRAt, t
      <4>2. N \in i..N /\ N <= c + 1
        BY <4>1
      <4>3. m + (N - i) # t + 2
        BY <4>1
      <4>4. e = N /\ n = N + 3
        BY <1>3, <2>1, <2>4
      <4> QED BY <4>2, <4>3, <4>4
    <3>2. call.data[N] = <<k, m + (N - i)>>
      BY <2>1, <3>1
    <3>3. LineAt(e) = k
      BY <3>1, <3>2 DEF LineAt
    <3>4. ~WholeLine(k)
      <4> SUFFICES ASSUME WholeLine(k) PROVE FALSE
        OBVIOUS
      <4>1. k < call.data[N][1] \/ call.data[N] = <<k, t + 2>>
        BY <1>1, CutAtEnd
      <4>2. ~(k < k)
        BY <1>1
      <4> QED BY <3>1, <3>2, <4>1, <4>2
    <3>5. Settled(p, k + 1)
      <4>1. \A l \in 1..Len(call.stream) : k <= l /\ l < k + 1 => ~WholeLine(l) \/ BehindLF(l)
        BY <2>2, <3>4
      <4> DEFINE q == k + 1
      <4>2. q \in Nat /\ q > k /\ k >= k /\ k < q /\ k \in Nat
        BY <1>1
      <4>3. \A l \in 1..Len(call.stream) : k <= l /\ l < q => ~WholeLine(l) \/ BehindLF(l)
        BY <4>1
      <4>4. p = o \/ p = Append(o, k)
        BY <1>4, <3>3
      <4> HIDE DEF q
      <4>5. Settled(p, q)
        BY <1>2, <4>2, <4>3, <4>4, SettledVoid
      <4> QED BY <4>5 DEF q
    <3>6. call.data[N][1] = k
      BY <3>2
    <3>7. AllSettled(p)
      <4> QED BY <2>2, <3>5, <3>6, SettledEnd
    <3>8. n \in Nat /\ n > N /\ n >= 1 /\ ~(n <= N)
      <4>1. n = N + 3 /\ N \in Nat
        BY <1>1, <3>1
      <4> HIDE DEF N
      <4> QED BY <4>1
    <3> QED BY <3>7, <3>8
  <2> QED BY <1>1, <2>1, <2>3, <2>4
<1>6. CASE ~(m <= t + 1)
  <2>1. m = t + 2 /\ i = 1 /\ m # 1
    <3>1. m = t + 2 /\ m # 1
      <4> HIDE DEF t
      <4> QED BY <1>1, <1>6
    <3> QED BY <1>0, <3>1
  <2>2. IsLF(1)
    BY <1>0, <2>1 DEF IsLF, LineAt
  <2>3. ~WholeLine(k)
    <3> SUFFICES ASSUME WholeLine(k) PROVE FALSE
      OBVIOUS
    <3>1. call.data[1][1] < k \/ call.data[1] = <<k, 1>>
      BY <1>1, CutAtStart
    <3>2. ~(k < k)
      BY <1>1
    <3> QED BY <1>0, <2>1, <3>1, <3>2
  <2>4. CASE N = 1
    <3>1. Breaks(1) = {}
      BY <2>4 DEF Breaks
    <3>2. e = 1 /\ n = 4 /\ LineAt(e) = k
      BY <1>0, <1>3, <2>1, <2>4, <3>1 DEF PieceEnd, LineAt
    <3>3. Settled(p, k + 1)
      <4>1. \A l \in 1..Len(call.stream) : k <= l /\ l < k + 1 => ~WholeLine(l) \/ BehindLF(l)
        BY <1>1, <2>3
      <4> DEFINE q == k + 1
      <4>2. q \in Nat /\ q > k /\ k >= k /\ k < q /\ k \in Nat
        BY <1>1
      <4>3. \A l \in 1..Len(call.stream) : k <= l /\ l < q => ~WholeLine(l) \/ BehindLF(l)
        BY <4>1
      <4>4. p = o \/ p = Append(o, k)
        BY <1>4, <3>2
      <4> HIDE DEF q
      <4>5. Settled(p, q)
        BY <1>2, <4>2, <4>3, <4>4, SettledVoid
      <4> QED BY <4>5 DEF q
    <3>4. call.data[N][1] = k /\ k + 1 \in Nat /\ k + 1 > k
      BY <1>1, <2>1, <2>4
    <3>5. AllSettled(p)
      <4> QED BY <3>3, <3>4, SettledEnd
    <3> QED BY <2>4, <3>2, <3>5
  <2>5. CASE N # 1
    <3> DEFINE q == k + 1
               u == call.stream[q].text
               c == CRAt(2, q, 1)
    <3>0. 1 + 1 <= N /\ 1 \in 1..N /\ 2 \in 1..N /\ k + 2 \in Nat /\ k + 2 > k /\ q \in Nat
      <4>1. k \in Nat /\ N \in Nat /\ N >= 1 /\ N # 1
        BY <1>1, <2>5
      <4> HIDE DEF N
      <4>2. 1 + 1 <= N /\ 1 \in 1..N /\ 2 \in 1..N
        BY <4>1
      <4>3. k + 2 \in Nat /\ k + 2 > k /\ k + 1 \in Nat
        BY <4>1
      <4> QED BY <4>2, <4>3
    <3>1. call.data[2] = <<q, 1>>
      <4>1. call.data[1 + 1] = Behind(call.stream, call.data[1])
        BY <3>0 DEF LinesChunk, Walk
      <4>2. call.data[1] = <<k, t + 2>>
        BY <1>1, <2>1
      <4> QED BY <1>1, <4>1, <4>2, SMTT(40) DEF Behind
    <3>2. u \in Nat /\ q \in 1..Len(call.stream)
      <4> HIDE DEF q
      <4> QED BY <3>0, <3>1, UnitFacts
    <3>3. BehindLF(q)
      <4>1. q - 1 = k /\ q > 1
        <5> QED BY <1>1
      <4>2. call.data[1] = <<k, call.stream[k].text + 2>>
        BY <1>1, <2>1
      <4> QED BY <4>1, <4>2 DEF BehindLF
    <3>4. \A l \in 1..Len(call.stream) : k <= l /\ l < k + 2 => ~WholeLine(l) \/ BehindLF(l)
      <4>1. \A l \in 1..Len(call.stream) : k <= l /\ l < k + 2 => l = k \/ l = k + 1
        BY <1>1
      <4> QED BY <2>3, <3>3, <4>1
    <3>5. /\ c \in Nat /\ c >= 2
          /\ \A j \in 2..N : j <= c + 1 => call.data[j] = <<q, 1 + (j - 2)>>
          /\ c < N => e = c - 1
          /\ c >= N => e = N
      <4> HIDE DEF q, c, N, e
      <4>1. call.data[2] = <<q, 1>> /\ 1 <= call.stream[q].text + 1
        <5> HIDE DEF u
        <5>1. 1 <= u + 1
          BY <3>2
        <5> QED BY <3>1, <5>1 DEF u
      <4>2. 2 \in 1..Len(call.data) /\ 1 \in 1..Len(call.data) /\ 1 + 1 = 2
        BY <3>0 DEF N
      <4>3. 1 = 2 \/ (1 + 1 = 2 /\ IsLF(1))
        BY <2>2
      <4>4. /\ c \in Nat /\ c >= 2
            /\ \A j \in 2..Len(call.data) : j <= c + 1 => call.data[j] = <<q, 1 + (j - 2)>>
            /\ c < Len(call.data) => PieceEnd(1) = c - 1
            /\ c >= Len(call.data) => PieceEnd(1) = Len(call.data)
        BY <4>1, <4>2, <4>3, PieceBreak DEF c
      <4> QED BY <2>1, <4>4 DEF N, e
    <3>6. \A j \in 2..N : j <= c + 1 => LineAt(j) = q
      BY <3>5 DEF LineAt
    <3>7. LineAt(1) = k
      BY <1>0, <2>1 DEF LineAt
    <3>8. k \in Nat /\ k >= k /\ k < k + 2 /\ q >= k /\ q < k + 2
      <4> QED BY <1>1
    <3>9. CASE c < N
      <4>1. /\ c + 1 \in 2..N /\ c + 1 \in 1..N /\ c + 1 <= c + 1 /\ 1 + ((c + 1) - 2) = u + 2
            /\ e = c - 1 /\ n = (c + 1) + 1 /\ (e = 1 \/ (e \in 2..N /\ e <= c + 1))
        <5>1. e = c - 1 /\ c \in Nat /\ c >= 2 /\ N \in Nat /\ c < N
          BY <1>1, <3>5, <3>9
        <5>2. 1 + ((c + 1) - 2) = u + 2
          <6> HIDE DEF u
          <6>1. c = 2 + (u + 1 - 1)
            BY DEF CRAt, u
          <6> HIDE DEF c
          <6> QED BY <3>2, <6>1
        <5> HIDE DEF e, c, N, u
        <5> QED BY <1>3, <5>1, <5>2
      <4>2. call.data[c + 1] = <<q, call.stream[q].text + 2>>
        <5> HIDE DEF c, q
        <5> QED BY <3>5, <4>1
      <4>3. Settled(p, k + 2)
        <5> HIDE DEF e, c, N
        <5>1. LineAt(e) = k \/ LineAt(e) = k + 1
          BY <3>6, <3>7, <4>1
        <5> QED BY <1>2, <1>4, <3>0, <3>4, <3>8, <5>1, SettledVoid
      <4>4. Settled(p, q + 1)
        <5>1. q + 1 = k + 2
          <6> QED BY <1>1
        <5> QED BY <4>3, <5>1
      <4>5. /\ (c + 1) + 1 <= N => /\ call.data[(c + 1) + 1][2] = 1
                                   /\ Settled(p, LineAt((c + 1) + 1))
            /\ (c + 1) + 1 > N => AllSettled(p)
        <5> HIDE DEF q, c
        <5> QED BY <4>1, <4>2, <4>4, BehindBreak
      <4>6. n \in Nat /\ n >= 1
        <5> HIDE DEF c
        <5> QED BY <3>5, <4>1
      <4> QED BY <4>1, <4>5, <4>6
    <3>10. CASE c >= N
      <4>1. N \in 2..N /\ N <= c + 1 /\ e = N /\ n = N + 3
        <5>1. c \in Nat /\ c >= N /\ e = N /\ N \in Nat /\ N >= 1 /\ N # 1
          BY <1>1, <2>5, <3>5, <3>10
        <5> HIDE DEF e, c, N
        <5> QED BY <1>3, <5>1
      <4>2. LineAt(e) = q /\ call.data[N][1] = q
        <5> HIDE DEF q, c
        <5> QED BY <3>6, <4>1 DEF LineAt
      <4>3. Settled(p, k + 2)
        <5> HIDE DEF e, c, N
        <5>1. LineAt(e) = k + 1
          BY <4>2
        <5> QED BY <1>2, <1>4, <3>0, <3>4, <3>8, <5>1, SettledVoid
      <4>4. AllSettled(p)
        <5>1. k + 2 > call.data[N][1]
          BY <3>8, <4>2
        <5> QED BY <3>0, <4>3, <5>1, SettledEnd
      <4>5. n \in Nat /\ n > N
        BY <1>1, <4>1, SMTT(40)
      <4> QED BY <1>1, <4>4, <4>5
    <3>11. c < N \/ c >= N
      BY <1>1, <3>5
    <3> QED BY <3>9, <3>10, <3>11
  <2> QED BY <2>4, <2>5
<1> QED BY <1>5, <1>6

(* The inductive invariant of the loop over the pieces: a turn begins with *)
(* the chunk or with a line, and the lines in front of it are settled.     *)
LinesInv ==
  call.parser \in LineParsers =>
    /\ LinesChunk
    /\ status = "run" =>
         /\ local.pos \in Nat /\ local.pos >= 1
         /\ local.pos <= Len(call.data) =>
              /\ local.pos = 1 \/ call.data[local.pos][2] = 1
              /\ Settled(out, LineAt(local.pos))
         /\ local.pos > Len(call.data) => AllSettled(out)
    /\ status = "ok" => AllSettled(out)

LEMMA LinesStart == MCInit => LinesInv
<1> SUFFICES ASSUME MCInit, call.parser \in LineParsers PROVE LinesInv
  BY DEF LinesInv
<1>1. LinesInit
  <2>1. ~NoCall
    BY Apart DEF NoCall
  <2>2. ~DnsInit
    BY Apart DEF DnsInit
  <2>3. ~RespInit
    BY Apart DEF RespInit, Aligned, Stray
  <2>4. ~FramingInit
    BY Apart, FramingCall DEF LineParsers
  <2>5. ~HelloInit
    BY Apart, HelloData
  <2> QED BY <2>1, <2>2, <2>3, <2>4, <2>5 DEF MCInit
<1>2. PICK p \in LineParsers, c \in BOOLEAN, n \in 1..MaxLines : \E s \in [1..n -> TextLines] :
        LET u == FlattenSeq([i \in 1..n |-> UnitsOf(i, s[i])]) IN
        \E a \in 1..Len(u) : \E b \in a..Len(u) :
          /\ call = [parser |-> p, client |-> c, stream |-> s, data |-> SubSeq(u, a, b)]
          /\ local = [pos |-> 1] /\ out = <<>> /\ status = "run"
  BY <1>1 DEF LinesInit
<1>3. PICK s \in [1..n -> TextLines] :
        LET u == FlattenSeq([i \in 1..n |-> UnitsOf(i, s[i])]) IN
        \E a \in 1..Len(u) : \E b \in a..Len(u) :
          /\ call = [parser |-> p, client |-> c, stream |-> s, data |-> SubSeq(u, a, b)]
          /\ local = [pos |-> 1] /\ out = <<>> /\ status = "run"
  BY <1>2
<1> DEFINE u == FlattenSeq([i \in 1..n |-> UnitsOf(i, s[i])])
<1>4. PICK a \in 1..Len(u) : \E b \in a..Len(u) :
          /\ call = [parser |-> p, client |-> c, stream |-> s, data |-> SubSeq(u, a, b)]
          /\ local = [pos |-> 1] /\ out = <<>> /\ status = "run"
  BY <1>3
<1>5. PICK b \in a..Len(u) :
          /\ call = [parser |-> p, client |-> c, stream |-> s, data |-> SubSeq(u, a, b)]
          /\ local = [pos |-> 1] /\ out = <<>> /\ status = "run"
  BY <1>4
<1>6. n \in Nat /\ n >= 1 /\ Len(s) = n /\ LineStream(s)
  <2>1. n \in Nat /\ n >= 1
    BY LinesAssumption
  <2>2. s \in Seq(TextLines) /\ Len(s) = n
    BY <2>1
  <2> QED BY <2>1, <2>2 DEF LineStream
<1>7. Walk(s, u)
  BY <1>6, FlattenWalk
<1> HIDE DEF u
<1>8. Walk(s, SubSeq(u, a, b)) /\ Len(SubSeq(u, a, b)) \in Nat \ {0}
  BY <1>7, SubWalk
<1>9. /\ call.parser = p /\ call.client = c /\ call.stream = s /\ call.data = SubSeq(u, a, b)
      /\ local.pos = 1 /\ out = <<>> /\ status = "run"
  BY <1>5
<1>10. LinesChunk
  BY <1>6, <1>8, <1>9 DEF LinesChunk
<1>11. Settled(out, LineAt(local.pos))
  BY <1>9, <1>10, SettledStart DEF LineAt
<1>12. ~(1 > Len(call.data))
  BY <1>8, <1>9
<1> QED BY <1>9, <1>10, <1>11, <1>12 DEF LinesInv

LEMMA SameLines ==
  ASSUME call' = call
  PROVE  /\ \A o, k : Settled(o, k) => Settled(o, k)'
         /\ \A o : AllSettled(o) => AllSettled(o)'
         /\ LinesChunk => LinesChunk'
BY DEF Settled, AllSettled, WholeLine, BehindLF, LineDue, LinesChunk

LEMMA TurnLines ==
  ASSUME LinesInv, PieceStep
  PROVE  LinesInv'
<1>1. call.parser \in LineParsers /\ status = "run" /\ call' = call
  BY DEF PieceStep, Running, Return
<1>2. /\ LinesChunk /\ local.pos \in Nat /\ local.pos >= 1
      /\ local.pos <= Len(call.data) =>
              /\ local.pos = 1 \/ call.data[local.pos][2] = 1
              /\ Settled(out, LineAt(local.pos))
      /\ local.pos > Len(call.data) => AllSettled(out)
  BY <1>1 DEF LinesInv
<1>3. LinesChunk'
  BY <1>1, <1>2, SameLines
<1>4. Len(call.data) \in Nat
  BY <1>2 DEF LinesChunk
<1>5. CASE local.pos > Len(call.data)
  <2>1. status' = "ok" /\ out' = out
    BY <1>5 DEF PieceStep, Return
  <2>2. AllSettled(out)'
    BY <1>1, <1>2, <1>5, <2>1, SameLines DEF AllSettled, WholeLine, BehindLF, LineDue
  <2> QED BY <1>3, <2>1, <2>2 DEF LinesInv
<1>6. CASE ~(local.pos > Len(call.data))
  <2> DEFINE e == PieceEnd(local.pos)
  <2>1. PICK event \in Eligible(local.pos, e) : out' = IF event THEN Append(out, LineAt(e)) ELSE out
    BY <1>6 DEF PieceStep
  <2>2. local' = [pos |-> AfterBreak(e)] /\ status' = status
    BY <1>6 DEF PieceStep
  <2>3. PICK i, o : i = local.pos /\ o = out
    OBVIOUS
  <2>4. PICK n, p : n = AfterBreak(e) /\ p = IF event THEN Append(out, LineAt(e)) ELSE out
    OBVIOUS
  <2>5. local'.pos = n /\ out' = p
    BY <2>1, <2>2, <2>4
  <2>6. i \in 1..Len(call.data)
    BY <1>2, <1>4, <1>6, <2>3
  <2>7. /\ Settled(o, LineAt(i)) /\ (i = 1 \/ call.data[i][2] = 1) /\ event \in Eligible(i, PieceEnd(i))
        /\ p = (IF event THEN Append(o, LineAt(PieceEnd(i))) ELSE o) /\ n = AfterBreak(PieceEnd(i))
    BY <1>2, <1>4, <1>6, <2>1, <2>3, <2>4
  <2>8. /\ n \in Nat /\ n >= 1
        /\ n <= Len(call.data) => call.data[n][2] = 1 /\ Settled(p, LineAt(n))
        /\ n > Len(call.data) => AllSettled(p)
    BY <1>2, <2>6, <2>7, OnePiece
  <2>9. PICK k : k = LineAt(n)
    OBVIOUS
  <2>10. LineAt(n)' = k
    BY <1>1, <2>9 DEF LineAt
  <2>11. /\ n <= Len(call.data) => Settled(p, k)'
         /\ n > Len(call.data) => AllSettled(p)'
    BY <1>1, <2>8, <2>9, SameLines
  <2>12. Settled(p, k)' => Settled(out, LineAt(local.pos))'
    BY <2>5, <2>10 DEF Settled, LineAt
  <2>13. AllSettled(p)' => AllSettled(out)'
    BY <2>5 DEF AllSettled
  <2>14. status' = "run"
    BY <1>1, <2>2
  <2> QED BY <1>1, <1>3, <2>5, <2>8, <2>11, <2>12, <2>13, <2>14 DEF LinesInv
<1> QED BY <1>5, <1>6

LEMMA LinesKeeps == LinesInv /\ [MCNext]_<<vars, callVars>> => LinesInv'
<1> SUFFICES ASSUME LinesInv, [MCNext]_<<vars, callVars>> PROVE LinesInv'
  OBVIOUS
<1>1. CASE UNCHANGED callVars
  <2>1. call' = call /\ local' = local /\ out' = out /\ status' = status
    BY <1>1 DEF callVars
  <2> QED BY <2>1 DEF LinesInv, LinesChunk, Settled, AllSettled, WholeLine, BehindLF, LineDue, LineAt
<1>2. ASSUME call' = call, call.parser \notin LineParsers PROVE LinesInv'
  BY <1>2 DEF LinesInv
<1>3. CASE DnsNext
  BY <1>2, <1>3, Apart
     DEF DnsNext, Section, NameStep, FormatRData, TxtStep, InName, Running, Return, NameFails,
         NameEnds, Follow, Label, Panic, DecodeName
<1>4. CASE RespStep
  BY <1>2, <1>4, Apart DEF RespStep, Running, Return, Panic
<1>5. CASE FramingNext
  BY <1>2, <1>5, Apart DEF FramingNext, Enter, FrameStep, Framing, Running, Return, Panic, LineParsers
<1>6. CASE HelloNext
  BY <1>2, <1>6, Apart DEF HelloNext, Record, Vector, CipherSuites, ExtensionLength, Extension,
                          Running, Return, Panic
<1>7. CASE PieceStep
  BY <1>7, TurnLines
<1> QED BY <1>1, <1>3, <1>4, <1>5, <1>6, <1>7 DEF MCNext, ParseStep, callVars

(* smtp, ftp, imap and pop3/parser.go, Parse: at most one event of each    *)
(* line, in order, and one of every line that is whole in the chunk, is    *)
(* not empty and, in an answer of SMTP or FTP, has a code -- wherever the  *)
(* chunk is cut, except behind a CR.                                       *)
THEOREM EveryWholeLine == MCSpec => []OneEventPerLine
<1>1. LinesInv => OneEventPerLine
  <2> SUFFICES ASSUME LinesInv, status = "ok", call.parser \in LineParsers PROVE OneEventPerLine
    BY DEF OneEventPerLine
  <2>1. AllSettled(out)
    BY DEF LinesInv
  <2> QED BY <2>1 DEF AllSettled, OneEventPerLine, WholeLine, BehindLF, LineDue
<1> QED BY <1>1, LinesStart, LinesKeeps, PTL DEF MCSpec

-----------------------------------------------------------------------------
(* decodeName against the walk of the reference, as functions of the data. *)
AtOf(d, i) == d[i + 1]

InsideOf(d, i) == 0 <= i /\ i < Len(d)

SuccOf(d, i) ==
  IF ~InsideOf(d, i) THEN -1
  ELSE CASE AtOf(d, i) = 0 -> i
         [] AtOf(d, i) = Pointer -> IF InsideOf(d, i + 1) THEN AtOf(d, i + 1) ELSE -1
         [] OTHER -> IF i + 1 + AtOf(d, i) <= Len(d) THEN i + 1 + AtOf(d, i) ELSE -1

WalkOf(d, i) ==
  LET walk[n \in 0..Len(d)] == IF n = 0 THEN i ELSE SuccOf(d, walk[n - 1]) IN walk

ReadableOf(d, i) == InsideOf(d, WalkOf(d, i)[Len(d)]) /\ AtOf(d, WalkOf(d, i)[Len(d)]) = 0

StopOf(d, i) ==
  CHOOSE n \in 0..Len(d) :
    /\ AtOf(d, WalkOf(d, i)[n]) \in {0, Pointer}
    /\ \A m \in 0..n - 1 : AtOf(d, WalkOf(d, i)[m]) \notin {0, Pointer}

AfterOf(d, i) ==
  WalkOf(d, i)[StopOf(d, i)] + (IF AtOf(d, WalkOf(d, i)[StopOf(d, i)]) = 0 THEN 1 ELSE 2)

CutOf(d, at, i) ==
  IF at = "question" THEN AfterOf(d, i) + QuestionFixed > Len(d)
  ELSE \/ AfterOf(d, i) + AnswerFixed > Len(d)
       \/ AfterOf(d, i) + AnswerFixed + AtOf(d, AfterOf(d, i) + AnswerFixed - 1) > Len(d)

LEMMA OfData ==
  /\ Size = Len(call.data)
  /\ \A i : Inside(i) <=> InsideOf(call.data, i)
  /\ \A i : At(i) = AtOf(call.data, i)
  /\ \A i : Readable(i) <=> ReadableOf(call.data, i)
  /\ \A i : AfterName(i) = AfterOf(call.data, i)
  /\ \A at, i : Truncated(at, i) <=> CutOf(call.data, at, i)
<1>1. \A i : WalkFrom(i) = WalkOf(call.data, i)
  BY DEF WalkFrom, WalkOf, Succ, SuccOf, At, AtOf, Inside, InsideOf, Size, Data
<1>2. \A i : AfterName(i) = AfterOf(call.data, i)
  BY DEF AfterName, AfterOf, StopOf, WalkFrom, WalkOf, Succ, SuccOf, At, AtOf, Inside, InsideOf, Size, Data
<1> QED BY <1>1, <1>2 DEF Readable, ReadableOf, Truncated, CutOf, At, AtOf, Inside, InsideOf, Size, Data

LEMMA SuccType ==
  ASSUME NEW d \in Seq(Nat)
  PROVE  /\ Len(d) \in Nat
         /\ \A i \in Int : InsideOf(d, i) => AtOf(d, i) \in Nat
         /\ \A i \in Int : SuccOf(d, i) \in Int
         /\ \A i \in Int : ~InsideOf(d, i) => ~InsideOf(d, SuccOf(d, i))
         /\ \A i \in Int : InsideOf(d, i) /\ AtOf(d, i) = 0 => SuccOf(d, i) = i
<1>1. Len(d) \in Nat /\ \A j \in 1..Len(d) : d[j] \in Nat
  OBVIOUS
<1>2. \A i \in Int : InsideOf(d, i) => AtOf(d, i) \in Nat
  BY <1>1 DEF InsideOf, AtOf
<1>3. -1 \in Int /\ ~InsideOf(d, -1)
  BY DEF InsideOf
<1>4. ASSUME NEW i \in Int PROVE SuccOf(d, i) \in Int
  <2>1. CASE ~InsideOf(d, i)
    BY <1>3, <2>1 DEF SuccOf
  <2>2. CASE InsideOf(d, i)
    <3>1. AtOf(d, i) \in Nat /\ i + 1 \in Int
      BY <1>2, <2>2
    <3>2. InsideOf(d, i + 1) => AtOf(d, i + 1) \in Int
      BY <1>2, <3>1
    <3>3. i + 1 + AtOf(d, i) \in Int
      BY <3>1
    <3> QED BY <1>3, <2>2, <3>1, <3>2, <3>3 DEF SuccOf
  <2> QED BY <2>1, <2>2
<1>5. ASSUME NEW i \in Int, ~InsideOf(d, i) PROVE ~InsideOf(d, SuccOf(d, i))
  <2>1. SuccOf(d, i) = -1
    BY <1>5 DEF SuccOf
  <2> QED BY <1>3, <2>1
<1>6. \A i \in Int : InsideOf(d, i) /\ AtOf(d, i) = 0 => SuccOf(d, i) = i
  BY DnsAssumption DEF SuccOf
<1> QED BY <1>1, <1>2, <1>4, <1>5, <1>6

LEMMA WalkLoop ==
  ASSUME NEW d \in Seq(Nat), NEW s \in Int
  PROVE  /\ WalkOf(d, s)[0] = s
         /\ \A n \in 1..Len(d) : WalkOf(d, s)[n] = SuccOf(d, WalkOf(d, s)[n - 1])
         /\ \A n \in 0..Len(d) : WalkOf(d, s)[n] \in Int
<1> DEFINE N == Len(d)
           G == [x \in (1..N) \X Int |-> SuccOf(d, x[2])]
           Eq(f) == f = [n \in 0..N |-> IF n = 0 THEN s ELSE SuccOf(d, f[n - 1])]
<1>1. N \in Nat /\ \A i \in Int : SuccOf(d, i) \in Int
  BY SuccType
<1>2. G \in [(1..N) \X Int -> Int]
  <2> HIDE DEF N
  <2> QED BY <1>1
<1>3. \A i \in 1..N, x \in Int : G[<<i, x>>] = SuccOf(d, x)
  OBVIOUS
<1> HIDE DEF G, N
<1>4. PICK f \in [0..N -> Int] : Recurs(f, N, s, G)
  BY <1>1, <1>2, Recursion
<1>5. Eq(f)
  <2>1. ASSUME NEW n \in 0..N PROVE f[n] = IF n = 0 THEN s ELSE SuccOf(d, f[n - 1])
    <3>1. CASE n = 0
      BY <1>4, <3>1 DEF Recurs
    <3>2. CASE n # 0
      <4>1. n \in 1..N /\ n - 1 \in 0..N
        BY <1>1, <3>2
      <4>2. f[n - 1] \in Int
        BY <4>1
      <4> QED BY <1>3, <1>4, <3>2, <4>1, <4>2 DEF Recurs
    <3> QED BY <3>1, <3>2
  <2> QED BY <2>1
<1> DEFINE w == WalkOf(d, s)
<1>6. w = CHOOSE g : Eq(g)
  BY DEF WalkOf, N
<1>7. Eq(w)
  BY <1>5, <1>6
<1> HIDE DEF w
<1>8. w[0] = s /\ \A n \in 1..N : w[n] = SuccOf(d, w[n - 1])
  <2>1. \A n \in 0..N : w[n] = IF n = 0 THEN s ELSE SuccOf(d, w[n - 1])
    BY <1>7
  <2>2. 0 \in 0..N /\ \A n \in 1..N : n \in 0..N /\ n # 0
    BY <1>1
  <2> QED BY <2>1, <2>2
<1> DEFINE H == {n \in 0..N : w[n] \in Int}
<1>9. 0 \in H
  <2>1. 0 \in 0..N /\ w[0] \in Int
    BY <1>1, <1>8
  <2> QED BY <2>1
<1>10. ASSUME NEW n \in 0..N, n + 1 <= N, n \in H PROVE n + 1 \in H
  <2>1. n + 1 \in 1..N /\ (n + 1) - 1 = n /\ n + 1 \in 0..N
    BY <1>1, <1>10
  <2>2. w[n + 1] = SuccOf(d, w[n])
    BY <1>8, <2>1
  <2> QED BY <1>1, <1>10, <2>1, <2>2
<1>11. 0..N \subseteq H
  <2> HIDE DEF H
  <2> QED BY <1>1, <1>9, <1>10, Induct
<1> QED BY <1>8, <1>11 DEF w, N

(* A walk that has entered a set that no step leaves ends in it.           *)
LEMMA WalkStays ==
  ASSUME NEW d \in Seq(Nat), NEW s \in Int, NEW n \in 0..Len(d), NEW V,
         WalkOf(d, s)[n] \in V, \A x \in V : SuccOf(d, x) \in V
  PROVE  WalkOf(d, s)[Len(d)] \in V
<1> DEFINE w == WalkOf(d, s)
           k == Len(d) - n
           H == {x \in 0..k : w[n + x] \in V}
<1>1. k \in Nat /\ n \in Nat /\ Len(d) \in Nat /\ n + 0 = n /\ n + k = Len(d) /\ 0 \in 0..k
  OBVIOUS
<1>2. 0 \in H
  BY <1>1
<1>3. ASSUME NEW x \in 0..k, x + 1 <= k, x \in H PROVE x + 1 \in H
  <2>1. x + 1 \in 0..k /\ n + (x + 1) \in 1..Len(d) /\ (n + (x + 1)) - 1 = n + x
    BY <1>1, <1>3
  <2>2. w[n + (x + 1)] = SuccOf(d, w[n + x])
    BY <2>1, WalkLoop
  <2> QED BY <1>3, <2>1, <2>2
<1>4. k \in H
  <2> HIDE DEF H, k
  <2>1. 0..k \subseteq H
    BY <1>1, <1>2, <1>3, Induct
  <2> QED BY <1>1, <2>1
<1> QED BY <1>1, <1>4

(* The first n steps of decodeName from s go over the offsets of the walk, *)
(* none of them twice, and none of them ends the name.                     *)
Trail(d, s, n) ==
  /\ \A m \in 0..n : m # n => InsideOf(d, WalkOf(d, s)[m]) /\ AtOf(d, WalkOf(d, s)[m]) # 0
  /\ \A a, b \in 0..n : WalkOf(d, s)[a] = WalkOf(d, s)[b] => a = b

(* x is the offset after the first pointer on the way, or negative.        *)
Found(d, s, n, x) ==
  \/ x < 0 /\ \A m \in 0..n : m # n => AtOf(d, WalkOf(d, s)[m]) # Pointer
  \/ /\ x >= 0
     /\ \E m \in 0..n : /\ m # n /\ AtOf(d, WalkOf(d, s)[m]) = Pointer /\ x = WalkOf(d, s)[m] + 2
                        /\ \A j \in 0..m - 1 : AtOf(d, WalkOf(d, s)[j]) # Pointer

(* decodeName is at cur, where the walk is after n steps.                  *)
OnTrail(d, s, cur, visited, x, n) ==
  /\ n \in 0..Len(d) /\ cur = WalkOf(d, s)[n]
  /\ Trail(d, s, n) /\ visited \subseteq {WalkOf(d, s)[m] : m \in 0..n} /\ Found(d, s, n, x)

(* decodeName and the walk are in a loop, in which no name ends.           *)
Doomed(d, s, cur) ==
  \E V \in SUBSET Int :
    s \in V /\ cur \in V /\ \A x \in V : SuccOf(d, x) \in V /\ InsideOf(d, x) /\ AtOf(d, x) # 0

LEMMA DoomedUnreadable ==
  ASSUME NEW d \in Seq(Nat), NEW s \in Int, NEW cur, Doomed(d, s, cur)
  PROVE  ~ReadableOf(d, s)
<1>1. PICK V \in SUBSET Int :
        s \in V /\ cur \in V /\ \A x \in V : SuccOf(d, x) \in V /\ InsideOf(d, x) /\ AtOf(d, x) # 0
  BY DEF Doomed
<1>2. 0 \in 0..Len(d) /\ WalkOf(d, s)[0] \in V
  BY <1>1, WalkLoop
<1>3. WalkOf(d, s)[Len(d)] \in V
  BY <1>1, <1>2, WalkStays
<1> QED BY <1>1, <1>3 DEF ReadableOf

(* A walk over n + 1 offsets in the data, none of them twice.              *)
LEMMA TrailShort ==
  ASSUME NEW d \in Seq(Nat), NEW s \in Int, NEW n \in 0..Len(d), Trail(d, s, n),
         InsideOf(d, WalkOf(d, s)[n])
  PROVE  n + 1 <= Len(d)
<1> DEFINE w == WalkOf(d, s)
           N == Len(d)
           f == [m \in 0..n |-> w[m]]
<1>1. N \in Nat /\ n \in Nat
  OBVIOUS
<1> SUFFICES ASSUME ~(n + 1 <= N) PROVE FALSE
  OBVIOUS
<1>2. \A m \in 0..n : w[m] \in 0..N - 1
  <2> TAKE m \in 0..n
  <2>1. InsideOf(d, w[m])
    BY DEF Trail
  <2>2. m \in 0..Len(d)
    BY <1>1
  <2>3. w[m] \in Int
    BY <2>2, WalkLoop
  <2> QED BY <1>1, <2>1, <2>3 DEF InsideOf
<1> HIDE DEF w
<1>3. f \in [0..n -> 0..N - 1]
  BY <1>2
<1>4. IsFiniteSet(0..n) /\ Cardinality(0..n) = n + 1
  BY <1>1, FS_Interval
<1>5. IsFiniteSet(0..N - 1) /\ Cardinality(0..N - 1) = N
  <2>1. N - 1 \in Int /\ 0 \in Int
    BY <1>1
  <2>2. IsFiniteSet(0..N - 1) /\ Cardinality(0..N - 1) = IF 0 > N - 1 THEN 0 ELSE (N - 1) - 0 + 1
    BY <2>1, FS_Interval
  <2> QED BY <1>1, <2>2
<1>6. Cardinality(0..N - 1) < Cardinality(0..n)
  BY <1>1, <1>4, <1>5
<1> HIDE DEF N, f
<1>7. \E x, y \in 0..n : x # y /\ f[x] = f[y]
  BY <1>3, <1>4, <1>5, <1>6, FS_PigeonHole
<1> QED BY <1>7 DEF f, Trail, w

(* The walk has left the data.                                             *)
LEMMA LostUnreadable ==
  ASSUME NEW d \in Seq(Nat), NEW s \in Int, NEW n \in 0..Len(d), Trail(d, s, n),
         ~InsideOf(d, WalkOf(d, s)[n]) \/ ~InsideOf(d, SuccOf(d, WalkOf(d, s)[n]))
  PROVE  ~ReadableOf(d, s)
<1> DEFINE V == {x \in Int : ~InsideOf(d, x)}
           w == WalkOf(d, s)
<1>1. \A x \in V : SuccOf(d, x) \in V
  BY SuccType
<1>2. w[n] \in Int
  BY WalkLoop
<1>3. \E m \in 0..Len(d) : w[m] \in V
  <2>1. CASE ~InsideOf(d, w[n])
    BY <1>2, <2>1
  <2>2. CASE InsideOf(d, w[n])
    <3>1. n + 1 \in 1..Len(d) /\ (n + 1) - 1 = n /\ n + 1 \in 0..Len(d)
      BY <2>2, TrailShort
    <3>2. w[n + 1] = SuccOf(d, w[n]) /\ w[n + 1] \in Int
      BY <3>1, WalkLoop
    <3> QED BY <2>2, <3>1, <3>2
  <2> QED BY <2>1, <2>2
<1>4. w[Len(d)] \in V
  <2>1. PICK m \in 0..Len(d) : w[m] \in V
    BY <1>3
  <2> HIDE DEF V
  <2> QED BY <1>1, <2>1, WalkStays
<1> QED BY <1>4 DEF ReadableOf

(* The walk is back where it was.                                          *)
LEMMA BackDoomed ==
  ASSUME NEW d \in Seq(Nat), NEW s \in Int, NEW n \in 0..Len(d), Trail(d, s, n),
         InsideOf(d, WalkOf(d, s)[n]), AtOf(d, WalkOf(d, s)[n]) # 0,
         SuccOf(d, WalkOf(d, s)[n]) \in {WalkOf(d, s)[m] : m \in 0..n}
  PROVE  Doomed(d, s, SuccOf(d, WalkOf(d, s)[n]))
<1> DEFINE w == WalkOf(d, s)
           V == {w[m] : m \in 0..n}
<1>1. w[0] = s /\ 0 \in 0..n /\ \A m \in 0..n : w[m] \in Int
  <2>1. \A m \in 0..n : m \in 0..Len(d)
    OBVIOUS
  <2> QED BY <2>1, WalkLoop
<1>2. s \in V /\ V \in SUBSET Int
  BY <1>1
<1>3. ASSUME NEW m \in 0..n PROVE SuccOf(d, w[m]) \in V /\ InsideOf(d, w[m]) /\ AtOf(d, w[m]) # 0
  <2>1. CASE m = n
    BY <2>1
  <2>2. CASE m # n
    <3>1. m + 1 \in 0..n /\ m + 1 \in 1..Len(d) /\ (m + 1) - 1 = m
      BY <2>2
    <3>2. w[m + 1] = SuccOf(d, w[m])
      <4>1. \A j \in 1..Len(d) : w[j] = SuccOf(d, w[j - 1])
        BY WalkLoop
      <4> HIDE DEF V, w
      <4>2. w[m + 1] = SuccOf(d, w[(m + 1) - 1])
        BY <3>1, <4>1
      <4> QED BY <3>1, <4>2
    <3>3. SuccOf(d, w[m]) \in V
      BY <3>1, <3>2
    <3> QED BY <2>2, <3>3 DEF Trail
  <2> QED BY <2>1, <2>2
<1>4. \A x \in V : SuccOf(d, x) \in V /\ InsideOf(d, x) /\ AtOf(d, x) # 0
  BY <1>3
<1>5. SuccOf(d, w[n]) \in V
  OBVIOUS
<1> HIDE DEF V
<1> QED BY <1>2, <1>4, <1>5 DEF Doomed

(* One turn of decodeName's loop that does not end it.                     *)
LEMMA TrailStep ==
  ASSUME NEW d \in Seq(Nat), NEW s \in Int, NEW cur, NEW visited, NEW x \in Int, NEW n,
         OnTrail(d, s, cur, visited, x, n), InsideOf(d, cur), AtOf(d, cur) # 0,
         NEW c, c = SuccOf(d, cur), NEW v, v \subseteq visited \cup {c},
         NEW y, y = IF x < 0 /\ AtOf(d, cur) = Pointer THEN cur + 2 ELSE x
  PROVE  (\E m : OnTrail(d, s, c, v, y, m)) \/ Doomed(d, s, c)
<1> DEFINE w == WalkOf(d, s)
<1>1. n \in 0..Len(d) /\ cur = w[n] /\ Trail(d, s, n) /\ visited \subseteq {w[m] : m \in 0..n}
      /\ Found(d, s, n, x)
  BY DEF OnTrail
<1>2. /\ n + 1 \in 0..Len(d) /\ n + 1 \in 1..Len(d) /\ (n + 1) - 1 = n /\ n \in 0..n
      /\ \A m \in 0..n + 1 : m = n + 1 \/ m \in 0..n
      /\ \A m \in 0..n : m \in 0..n + 1 /\ m # n + 1
  <2>1. n + 1 <= Len(d)
    BY <1>1, TrailShort
  <2>2. n \in Nat /\ Len(d) \in Nat
    BY <1>1
  <2> QED BY <2>1, <2>2
<1>3. w[n + 1] = c
  BY <1>1, <1>2, WalkLoop
<1>4. CASE c \in {w[m] : m \in 0..n}
  BY <1>1, <1>4, BackDoomed
<1>5. CASE c \notin {w[m] : m \in 0..n}
  <2>1. Trail(d, s, n + 1)
    <3> HIDE DEF w
    <3>1. \A m \in 0..n + 1 : m # n + 1 => InsideOf(d, w[m]) /\ AtOf(d, w[m]) # 0
      BY <1>1, <1>2 DEF Trail, w
    <3>2. ASSUME NEW a \in 0..n + 1, NEW b \in 0..n + 1, w[a] = w[b] PROVE a = b
      <4>1. CASE a \in 0..n /\ b \in 0..n
        BY <1>1, <3>2, <4>1 DEF Trail, w
      <4>2. CASE a = n + 1 /\ b # n + 1
        BY <1>2, <1>3, <1>5, <3>2, <4>2
      <4>3. CASE a # n + 1 /\ b = n + 1
        BY <1>2, <1>3, <1>5, <3>2, <4>3
      <4> QED BY <1>2, <4>1, <4>2, <4>3
    <3> QED BY <3>1, <3>2 DEF Trail, w
  <2>2. v \subseteq {w[m] : m \in 0..n + 1}
    <3> HIDE DEF w
    <3>1. c \in {w[m] : m \in 0..n + 1}
      <4>1. n + 1 \in 0..n + 1
        BY <1>2
      <4> QED BY <1>3, <4>1
    <3>2. {w[m] : m \in 0..n} \subseteq {w[m] : m \in 0..n + 1}
      BY <1>2
    <3> QED BY <1>1, <3>1, <3>2
  <2>3. Found(d, s, n + 1, y)
    <3>1. CASE x >= 0
      <4>1. PICK m \in 0..n : /\ m # n /\ AtOf(d, w[m]) = Pointer /\ x = w[m] + 2
                              /\ \A j \in 0..m - 1 : AtOf(d, w[j]) # Pointer
        <5>1. Found(d, s, n, x) /\ ~(x < 0)
          BY <1>1, <3>1
        <5> QED BY <5>1 DEF Found
      <4>2. y = x
        BY <3>1, <4>1
      <4>3. m \in 0..n + 1 /\ m # n + 1
        BY <1>2
      <4> QED BY <3>1, <4>1, <4>2, <4>3 DEF Found
    <3>2. CASE x < 0 /\ AtOf(d, cur) # Pointer
      <4>1. y = x
        BY <3>2
      <4>2. \A m \in 0..n : AtOf(d, w[m]) # Pointer
        BY <1>1, <3>2 DEF Found
      <4> QED BY <1>2, <3>2, <4>1, <4>2 DEF Found
    <3>3. CASE x < 0 /\ AtOf(d, cur) = Pointer
      <4>1. y = w[n] + 2
        BY <1>1, <3>3
      <4>2. w[n] \in Int /\ w[n] >= 0
        BY <1>1, WalkLoop DEF InsideOf
      <4>3. \A j \in 0..n - 1 : AtOf(d, w[j]) # Pointer
        <5>1. \A j \in 0..n - 1 : j \in 0..n /\ j # n
          BY <1>2
        <5> QED BY <1>1, <3>3, <5>1 DEF Found
      <4>4. n \in 0..n + 1 /\ n # n + 1 /\ y >= 0
        BY <1>2, <4>1, <4>2
      <4> QED BY <1>1, <3>3, <4>1, <4>3, <4>4 DEF Found
    <3> QED BY <1>1, <3>1, <3>2, <3>3 DEF Found
  <2>4. OnTrail(d, s, c, v, y, n + 1)
    BY <1>2, <1>3, <2>1, <2>2, <2>3 DEF OnTrail
  <2> QED BY <2>4
<1> QED BY <1>4, <1>5

(* decodeName has found the end of the name.                               *)
LEMMA TrailEnds ==
  ASSUME NEW d \in Seq(Nat), NEW s \in Int, NEW cur, NEW visited, NEW x \in Int, NEW n,
         OnTrail(d, s, cur, visited, x, n), InsideOf(d, cur), AtOf(d, cur) = 0
  PROVE  ReadableOf(d, s) /\ AfterOf(d, s) = IF x < 0 THEN cur + 1 ELSE x
<1> DEFINE w == WalkOf(d, s)
<1>1. n \in 0..Len(d) /\ cur = w[n] /\ Trail(d, s, n) /\ Found(d, s, n, x) /\ w[n] \in Int
  BY WalkLoop DEF OnTrail
<1>2. ReadableOf(d, s)
  <2> DEFINE V == {w[n]}
  <2>1. \A z \in V : SuccOf(d, z) \in V
    BY <1>1, SuccType
  <2>2. w[n] \in V
    OBVIOUS
  <2> HIDE DEF V
  <2>3. w[Len(d)] \in V
    BY <1>1, <2>1, <2>2, WalkStays
  <2>4. w[Len(d)] = w[n]
    BY <2>3 DEF V
  <2> QED BY <1>1, <2>4 DEF ReadableOf
<1> DEFINE First(m) == /\ AtOf(d, w[m]) \in {0, Pointer}
                       /\ \A j \in 0..m - 1 : AtOf(d, w[j]) \notin {0, Pointer}
<1>3. \A a, b \in 0..Len(d) : First(a) /\ First(b) => a = b
  <2> TAKE a, b \in 0..Len(d)
  <2>1. a < b => a \in 0..b - 1
    OBVIOUS
  <2>2. b < a => b \in 0..a - 1
    OBVIOUS
  <2> QED BY <2>1, <2>2
<1>4. ASSUME NEW m \in 0..Len(d), First(m) PROVE StopOf(d, s) = m
  <2>1. StopOf(d, s) = CHOOSE a \in 0..Len(d) : First(a)
    BY DEF StopOf
  <2> HIDE DEF First
  <2> QED BY <1>3, <1>4, <2>1
<1>5. \A m \in 0..n : m # n => AtOf(d, w[m]) # 0
  BY <1>1 DEF Trail
<1>6. CASE x < 0
  <2>1. First(n)
    <3>1. \A j \in 0..n - 1 : j \in 0..n /\ j # n
      BY <1>1
    <3>2. \A m \in 0..n : m # n => AtOf(d, w[m]) # Pointer
      BY <1>1, <1>6 DEF Found
    <3> QED BY <1>1, <1>5, <3>1, <3>2
  <2>2. StopOf(d, s) = n
    BY <1>1, <1>4, <2>1
  <2> QED BY <1>1, <1>2, <1>6, <2>2 DEF AfterOf
<1>7. CASE ~(x < 0)
  <2>1. PICK m \in 0..n : /\ m # n /\ AtOf(d, w[m]) = Pointer /\ x = w[m] + 2
                          /\ \A j \in 0..m - 1 : AtOf(d, w[j]) # Pointer
    BY <1>1, <1>7 DEF Found
  <2>2. m \in 0..Len(d) /\ \A j \in 0..m - 1 : j \in 0..n /\ j # n
    BY <1>1
  <2>3. First(m)
    BY <1>5, <2>1, <2>2
  <2>4. StopOf(d, s) = m
    BY <1>4, <2>2, <2>3
  <2>5. AtOf(d, w[m]) # 0
    BY <1>5, <2>1
  <2> QED BY <1>2, <1>7, <2>1, <2>4, <2>5 DEF AfterOf
<1> QED BY <1>6, <1>7

LEMMA TrailStart ==
  ASSUME NEW d \in Seq(Nat), NEW s \in Int
  PROVE  OnTrail(d, s, s, {}, -1, 0)
<1>1. 0 \in 0..Len(d) /\ \A m \in 0..0 : m = 0
  OBVIOUS
<1>2. s = WalkOf(d, s)[0]
  BY WalkLoop
<1>3. Trail(d, s, 0)
  BY <1>1 DEF Trail
<1>4. \A x \in Int : x < 0 => Found(d, s, 0, x)
  BY <1>1 DEF Found
<1>5. -1 \in Int /\ -1 < 0
  OBVIOUS
<1>6. Found(d, s, 0, -1)
  BY <1>4, <1>5
<1> QED BY <1>1, <1>2, <1>3, <1>6 DEF OnTrail

LEMMA DoomedStep ==
  ASSUME NEW d, NEW s, NEW cur, Doomed(d, s, cur)
  PROVE  Doomed(d, s, SuccOf(d, cur)) /\ AtOf(d, cur) # 0
BY DEF Doomed

(* How far decodeName is, in the local variables l of a call on the data d.*)
Followed(d, l) ==
  (\E n : OnTrail(d, l.start, l.cur, l.visited, l.newOffset, n)) \/ Doomed(d, l.start, l.cur)

NameRead(d, r) == ReadableOf(d, r.from) /\ r.next = AfterOf(d, r.from)

(* The inductive invariant of the DNS parser.                              *)
NamesInv ==
  call.parser = "dns" =>
    /\ out \in Seq([from : Int, next : Int])
    /\ \A i \in 1..Len(out) : NameRead(call.data, out[i])
    /\ status = "run" /\ local.at \in {"question", "answer", "alias", "mx"} =>
         Followed(call.data, local)
    /\ status = "err" /\ Len(call.data) >= HeaderSize /\ ReadableOf(call.data, local.start) =>
         CutOf(call.data, local.at, local.start)

LEMMA NamesTurn ==
  ASSUME NamesInv, Inside3, DnsNext
  PROVE  NamesInv'
<1>1. call' = call /\ call.parser = "dns" /\ status = "run"
  BY DEF DnsNext, Section, NameStep, FormatRData, TxtStep, InName, Running, Return, NameFails,
     NameEnds, Follow, Label, Panic, DecodeName
<1>2. PICK d, l, k, o : d = call.data /\ l = local /\ k = local' /\ o = out
  OBVIOUS
<1>3. /\ d \in Seq(Nat) /\ Len(d) \in Nat /\ l \in DnsLocals
      /\ o \in Seq([from : Int, next : Int]) /\ \A i \in 1..Len(o) : NameRead(d, o[i])
      /\ l.at \in {"question", "answer", "alias", "mx"} => Followed(d, l)
  BY <1>1, <1>2 DEF NamesInv, Inside3, DnsInside
<1>4. l.cur \in Int /\ l.start \in Int /\ l.newOffset \in Int
  BY <1>3 DEF DnsLocals
<1>5. Size = Len(d) /\ (\A i : Inside(i) <=> InsideOf(d, i)) /\ (\A i : At(i) = AtOf(d, i))
  BY <1>2, OfData
<1>6. ASSUME out' = out,
             status' = "run" /\ k.at \in {"question", "answer", "alias", "mx"} => Followed(d, k),
             status' = "err" /\ Len(d) >= HeaderSize /\ ReadableOf(d, k.start) => CutOf(d, k.at, k.start)
      PROVE  NamesInv'
  BY <1>1, <1>2, <1>3, <1>6 DEF NamesInv
<1>7. ASSUME NEW x \in Int, NEW for, DecodeName(x, for, local), out' = out, status' = status
      PROVE  NamesInv'
  <2>1. k.cur = x /\ k.start = x /\ k.visited = {} /\ k.newOffset = -1
    <3>1. \A y : [l EXCEPT !.at = for, !.cur = x, !.visited = {}, !.newOffset = y, !.start = x].newOffset = y
      BY <1>3 DEF DnsLocals
    <3>2. k = [l EXCEPT !.at = for, !.cur = x, !.visited = {}, !.newOffset = -1, !.start = x]
      BY <1>2, <1>7 DEF DecodeName
    <3>3. \A y : LET z == [l EXCEPT !.at = for, !.cur = x, !.visited = {}, !.newOffset = y, !.start = x]
                 IN  z.cur = x /\ z.start = x /\ z.visited = {}
      BY <1>3 DEF DnsLocals
    <3> QED BY <3>1, <3>2, <3>3, Zenon
  <2>2. OnTrail(d, k.start, k.cur, k.visited, k.newOffset, 0)
    BY <1>3, <2>1, TrailStart
  <2> QED BY <1>1, <1>6, <1>7, <2>2 DEF Followed
<1>8. ASSUME k.at \notin {"question", "answer", "alias", "mx"}, out' = out, status' = status
      PROVE  NamesInv'
  BY <1>1, <1>6, <1>8
<1>9. ASSUME Panic PROVE NamesInv'
  BY <1>6, <1>9 DEF Panic, Return
<1>10. CASE Section
  <2>1. local.offset \in Int
    BY <1>2, <1>3 DEF DnsLocals
  <2>2. CASE Size < HeaderSize
    <3>1. status' = "err" /\ out' = out
      BY <1>10, <2>2 DEF Section, Return
    <3>2. ~(Len(d) >= HeaderSize)
      BY <1>3, <1>5, <2>2, DnsAssumption
    <3> QED BY <1>6, <3>1, <3>2
  <2>3. CASE Return("ok")
    BY <1>6, <2>3 DEF Return
  <2>4. CASE \E for : DecodeName(local.offset, for, local) /\ UNCHANGED <<call, out, status>>
    BY <1>7, <2>1, <2>4
  <2> QED BY <1>10, <2>2, <2>3, <2>4 DEF Section
<1>11. CASE FormatRData
  <2>1. local.rdata \in Nat /\ PrefSize \in Nat
    BY <1>2, <1>3, DnsAssumption DEF DnsLocals
  <2>2. local.rdata + PrefSize \in Int /\ -1 \in Int
    BY <2>1
  <2>3. out' = out /\ status' = status
    BY <1>11 DEF FormatRData
  <2>4. CASE \E x \in Int : \E for : DecodeName(x, for, local)
    BY <1>7, <2>3, <2>4
  <2>5. CASE local' = [local EXCEPT !.at = "txt", !.cur = local.rdata]
    <3>1. k.at = "txt"
      BY <1>2, <1>3, <2>5 DEF DnsLocals
    <3> QED BY <1>8, <2>3, <3>1
  <2>6. CASE local' = [local EXCEPT !.at = "section"]
    <3>1. k.at = "section"
      BY <1>2, <1>3, <2>6 DEF DnsLocals
    <3> QED BY <1>8, <2>3, <3>1
  <2>7. \/ DecodeName(-1, "alias", local)
        \/ DecodeName(local.rdata + PrefSize, "mx", local)
        \/ local' = [local EXCEPT !.at = "txt", !.cur = local.rdata]
        \/ local' = [local EXCEPT !.at = "section"]
    BY <1>11 DEF FormatRData
  <2> QED BY <2>2, <2>4, <2>5, <2>6, <2>7
<1>12. CASE TxtStep
  <2>1. CASE Panic
    BY <1>9, <2>1
  <2>2. CASE ~Panic
    <3>1. out' = out /\ status' = status
      BY <1>12, <2>2 DEF TxtStep
    <3>2. local.at = "txt" /\ \/ local' = [local EXCEPT !.at = "section"]
                              \/ \E x : local' = [local EXCEPT !.cur = x]
      BY <1>12, <2>2 DEF TxtStep
    <3>3. k.at \in {"section", "txt"}
      BY <1>2, <1>3, <3>2 DEF DnsLocals
    <3> QED BY <1>8, <3>1, <3>3
  <2> QED BY <2>1, <2>2
<1>13. CASE NameStep
  <2>1. l.at \in {"question", "answer", "alias", "mx"} /\ Followed(d, l)
    BY <1>2, <1>3, <1>13 DEF NameStep, InName
  <2>2. ASSUME ~ReadableOf(d, l.start), NameFails PROVE NamesInv'
    <3>1. CASE local.at \in {"question", "answer"}
      <4>1. k = l /\ out' = out /\ status' = "err"
        BY <1>2, <2>2, <3>1 DEF NameFails, Return
      <4> QED BY <1>6, <2>2, <4>1
    <3>2. CASE ~(local.at \in {"question", "answer"})
      <4>1. local' = [local EXCEPT !.at = "section"] /\ out' = out /\ status' = status
        BY <2>2, <3>2 DEF NameFails
      <4>2. k.at = "section"
        BY <1>2, <1>3, <4>1 DEF DnsLocals
      <4> QED BY <1>8, <4>1, <4>2
    <3> QED BY <3>1, <3>2
  <2>3. ASSUME ~InsideOf(d, l.cur) \/ ~InsideOf(d, SuccOf(d, l.cur)) PROVE ~ReadableOf(d, l.start)
    <3>1. CASE Doomed(d, l.start, l.cur)
      BY <1>3, <1>4, <3>1, DoomedUnreadable
    <3>2. CASE \E n : OnTrail(d, l.start, l.cur, l.visited, l.newOffset, n)
      <4>1. PICK n : OnTrail(d, l.start, l.cur, l.visited, l.newOffset, n)
        BY <3>2
      <4> QED BY <1>3, <1>4, <2>3, <4>1, LostUnreadable DEF OnTrail
    <3> QED BY <2>1, <3>1, <3>2 DEF Followed
  <2>4. CASE local.cur >= Size
    <3>1. ~InsideOf(d, l.cur)
      BY <1>2, <1>3, <1>4, <1>5, <2>4 DEF InsideOf
    <3>2. NameFails
      BY <1>13, <2>4 DEF NameStep
    <3> QED BY <2>2, <2>3, <3>1, <3>2
  <2>5. CASE ~(local.cur >= Size) /\ ~Inside(local.cur)
    BY <1>9, <1>13, <2>5 DEF NameStep
  <2>6. CASE ~(local.cur >= Size) /\ Inside(local.cur) /\ At(local.cur) = 0
    <3>1. NameEnds(IF local.newOffset < 0 THEN local.cur + 1 ELSE local.newOffset)
      BY <1>13, <2>6, DnsAssumption DEF NameStep
    <3>2. PICK n : n = IF l.newOffset < 0 THEN l.cur + 1 ELSE l.newOffset
      OBVIOUS
    <3>3. InsideOf(d, l.cur) /\ AtOf(d, l.cur) = 0 /\ n \in Int
      BY <1>2, <1>4, <1>5, <2>6, <3>2
    <3>4. PICK m : OnTrail(d, l.start, l.cur, l.visited, l.newOffset, m)
      BY <2>1, <3>3, DoomedStep DEF Followed
    <3>5. ReadableOf(d, l.start) /\ AfterOf(d, l.start) = n
      BY <1>3, <1>4, <3>2, <3>3, <3>4, TrailEnds
    <3>6. NameEnds(n)
      BY <1>2, <3>1, <3>2
    <3> DEFINE r == [from |-> l.start, next |-> n]
    <3>7. out' = Append(o, r)
      BY <1>2, <3>6 DEF NameEnds
    <3>8. r \in [from : Int, next : Int] /\ NameRead(d, r)
      BY <1>4, <3>3, <3>5 DEF NameRead
    <3> HIDE DEF r
    <3>9. /\ out' \in Seq([from : Int, next : Int]) /\ Len(out') = Len(o) + 1
          /\ \A i \in 1..Len(o) + 1 : out'[i] = IF i <= Len(o) THEN o[i] ELSE r
      <4> DEFINE T == [from : Int, next : Int]
      <4>1. o \in Seq(T) /\ r \in T
        BY <1>3, <3>8
      <4> HIDE DEF T
      <4>2. Append(o, r) \in Seq(T) /\ Len(Append(o, r)) = Len(o) + 1
            /\ \A i \in 1..Len(o) + 1 : Append(o, r)[i] = IF i <= Len(o) THEN o[i] ELSE r
        BY <4>1
      <4> QED BY <3>7, <4>2 DEF T
    <3>10. \A i \in 1..Len(out') : NameRead(d, out'[i])
      <4> TAKE i \in 1..Len(out')
      <4>1. i <= Len(o) => i \in 1..Len(o)
        OBVIOUS
      <4> QED BY <1>3, <3>8, <3>9, <4>1
    <3>11. status' = "run" => k.at \notin {"question", "answer", "alias", "mx"}
      <4>1. CASE local.at = "question"
        <5>1. status' = "run" => local' = [[local EXCEPT !.offset = n] EXCEPT !.at = "section",
                                            !.offset = n + QuestionFixed, !.qd = @ - 1]
          BY <3>6, <4>1 DEF NameEnds
        <5> QED BY <1>2, <1>3, <5>1 DEF DnsLocals
      <4>2. CASE local.at = "answer"
        <5>1. status' = "run" => \E a, b : local' = [[local EXCEPT !.offset = n] EXCEPT !.at = "rdata",
                                            !.rdata = a, !.end = b, !.offset = b, !.an = @ - 1]
          BY <3>6, <4>2 DEF NameEnds
        <5> QED BY <1>2, <1>3, <5>1 DEF DnsLocals
      <4>3. CASE local.at \notin {"question", "answer"}
        <5>1. local' = [local EXCEPT !.at = "section"]
          BY <3>6, <4>3 DEF NameEnds
        <5> QED BY <1>2, <1>3, <5>1 DEF DnsLocals
      <4> QED BY <4>1, <4>2, <4>3
    <3>12. status' = "err" => CutOf(d, k.at, k.start)
      <4> SUFFICES ASSUME status' = "err" PROVE CutOf(d, k.at, k.start)
        OBVIOUS
      <4>1. CASE local.at = "question"
        <5>1. k = l /\ n + QuestionFixed > Size
          BY <1>1, <1>2, <3>6, <4>1 DEF NameEnds
        <5> QED BY <1>2, <1>5, <3>5, <4>1, <5>1 DEF CutOf
      <4>2. CASE local.at = "answer"
        <5> DEFINE Cut == n + AnswerFixed > Size \/ n + AnswerFixed + At(n + AnswerFixed - 1) > Size
        <5>0. local.at # "question"
          BY <4>2
        <5>1. (Cut /\ status' = "err" /\ UNCHANGED local) \/ (~Cut /\ status' = status)
          <6>1. AnswerFixed \in Nat /\ n \in Int
            BY <3>3, DnsAssumption
          <6>2. CASE Cut
            BY <3>6, <4>2, <6>1, <6>2 DEF NameEnds
          <6>3. CASE ~Cut
            BY <3>6, <4>2, <6>1, <6>3 DEF NameEnds
          <6> QED BY <6>2, <6>3
        <5>2. k = l /\ Cut
          BY <1>1, <1>2, <5>1
        <5> QED BY <1>2, <1>5, <3>5, <4>2, <5>2 DEF CutOf
      <4>3. CASE local.at \notin {"question", "answer"}
        BY <1>1, <3>6, <4>3 DEF NameEnds
      <4> QED BY <4>1, <4>2, <4>3
    <3> QED BY <1>1, <1>2, <3>9, <3>10, <3>11, <3>12 DEF NamesInv
  <2>7. ASSUME NEW c, c = SuccOf(d, l.cur), InsideOf(d, l.cur), AtOf(d, l.cur) # 0,
               k.cur = c, k.start = l.start, k.visited \subseteq l.visited \cup {c},
               k.newOffset = IF l.newOffset < 0 /\ AtOf(d, l.cur) = Pointer THEN l.cur + 2 ELSE l.newOffset,
               out' = out, status' = status
        PROVE  NamesInv'
    <3>1. Followed(d, k)
      <4>1. CASE Doomed(d, l.start, l.cur)
        BY <2>7, <4>1, DoomedStep DEF Followed
      <4>2. CASE \E n : OnTrail(d, l.start, l.cur, l.visited, l.newOffset, n)
        <5>1. PICK n : OnTrail(d, l.start, l.cur, l.visited, l.newOffset, n)
          BY <4>2
        <5>2. (\E m : OnTrail(d, l.start, c, k.visited, k.newOffset, m)) \/ Doomed(d, l.start, c)
          BY <1>3, <1>4, <2>7, <5>1, TrailStep, ZenonT(40)
        <5> QED BY <2>7, <5>2 DEF Followed
      <4> QED BY <2>1, <4>1, <4>2 DEF Followed
    <3> QED BY <1>1, <1>6, <2>7, <3>1
  <2>8. CASE ~(local.cur >= Size) /\ Inside(local.cur) /\ At(local.cur) = Pointer
    <3>1. Follow /\ InsideOf(d, l.cur) /\ AtOf(d, l.cur) = Pointer /\ AtOf(d, l.cur) # 0
      BY <1>2, <1>5, <1>13, <2>8, DnsAssumption DEF NameStep
    <3>2. CASE PointerCut
      <4>1. ~InsideOf(d, l.cur + 1)
        BY <1>2, <1>3, <1>4, <1>5, <3>2 DEF PointerCut, InsideOf
      <4>2. SuccOf(d, l.cur) = -1
        BY <3>1, <4>1 DEF SuccOf
      <4>3. ~InsideOf(d, -1)
        BY DEF InsideOf
      <4> QED BY <2>2, <2>3, <3>1, <3>2, <4>2, <4>3 DEF Follow
    <3>3. CASE ~PointerCut /\ ~Inside(local.cur + 1)
      BY <1>9, <3>1, <3>3 DEF Follow
    <3>4. CASE ~PointerCut /\ Inside(local.cur + 1)
      <4>1. PICK c : c = At(local.cur + 1)
        OBVIOUS
      <4>2. InsideOf(d, l.cur + 1) /\ c = AtOf(d, l.cur + 1)
        BY <1>2, <1>5, <3>4, <4>1
      <4>3. c = SuccOf(d, l.cur)
        BY <3>1, <4>2 DEF SuccOf
      <4>4. CASE Looped(c)
        <5>1. NameFails /\ c \in l.visited
          BY <1>2, <3>1, <3>4, <4>1, <4>4 DEF Follow, Looped
        <5>2. ~ReadableOf(d, l.start)
          <6>1. CASE Doomed(d, l.start, l.cur)
            BY <1>3, <1>4, <6>1, DoomedUnreadable
          <6>2. CASE \E n : OnTrail(d, l.start, l.cur, l.visited, l.newOffset, n)
            <7>1. PICK n : OnTrail(d, l.start, l.cur, l.visited, l.newOffset, n)
              BY <6>2
            <7>2. Doomed(d, l.start, SuccOf(d, WalkOf(d, l.start)[n]))
              <8>1. /\ n \in 0..Len(d) /\ l.cur = WalkOf(d, l.start)[n] /\ Trail(d, l.start, n)
                    /\ l.visited \subseteq {WalkOf(d, l.start)[m] : m \in 0..n}
                BY <7>1 DEF OnTrail
              <8> QED BY <1>3, <1>4, <3>1, <4>3, <5>1, <8>1, BackDoomed
            <7> QED BY <1>3, <1>4, <7>2, DoomedUnreadable
          <6> QED BY <2>1, <6>1, <6>2 DEF Followed
        <5> QED BY <2>2, <5>1, <5>2
      <4>5. CASE ~Looped(c)
        <5>1. local' = [local EXCEPT !.cur = c, !.visited = @ \cup {c},
                                     !.newOffset = IF @ < 0 THEN local.cur + 2 ELSE @]
              /\ out' = out /\ status' = status
          BY <3>1, <3>4, <4>1, <4>5 DEF Follow
        <5>2. /\ k.cur = c /\ k.start = l.start /\ k.visited = l.visited \cup {c}
              /\ k.newOffset = IF l.newOffset < 0 THEN l.cur + 2 ELSE l.newOffset
          BY <1>2, <1>3, <5>1 DEF DnsLocals
        <5> QED BY <2>7, <3>1, <4>3, <5>1, <5>2
      <4> QED BY <4>4, <4>5
    <3> QED BY <3>2, <3>3, <3>4
  <2>9. CASE ~(local.cur >= Size) /\ Inside(local.cur) /\ At(local.cur) \notin {0, Pointer}
    <3>1. Label /\ InsideOf(d, l.cur) /\ AtOf(d, l.cur) # Pointer /\ AtOf(d, l.cur) # 0
      BY <1>2, <1>5, <1>13, <2>9 DEF NameStep
    <3>2. PICK c : c = local.cur + 1 + At(local.cur)
      OBVIOUS
    <3>3. c = l.cur + 1 + AtOf(d, l.cur)
      BY <1>2, <1>5, <3>2
    <3>4. CASE c > Size
      <4>1. SuccOf(d, l.cur) = -1
        <5>1. AtOf(d, l.cur) \in Nat
          BY <1>3, <1>4, <3>1, SuccType
        <5>2. ~(c <= Len(d))
          BY <1>3, <1>4, <1>5, <3>3, <3>4, <5>1
        <5> QED BY <3>1, <3>3, <5>2 DEF SuccOf
      <4>2. ~InsideOf(d, -1)
        BY DEF InsideOf
      <4> QED BY <2>2, <2>3, <3>1, <3>2, <3>4, <4>1, <4>2 DEF Label
    <3>5. CASE ~(c > Size)
      <4>1. c = SuccOf(d, l.cur)
        <5>1. AtOf(d, l.cur) \in Nat
          BY <1>3, <1>4, <3>1, SuccType
        <5>2. c <= Len(d)
          BY <1>3, <1>4, <1>5, <3>3, <3>5, <5>1
        <5> QED BY <3>1, <3>3, <5>2 DEF SuccOf
      <4>2. local' = [local EXCEPT !.cur = c] /\ out' = out /\ status' = status
        BY <3>1, <3>2, <3>5 DEF Label
      <4>3. k.cur = c /\ k.start = l.start /\ k.visited = l.visited /\ k.newOffset = l.newOffset
        BY <1>2, <1>3, <4>2 DEF DnsLocals
      <4> QED BY <2>7, <3>1, <4>1, <4>2, <4>3
    <3> QED BY <3>4, <3>5
  <2> QED BY <2>4, <2>5, <2>6, <2>8, <2>9
<1> QED BY <1>10, <1>11, <1>12, <1>13 DEF DnsNext

LEMMA NamesStart == MCInit => NamesInv
<1> SUFFICES ASSUME MCInit, call.parser = "dns" PROVE NamesInv
  BY DEF NamesInv
<1>1. DnsInit
  <2>1. ~NoCall
    BY DEF NoCall
  <2>2. ~FramingInit
    BY Apart, FramingCall
  <2>3. ~RespInit
    BY DEF RespInit, Aligned, Stray
  <2>4. ~LinesInit
    BY Apart, LinesCall
  <2>5. ~HelloInit
    BY HelloData
  <2> QED BY <2>1, <2>2, <2>3, <2>4, <2>5 DEF MCInit
<1>2. local = Fresh /\ out = <<>> /\ status = "run"
  BY <1>1 DEF DnsInit
<1>3. local.at = "section"
  BY <1>2 DEF Fresh
<1> QED BY <1>2, <1>3 DEF NamesInv

LEMMA NamesKeeps == NamesInv /\ Inside3 /\ [MCNext]_<<vars, callVars>> => NamesInv'
<1> SUFFICES ASSUME NamesInv, Inside3, [MCNext]_<<vars, callVars>> PROVE NamesInv'
  OBVIOUS
<1>1. CASE UNCHANGED callVars
  <2>1. call' = call /\ local' = local /\ out' = out /\ status' = status
    BY <1>1 DEF callVars
  <2> QED BY <2>1 DEF NamesInv
<1>2. ASSUME call' = call, call.parser # "dns" PROVE NamesInv'
  BY <1>2 DEF NamesInv
<1>3. CASE DnsNext
  BY <1>3, NamesTurn
<1>4. CASE RespStep
  BY <1>2, <1>4 DEF RespStep, Running, Return, Panic
<1>5. CASE FramingNext
  BY <1>2, <1>5, Apart DEF FramingNext, Enter, FrameStep, Framing, Running, Return, Panic
<1>6. CASE HelloNext
  BY <1>2, <1>6 DEF HelloNext, Record, Vector, CipherSuites, ExtensionLength, Extension,
                    Running, Return, Panic
<1>7. CASE PieceStep
  BY <1>2, <1>7, Apart DEF PieceStep, Return
<1> QED BY <1>1, <1>3, <1>4, <1>5, <1>6, <1>7 DEF MCNext, ParseStep, callVars

(* dns/parser.go:135-185, decodeName: every name whose labels and pointers *)
(* lead to a terminator is read, the offset returned is the one past the   *)
(* name field, and Parse fails only on a name that cannot be read or on    *)
(* what is cut behind it -- over messages of any bytes and any length.     *)
THEOREM NamesRead == MCSpec => []NamesAsWritten
<1>1. NamesInv => NamesAsWritten
  <2> SUFFICES ASSUME NamesInv, call.parser = "dns" PROVE NamesAsWritten
    BY DEF NamesAsWritten
  <2>1. /\ \A i \in 1..Len(out) : NameRead(call.data, out[i])
        /\ status = "err" /\ Len(call.data) >= HeaderSize /\ ReadableOf(call.data, local.start) =>
             CutOf(call.data, local.at, local.start)
    BY DEF NamesInv
  <2> QED BY <2>1, OfData DEF NameRead, NamesAsWritten
<1> QED BY <1>1, InsideInit, InsideNext, NamesStart, NamesKeeps, PTL DEF MCSpec

-----------------------------------------------------------------------------
(* The Redis parser.                                                       *)

(* A turn of readRESPValue's recursion over the units u: one value from    *)
(* unit x[1] on, and then x[2] - 1 more.                                   *)
Turn(u, f, x) ==
  LET span == BulkSpan(u[x[1]].n, Len(u) - x[1] + 1) IN
  IF x[1] <= 0 \/ x[2] = 0 THEN x[1]
  ELSE IF x[1] > Len(u) THEN 0
  ELSE IF u[x[1]].kind = "bulk" THEN IF span <= 0 THEN span ELSE f[<<x[1] + span, x[2] - 1>>]
  ELSE IF u[x[1]].kind # "array" THEN f[<<x[1] + 1, x[2] - 1>>]
  ELSE IF u[x[1]].n < 0 THEN 0
  ELSE f[<<f[<<x[1] + 1, u[x[1]].n>>], x[2] - 1>>]

Places(u) == (-1..Len(u) + 1) \X (0..2)

(* Arrays hold at most two values; a chunk with the line of a bulk string  *)
(* in it is far shorter than an int can count.                             *)
Units(u) ==
  /\ Len(u) \in Nat
  /\ \A i \in 1..Len(u) :
       /\ u[i].n \in Int
       /\ u[i].kind = "array" => u[i].n <= 2
       /\ u[i].kind = "bulk" => u[i].n >= 0 /\ u[i].n <= MaxInt /\ Len(u) + 3 < MaxInt

OverflowIn(u) == \E i \in 1..Len(u) : u[i].kind = "bulk" /\ u[i].n + 3 > MaxInt

(* From unit j reading only goes forward, to k, or fails, and it panics    *)
(* only on a length that overflows.                                        *)
Forward(u, j, k) == (k <= 0 \/ k >= j) /\ (k < 0 => j < 0 \/ OverflowIn(u))

(* f does what the recursion says after a failure and from unit r on.      *)
Unrolled(u, f, r) ==
  \A x \in Places(u) : x[1] <= 0 \/ x[1] >= r =>
    f[x] = Turn(u, f, x) /\ f[x] \in -1..Len(u) + 1 /\ Forward(u, x[1], f[x])

(* The sums of readRESPValue: it panics exactly if they overflow.          *)
LEMMA Spans ==
  ASSUME NEW n \in Nat, n <= MaxInt, NEW rest \in Nat, rest + 3 < MaxInt
  PROVE  /\ n + 3 > MaxInt => BulkSpan(n, rest) = -1
         /\ n + 3 <= MaxInt => BulkSpan(n, rest) \in Nat /\ BulkSpan(n, rest) <= rest
<1>1. MaxInt \in Nat
  BY ValuesAssumption
<1>2. CASE n + 3 > MaxInt
  <2>1. Wrap(1 + n + 2) < 0
    BY <1>1, <1>2 DEF Wrap
  <2>2. Wrap(1 + n) \notin 1..rest
    BY <1>1, <1>2 DEF Wrap
  <2>3. Wrap(1 + n + 2) \in Int
    BY <1>1 DEF Wrap
  <2>4. ~(Wrap(1 + n + 2) > rest)
    BY <2>1, <2>3
  <2> QED BY <1>1, <1>2, <2>2, <2>4 DEF BulkSpan
<1>3. CASE n + 3 <= MaxInt
  <2>1. Wrap(1 + n + 2) = n + 3 /\ Wrap(1 + n) = n + 1
    BY <1>1, <1>3 DEF Wrap
  <2> QED BY <1>1, <1>3, <2>1 DEF BulkSpan
<1> QED BY <1>1, <1>2, <1>3

LEMMA TurnInside ==
  ASSUME NEW u, Units(u), NEW r \in 1..Len(u), NEW f,
         Unrolled(u, f, r + 1), NEW x \in Places(u), x[1] <= 0 \/ x[1] >= r
  PROVE  /\ Turn(u, f, x) \in -1..Len(u) + 1 /\ Forward(u, x[1], Turn(u, f, x))
         /\ \A g : (\A y \in Places(u) : y[1] <= 0 \/ y[1] > r => g[y] = f[y])
              => Turn(u, g, x) = Turn(u, f, x)
<1>1. PICK j \in -1..Len(u) + 1, m \in 0..2 : x = <<j, m>> /\ x[1] = j /\ x[2] = m
  BY DEF Places
<1>2. Len(u) \in Nat /\ j \in Int /\ m \in Int
  BY DEF Units
<1>3. CASE j <= 0 \/ m = 0 \/ j > Len(u)
  BY <1>1, <1>2, <1>3 DEF Turn, Forward
<1>4. CASE ~(j <= 0 \/ m = 0 \/ j > Len(u))
  <2>1. j \in 1..Len(u) /\ j >= r /\ m - 1 \in 0..2 /\ j + 1 \in -1..Len(u) + 1 /\ j + 1 > r
    BY <1>1, <1>2, <1>4
  <2>2. u[j].n \in Int /\ (u[j].kind = "array" => u[j].n <= 2)
    BY <2>1 DEF Units
  <2>3. CASE u[j].kind = "bulk"
    <3> DEFINE span == BulkSpan(u[j].n, Len(u) - j + 1)
               y == <<j + span, m - 1>>
    <3>1. u[j].n \in Nat /\ u[j].n <= MaxInt /\ Len(u) + 3 < MaxInt
      BY <2>1, <2>3 DEF Units
    <3>2. Len(u) - j + 1 \in Nat /\ (Len(u) - j + 1) + 3 < MaxInt
      <4>1. PICK c \in Nat : c = Len(u)
        BY <1>2
      <4>2. PICK i \in Int : i = j /\ i >= 1 /\ i <= c
        BY <2>1, <4>1
      <4>3. PICK b \in Nat : b = MaxInt /\ c + 3 < b
        BY <3>1, <4>1, ValuesAssumption
      <4>4. c - i + 1 \in Nat /\ (c - i + 1) + 3 < b
        BY <4>2, <4>3
      <4> QED BY <4>1, <4>2, <4>3, <4>4
    <3>3. /\ u[j].n + 3 > MaxInt => span = -1
          /\ u[j].n + 3 <= MaxInt => span \in Nat /\ span <= Len(u) - j + 1
      BY <3>1, <3>2, Spans
    <3>4. \A g : Turn(u, g, x) = IF span <= 0 THEN span ELSE g[y]
      BY <1>1, <1>2, <1>4, <2>3 DEF Turn
    <3>5. CASE u[j].n + 3 > MaxInt
      <4>1. OverflowIn(u)
        BY <2>1, <2>3, <3>5 DEF OverflowIn
      <4>2. span = -1
        BY <3>3, <3>5
      <4> HIDE DEF span, y
      <4>3. \A g : Turn(u, g, x) = -1
        BY <3>4, <4>2
      <4> QED BY <1>2, <4>1, <4>3 DEF Forward
    <3>6. CASE ~(u[j].n + 3 > MaxInt) /\ span = 0
      <4> HIDE DEF span, y
      <4>1. \A g : Turn(u, g, x) = 0
        BY <3>4, <3>6
      <4> QED BY <1>2, <4>1 DEF Forward
    <3>7. CASE ~(u[j].n + 3 > MaxInt) /\ span # 0
      <4>1. span \in Nat /\ span > 0 /\ span <= Len(u) - j + 1
        BY <3>1, <3>3, <3>7, ValuesAssumption
      <4>2. \A g : Turn(u, g, x) = g[y]
        <5> HIDE DEF span, y
        <5> QED BY <3>4, <4>1
      <4> HIDE DEF span
      <4>3. j + span \in -1..Len(u) + 1 /\ j + span >= r + 1 /\ j + span > j
        BY <1>2, <2>1, <4>1
      <4>4. y \in Places(u) /\ y[1] = j + span
        BY <2>1, <4>3 DEF Places
      <4> HIDE DEF y
      <4>5. f[y] \in -1..Len(u) + 1 /\ Forward(u, j + span, f[y])
        BY <4>3, <4>4 DEF Unrolled
      <4>6. Forward(u, j, f[y])
        BY <1>2, <2>1, <4>1, <4>5 DEF Forward
      <4>7. \A g : (\A v \in Places(u) : v[1] <= 0 \/ v[1] > r => g[v] = f[v]) => g[y] = f[y]
        BY <2>1, <4>3, <4>4
      <4> QED BY <1>1, <4>2, <4>5, <4>6, <4>7
    <3> QED BY <3>5, <3>6, <3>7
  <2>4. CASE u[j].kind \notin {"array", "bulk"}
    <3> DEFINE y == <<j + 1, m - 1>>
    <3>1. y \in Places(u) /\ y[1] = j + 1
      BY <2>1 DEF Places
    <3>2. f[y] \in -1..Len(u) + 1 /\ Forward(u, j + 1, f[y])
      BY <2>1, <3>1, <1>2 DEF Unrolled
    <3>3. \A g : Turn(u, g, x) = g[y]
      BY <1>1, <1>2, <1>4, <2>4 DEF Turn
    <3> HIDE DEF y
    <3>4. Forward(u, j, f[y])
      BY <1>2, <2>1, <3>2 DEF Forward
    <3> QED BY <1>1, <1>2, <2>1, <3>1, <3>2, <3>3, <3>4
  <2>5. CASE u[j].kind = "array" /\ u[j].n < 0
    <3>1. \A g : Turn(u, g, x) = 0
      BY <1>1, <1>2, <1>4, <2>5 DEF Turn
    <3> QED BY <1>2, <3>1 DEF Forward
  <2>6. CASE u[j].kind = "array" /\ ~(u[j].n < 0)
    <3> DEFINE y == <<j + 1, u[j].n>>
               z == <<f[y], m - 1>>
    <3>1. y \in Places(u) /\ y[1] = j + 1
      BY <2>1, <2>2, <2>6 DEF Places
    <3>2. f[y] \in -1..Len(u) + 1 /\ Forward(u, j + 1, f[y])
      BY <2>1, <3>1, <1>2 DEF Unrolled
    <3>3. \A g : Turn(u, g, x) = g[<<g[y], m - 1>>]
      BY <1>1, <1>2, <1>4, <2>6 DEF Turn
    <3> HIDE DEF y
    <3>4. z \in Places(u) /\ z[1] = f[y] /\ (z[1] <= 0 \/ (z[1] > r /\ z[1] >= r + 1))
      BY <1>2, <2>1, <3>2 DEF Places, Forward
    <3> HIDE DEF z
    <3>5. f[z] \in -1..Len(u) + 1 /\ Forward(u, f[y], f[z])
      BY <3>4 DEF Unrolled
    <3>6. f[z] = Turn(u, f, z)
      BY <3>4 DEF Unrolled
    <3>7. Forward(u, j, f[z])
      <4>1. CASE f[y] <= 0
        <5>1. Turn(u, f, z) = f[y]
          BY <3>4, <4>1 DEF Turn
        <5> QED BY <1>2, <2>1, <3>2, <3>6, <4>1, <5>1 DEF Forward
      <4>2. CASE ~(f[y] <= 0)
        BY <1>2, <2>1, <3>2, <3>5, <4>2 DEF Forward
      <4> QED BY <4>1, <4>2
    <3>8. ASSUME NEW g, \A v \in Places(u) : v[1] <= 0 \/ v[1] > r => g[v] = f[v]
          PROVE  Turn(u, g, x) = f[z]
      <4>1. g[y] = f[y]
        BY <2>1, <3>1, <3>8
      <4>2. g[z] = f[z]
        BY <3>4, <3>8
      <4> QED BY <3>3, <4>1, <4>2 DEF z
    <3>9. Turn(u, f, x) = f[z]
      BY <3>3 DEF z
    <3> QED BY <1>1, <3>5, <3>7, <3>8, <3>9
  <2> QED BY <2>3, <2>4, <2>5, <2>6
<1> QED BY <1>3, <1>4

(* readRESPValue ends, and its result is what its recursion says.          *)
LEMMA ReadLoop ==
  ASSUME Units(call.data)
  PROVE  \E h :
           /\ \A x \in Places(call.data) : h[x] = Turn(call.data, h, x)
           /\ \A x \in Places(call.data) : h[x] \in -1..Len(call.data) + 1
                                              /\ Forward(call.data, x[1], h[x])
           /\ \A i, n : ReadValues(i, n) = h[<<i, n>>]
<1> DEFINE u == call.data
           N == Len(u)
           Eq(f) == f = [x \in Places(u) |-> Turn(u, f, x)]
           H == {k \in 0..N : \E f \in [Places(u) -> -1..N + 1] : Unrolled(u, f, N + 1 - k)}
<1>1. Units(u) /\ N \in Nat
  BY DEF Units
<1> HIDE DEF u
<1>2. 0 \in H
  <2> DEFINE f == [x \in Places(u) |-> IF x[1] <= 0 \/ x[2] = 0 THEN x[1] ELSE 0]
  <2>1. f \in [Places(u) -> -1..N + 1]
    <3>1. \A x \in Places(u) : x[1] \in -1..N + 1
      BY DEF Places
    <3> QED BY <1>1, <3>1
  <2>2. ASSUME NEW x \in Places(u), x[1] <= 0 \/ x[1] >= N + 1
        PROVE  f[x] = Turn(u, f, x) /\ f[x] \in -1..N + 1 /\ Forward(u, x[1], f[x])
    <3>1. x[1] \in -1..N + 1 /\ x[2] \in 0..2
      BY DEF Places
    <3>2. x[1] <= 0 \/ x[1] = N + 1
      BY <1>1, <2>2, <3>1
    <3>3. \A e : Turn(u, e, x) = IF x[1] <= 0 \/ x[2] = 0 THEN x[1] ELSE 0
      BY <1>1, <3>1, <3>2 DEF Turn
    <3>4. f[x] = IF x[1] <= 0 \/ x[2] = 0 THEN x[1] ELSE 0
      OBVIOUS
    <3> HIDE DEF f
    <3> QED BY <1>1, <3>1, <3>2, <3>3, <3>4 DEF Forward
  <2>3. Unrolled(u, f, N + 1)
    BY <2>2 DEF Unrolled
  <2> HIDE DEF f
  <2>4. N + 1 - 0 = N + 1 /\ 0 \in 0..N
    BY <1>1
  <2> QED BY <2>1, <2>3, <2>4
<1>3. ASSUME NEW k \in 0..N, k + 1 <= N, k \in H PROVE k + 1 \in H
  <2> DEFINE r == N + 1 - (k + 1)
  <2>1. r \in 1..N /\ r + 1 = N + 1 - k /\ k + 1 \in 0..N
    BY <1>1, <1>3
  <2>2. PICK f \in [Places(u) -> -1..N + 1] : Unrolled(u, f, r + 1)
    BY <1>3, <2>1
  <2> HIDE DEF r
  <2> DEFINE g == [x \in Places(u) |-> IF x[1] = r THEN Turn(u, f, x) ELSE f[x]]
  <2>3. ASSUME NEW x \in Places(u), x[1] <= 0 \/ x[1] >= r
        PROVE  /\ Turn(u, f, x) \in -1..N + 1 /\ Forward(u, x[1], Turn(u, f, x))
               /\ \A e : (\A y \in Places(u) : y[1] <= 0 \/ y[1] > r => e[y] = f[y])
                           => Turn(u, e, x) = Turn(u, f, x)
    BY <1>1, <2>1, <2>2, <2>3, TurnInside
  <2>4. \A x \in Places(u) : x[1] \in -1..N + 1
    BY DEF Places
  <2>5. g \in [Places(u) -> -1..N + 1]
    <3>1. \A x \in Places(u) : x[1] = r => Turn(u, f, x) \in -1..N + 1
      BY <2>1, <2>3
    <3> QED BY <3>1
  <2>6. \A y \in Places(u) : y[1] <= 0 \/ y[1] > r => g[y] = f[y]
    BY <2>1, <2>4
  <2>7. ASSUME NEW x \in Places(u), x[1] <= 0 \/ x[1] >= r
        PROVE  g[x] = Turn(u, g, x) /\ g[x] \in -1..N + 1 /\ Forward(u, x[1], g[x])
    <3>1. Turn(u, g, x) = Turn(u, f, x)
      BY <2>3, <2>6, <2>7
    <3>2. g[x] = Turn(u, f, x)
      <4>1. CASE x[1] = r
        BY <4>1
      <4>2. CASE x[1] # r
        <5>1. x[1] <= 0 \/ x[1] >= r + 1
          BY <2>1, <2>4, <2>7, <4>2
        <5> QED BY <2>2, <4>2, <5>1 DEF Unrolled
      <4> QED BY <4>1, <4>2
    <3> QED BY <2>3, <2>7, <3>1, <3>2
  <2> HIDE DEF g
  <2>8. Unrolled(u, g, r)
    BY <2>7 DEF Unrolled
  <2> QED BY <2>1, <2>5, <2>8 DEF r
<1>4. 0..N \subseteq H
  <2> HIDE DEF H, N
  <2> QED BY <1>1, <1>2, <1>3, Induct
<1>5. PICK f \in [Places(u) -> -1..N + 1] : Unrolled(u, f, 1)
  <2>1. N \in 0..N /\ N + 1 - N = 1
    BY <1>1
  <2> QED BY <1>4, <2>1
<1> HIDE DEF H
<1>6. \A x \in Places(u) : f[x] = Turn(u, f, x)
  <2> TAKE x \in Places(u)
  <2>1. x[1] <= 0 \/ x[1] >= 1
    BY <1>1 DEF Places
  <2> QED BY <1>5, <2>1 DEF Unrolled
<1>7. Eq(f)
  BY <1>6
<1>8. PICK h : h = CHOOSE g : Eq(g)
  OBVIOUS
<1>9. Eq(h)
  <2> HIDE DEF Eq
  <2> QED BY <1>7, <1>8
<1>10. \A i, n : ReadValues(i, n) = h[<<i, n>>]
  <2>1. \A i, n : ReadValues(i, n) = (CHOOSE g : Eq(g))[<<i, n>>]
    BY Zenon DEF ReadValues, Turn, Places, Eq, u
  <2> HIDE DEF Eq
  <2> QED BY <1>8, <2>1
<1>11. \A x \in Places(u) : h[x] = Turn(u, h, x)
  BY <1>9
<1>12. Unrolled(u, h, N + 1)
  <2> SUFFICES ASSUME NEW x \in Places(u), x[1] <= 0 \/ x[1] >= N + 1
               PROVE  h[x] \in -1..N + 1 /\ Forward(u, x[1], h[x])
    BY <1>11 DEF Unrolled
  <2>1. x[1] \in -1..N + 1 /\ x[2] \in 0..2
    BY DEF Places
  <2>2. x[1] <= 0 \/ x[1] = N + 1
    BY <1>1, <2>1
  <2>3. \A e : Turn(u, e, x) = IF x[1] <= 0 \/ x[2] = 0 THEN x[1] ELSE 0
    BY <1>1, <2>1, <2>2 DEF Turn
  <2>4. h[x] = IF x[1] <= 0 \/ x[2] = 0 THEN x[1] ELSE 0
    BY <1>11, <2>3
  <2> QED BY <1>1, <2>1, <2>2, <2>4 DEF Forward
<1>13. ASSUME NEW r \in 1..N, Unrolled(u, h, r + 1) PROVE Unrolled(u, h, r)
  <2> SUFFICES ASSUME NEW x \in Places(u), x[1] <= 0 \/ x[1] >= r
               PROVE  h[x] \in -1..N + 1 /\ Forward(u, x[1], h[x])
    BY <1>11 DEF Unrolled
  <2>1. Turn(u, h, x) \in -1..N + 1 /\ Forward(u, x[1], Turn(u, h, x))
    BY <1>1, <1>13, TurnInside
  <2> QED BY <1>11, <2>1
<1> DEFINE K == {k \in 0..N : Unrolled(u, h, N + 1 - k)}
<1>14. 0..N \subseteq K
  <2> HIDE DEF N
  <2>1. 0 \in K
    <3>1. N + 1 - 0 = N + 1 /\ 0 \in 0..N
      BY <1>1
    <3> QED BY <1>12, <3>1
  <2>2. ASSUME NEW k \in 0..N, k + 1 <= N, k \in K PROVE k + 1 \in K
    <3>1. PICK r \in 1..N : r = N + 1 - (k + 1) /\ r + 1 = N + 1 - k /\ k + 1 \in 0..N
      BY <1>1, <2>2
    <3>2. Unrolled(u, h, r)
      BY <1>13, <2>2, <3>1
    <3> QED BY <3>1, <3>2
  <2> HIDE DEF K
  <2> QED BY <1>1, <2>1, <2>2, Induct
<1>15. Unrolled(u, h, 1)
  <2>1. N \in 0..N /\ N + 1 - N = 1
    BY <1>1
  <2> QED BY <1>14, <2>1
<1>16. ASSUME NEW x \in Places(u) PROVE h[x] \in -1..N + 1 /\ Forward(u, x[1], h[x])
  <2>1. x[1] <= 0 \/ x[1] >= 1
    BY <1>1 DEF Places
  <2> QED BY <1>15, <2>1 DEF Unrolled
<1> QED BY <1>10, <1>11, <1>16 DEF u

LEMMA ReadFacts ==
  ASSUME Units(call.data), NEW j \in 0..Len(call.data) + 1, NEW m \in 0..2
  PROVE  /\ j = 0 \/ m = 0 => ReadValues(j, m) = j
         /\ j = Len(call.data) + 1 /\ m # 0 => ReadValues(j, m) = 0
         /\ j \in 1..Len(call.data) /\ m # 0 =>
              /\ call.data[j].kind \notin {"array", "bulk"} =>
                   ReadValues(j, m) = ReadValues(j + 1, m - 1)
              /\ call.data[j].kind = "array" /\ call.data[j].n < 0 => ReadValues(j, m) = 0
              /\ call.data[j].kind = "array" /\ ~(call.data[j].n < 0) =>
                   ReadValues(j, m) = ReadValues(ReadValues(j + 1, call.data[j].n), m - 1)
<1>1. PICK h : /\ \A x \in Places(call.data) : h[x] = Turn(call.data, h, x)
               /\ \A i, n : ReadValues(i, n) = h[<<i, n>>]
  BY ReadLoop
<1>2. PICK u : u = call.data
  OBVIOUS
<1>3. <<j, m>> \in Places(u) /\ Len(u) \in Nat
  BY <1>2 DEF Places, Units
<1>4. h[<<j, m>>] = Turn(u, h, <<j, m>>)
  BY <1>1, <1>2, <1>3
<1>5. /\ j = 0 \/ m = 0 => h[<<j, m>>] = j
      /\ j = Len(u) + 1 /\ m # 0 => h[<<j, m>>] = 0
      /\ j \in 1..Len(u) /\ m # 0 =>
              /\ u[j].kind \notin {"array", "bulk"} => h[<<j, m>>] = h[<<j + 1, m - 1>>]
              /\ u[j].kind = "array" /\ u[j].n < 0 => h[<<j, m>>] = 0
              /\ u[j].kind = "array" /\ ~(u[j].n < 0) =>
                   h[<<j, m>>] = h[<<h[<<j + 1, u[j].n>>], m - 1>>]
  BY <1>3, <1>4 DEF Turn
<1> QED BY <1>1, <1>2, <1>5

(* Reading goes forward within the data, and panics only on an overflow.   *)
LEMMA ReadInside ==
  ASSUME Units(call.data), NEW j \in 1..Len(call.data) + 1, NEW m \in 0..2
  PROVE  /\ ReadValues(j, m) \in -1..Len(call.data) + 1
         /\ Forward(call.data, j, ReadValues(j, m))
<1>1. PICK h : /\ \A x \in Places(call.data) : h[x] \in -1..Len(call.data) + 1
                                                  /\ Forward(call.data, x[1], h[x])
               /\ \A i, n : ReadValues(i, n) = h[<<i, n>>]
  BY ReadLoop
<1>2. PICK x : x = <<j, m>>
  OBVIOUS
<1>3. x \in Places(call.data) /\ x[1] = j
  BY <1>2 DEF Places, Units
<1> QED BY <1>1, <1>2, <1>3

NullIn(v) == Array(-1) \in Range(v)

EventOf(v) == v[1] \notin {Value, Array(0)}

LEMMA UnitFields ==
  /\ Value.kind = "value" /\ Value.n = 0 /\ Error.kind = "error" /\ Error.n = 0
  /\ \A n : Array(n).kind = "array" /\ Array(n).n = n
  /\ \A n : Bulk(n).kind = "bulk" /\ Bulk(n).n = n
BY DEF Value, Error, Array, Bulk

AnyUnit == {Value, Error, Array(0), Array(1), Array(2), Array(-1)}

(* The values of the streams, unit by unit.                                *)
Atom(v) == Len(v) = 1 /\ v[1] = Value
Fault(v) == Len(v) = 1 /\ v[1] = Error
Empty(v) == Len(v) = 1 /\ v[1] = Array(0)
Null(v) == Len(v) = 1 /\ v[1] = Array(-1)
Pair(v) == Len(v) = 3 /\ v[1] = Array(2) /\ v[2] = Value /\ v[3] = Value
Nested(v) == Len(v) = 4 /\ v[1] = Array(2) /\ v[2] = Array(1) /\ v[3] = Value /\ v[4] = Value
FaultIn(v) == Len(v) = 2 /\ v[1] = Array(1) /\ v[2] = Error
NullInside(v) == Len(v) = 2 /\ v[1] = Array(1) /\ v[2] = Array(-1)

LEMMA Shapes ==
  ASSUME NEW v \in Values
  PROVE  /\ v \in Seq(AnyUnit)
         /\ Atom(v) \/ Fault(v) \/ Empty(v) \/ Null(v) \/ Pair(v) \/ Nested(v) \/ FaultIn(v)
              \/ NullInside(v)
<1>1. /\ Value \in AnyUnit /\ Error \in AnyUnit /\ Array(0) \in AnyUnit /\ Array(1) \in AnyUnit
      /\ Array(2) \in AnyUnit /\ Array(-1) \in AnyUnit
  BY Zenon DEF AnyUnit
<1>2. CASE v = <<Value>>
  BY <1>1, <1>2 DEF Atom
<1>3. CASE v = <<Error>>
  BY <1>1, <1>3 DEF Fault
<1>4. CASE v = <<Array(0)>>
  BY <1>1, <1>4 DEF Empty
<1>5. CASE v = <<Array(-1)>>
  BY <1>1, <1>5 DEF Null
<1>6. CASE v = <<Array(2), Value, Value>>
  BY <1>1, <1>6 DEF Pair
<1>7. CASE v = <<Array(2), Array(1), Value, Value>>
  BY <1>1, <1>7 DEF Nested
<1>8. CASE v = <<Array(1), Error>>
  BY <1>1, <1>8 DEF FaultIn
<1>9. CASE v = <<Array(1), Array(-1)>>
  BY <1>1, <1>9 DEF NullInside
<1> QED BY <1>2, <1>3, <1>4, <1>5, <1>6, <1>7, <1>8, <1>9, Zenon DEF Values

LEMMA ShapeFacts ==
  ASSUME NEW v \in Values
  PROVE  /\ Len(v) \in Nat \ {0}
         /\ NullIn(v) <=> Null(v) \/ NullInside(v)
         /\ EventOf(v) <=> ~(Atom(v) \/ Empty(v))
<1>1. PICK minus \in Int : minus = -1 /\ minus < 0
  OBVIOUS
<1>2. PICK m : m = Array(-1)
  OBVIOUS
<1>3. m.kind = "array" /\ m.n = minus
  BY <1>1, <1>2, UnitFields
<1>4. /\ m \notin {Value, Error, Array(0), Array(1), Array(2)} /\ Value # Array(0)
      /\ Error \notin {Value, Array(0)} /\ Array(1) \notin {Value, Array(0)}
      /\ Array(2) \notin {Value, Array(0)}
  BY <1>1, <1>3, UnitFields
<1>5. DOMAIN v = 1..Len(v) /\ NullIn(v) <=> \E k \in 1..Len(v) : v[k] = m
  BY <1>2, Shapes DEF NullIn, Range
<1>6. EventOf(v) <=> v[1] \notin {Value, Array(0)}
  BY DEF EventOf
<1>7. Atom(v) \/ Fault(v) \/ Empty(v) \/ Null(v) \/ Pair(v) \/ Nested(v) \/ FaultIn(v) \/ NullInside(v)
  BY Shapes
<1>8. CASE Atom(v) \/ Fault(v) \/ Empty(v) \/ Null(v)
  BY <1>2, <1>4, <1>5, <1>6, <1>8 DEF Atom, Fault, Empty, Null, NullInside
<1>9. CASE Pair(v)
  <2>1. Len(v) = 3 /\ v[1] = Array(2) /\ v[2] = Value /\ v[3] = Value
    BY <1>9 DEF Pair
  <2>2. 1..3 = {1, 2, 3}
    OBVIOUS
  <2>3. ~NullIn(v)
    BY <1>4, <1>5, <2>1, <2>2
  <2>4. EventOf(v) /\ ~Atom(v) /\ ~Empty(v)
    BY <1>4, <1>6, <2>1 DEF Atom, Empty
  <2>5. Len(v) \in Nat \ {0} /\ ~Null(v) /\ ~NullInside(v)
    BY <2>1 DEF Null, NullInside
  <2> QED BY <2>3, <2>4, <2>5
<1>10. CASE Nested(v)
  <2>1. Len(v) = 4 /\ v[1] = Array(2) /\ v[2] = Array(1) /\ v[3] = Value /\ v[4] = Value
    BY <1>10 DEF Nested
  <2>2. 1..4 = {1, 2, 3, 4}
    OBVIOUS
  <2>3. ~NullIn(v)
    BY <1>4, <1>5, <2>1, <2>2
  <2>4. EventOf(v) /\ ~Atom(v) /\ ~Empty(v)
    BY <1>4, <1>6, <2>1 DEF Atom, Empty
  <2>5. Len(v) \in Nat \ {0} /\ ~Null(v) /\ ~NullInside(v)
    BY <2>1 DEF Null, NullInside
  <2> QED BY <2>3, <2>4, <2>5
<1>11. CASE FaultIn(v)
  <2>1. Len(v) = 2 /\ v[1] = Array(1) /\ v[2] = Error
    BY <1>11 DEF FaultIn
  <2>2. 1..2 = {1, 2}
    OBVIOUS
  <2>3. ~NullIn(v)
    BY <1>4, <1>5, <2>1, <2>2
  <2>4. EventOf(v) /\ ~Atom(v) /\ ~Empty(v)
    BY <1>4, <1>6, <2>1 DEF Atom, Empty
  <2>5. Len(v) \in Nat \ {0} /\ ~Null(v) /\ ~NullInside(v)
    BY <1>2, <1>4, <2>1 DEF Null, NullInside
  <2> QED BY <2>3, <2>4, <2>5
<1>12. CASE NullInside(v)
  <2>1. Len(v) = 2 /\ v[1] = Array(1) /\ v[2] = m
    BY <1>2, <1>12 DEF NullInside
  <2>2. NullIn(v)
    BY <1>5, <2>1
  <2>3. EventOf(v) /\ ~Atom(v) /\ ~Empty(v)
    BY <1>4, <1>6, <2>1 DEF Atom, Empty
  <2> QED BY <1>12, <2>1, <2>2, <2>3
<1> QED BY <1>7, <1>8, <1>9, <1>10, <1>11, <1>12

(* The units from i on are those of v, as far as the chunk goes.           *)
Holds(u, i, v) == \A k \in 1..Len(v) : i + k - 1 <= Len(u) => u[i + k - 1] = v[k]

(* decodeOne reads a value of any nesting to its end.                      *)
LEMMA DecodeValue ==
  ASSUME Units(call.data), NEW i \in 1..Len(call.data), NEW v \in Values, Holds(call.data, i, v)
  PROVE  /\ i + Len(v) <= Len(call.data) + 1 /\ ~NullIn(v) =>
              DecodeOne(i).next = i + Len(v) /\ (DecodeOne(i).event <=> EventOf(v))
         /\ ~(i + Len(v) <= Len(call.data) + 1 /\ ~NullIn(v)) => DecodeOne(i).next = 0
<1>1. PICK u, N : u = call.data /\ N = Len(u)
  OBVIOUS
<1>2. N \in Nat /\ i \in 1..N /\ i + 1 \in 0..N + 1
  BY <1>1 DEF Units
<1> DEFINE R(j, m) == ReadValues(j, m)
<1>3. ASSUME NEW j \in 0..N + 1, NEW m \in 0..2
      PROVE  /\ j = 0 \/ m = 0 => R(j, m) = j
             /\ j = N + 1 /\ m # 0 => R(j, m) = 0
             /\ j \in 1..N /\ m # 0 =>
                 /\ u[j].kind \notin {"array", "bulk"} => R(j, m) = R(j + 1, m - 1)
                 /\ u[j].kind = "array" /\ u[j].n < 0 => R(j, m) = 0
                 /\ u[j].kind = "array" /\ ~(u[j].n < 0) => R(j, m) = R(R(j + 1, u[j].n), m - 1)
  BY <1>1, ReadFacts
<1>4. /\ u[i].kind = "array" =>
           DecodeOne(i) = [event |-> u[i].n > 0, next |-> IF u[i].n < 0 THEN 0 ELSE R(i + 1, u[i].n)]
      /\ u[i].kind = "error" => DecodeOne(i) = [event |-> TRUE, next |-> i + 1]
      /\ u[i].kind = "value" => DecodeOne(i) = [event |-> FALSE, next |-> R(i, 1)]
  BY <1>1 DEF DecodeOne
<1>5. u[i] = v[1] /\ \A k \in 1..Len(v) : i + k - 1 <= N => u[i + k - 1] = v[k]
  BY <1>1, <1>2, ShapeFacts DEF Holds
<1>6. PICK minus \in Int : minus = -1 /\ minus < 0
  OBVIOUS
<1>7. \A n : Array(n).kind = "array" /\ Array(n).n = n
  BY UnitFields
<1> HIDE DEF R
<1>8. ASSUME NEW j \in 1..N, NEW m \in 0..2, m # 0, u[j] = Value \/ u[j] = Error
      PROVE  R(j, m) = R(j + 1, m - 1)
  BY <1>2, <1>3, <1>8, UnitFields
<1>9. ASSUME NEW j \in 1..N, NEW m \in 0..2, m # 0, NEW n \in 0..2, u[j] = Array(n)
      PROVE  R(j, m) = R(R(j + 1, n), m - 1)
  BY <1>2, <1>3, <1>7, <1>9
<1>10. ASSUME NEW j \in 0..N + 1 PROVE R(j, 0) = j
  <2>1. 0 \in 0..2
    OBVIOUS
  <2> QED BY <1>3, <2>1
<1>11. \A m \in {1, 2} : R(N + 1, m) = 0 /\ R(0, m) = 0
  BY <1>2, <1>3
<1>12. R(0, 0) = 0
  BY <1>2, <1>3
<1>13. CASE Atom(v)
  <2>1. R(i, 1) = R(i + 1, 0)
    <3>1. R(i, 1) = R(i + 1, 1 - 1)
      BY <1>2, <1>5, <1>8, <1>13 DEF Atom
    <3> QED BY <3>1
  <2>2. DecodeOne(i) = [event |-> FALSE, next |-> i + 1] /\ Len(v) = 1 /\ ~EventOf(v) /\ ~NullIn(v)
    BY <1>2, <1>4, <1>5, <1>10, <1>13, <2>1, UnitFields, ShapeFacts DEF Atom, Null, NullInside
  <2> QED BY <1>1, <1>2, <2>2
<1>14. CASE Fault(v)
  <2>1. DecodeOne(i) = [event |-> TRUE, next |-> i + 1] /\ Len(v) = 1 /\ EventOf(v) /\ ~NullIn(v)
    BY <1>4, <1>5, <1>14, UnitFields, ShapeFacts DEF Fault, Atom, Empty, Null, NullInside
  <2> QED BY <1>1, <1>2, <2>1
<1>15. CASE Empty(v)
  <2>1. u[i].kind = "array" /\ u[i].n = 0
    BY <1>5, <1>7, <1>15 DEF Empty
  <2>2. Len(v) = 1 /\ ~EventOf(v) /\ ~NullIn(v)
    BY <1>15, ShapeFacts, UnitFields DEF Empty, Atom, Null, NullInside
  <2>3. DecodeOne(i).next = i + 1
    BY <1>2, <1>4, <1>10, <2>1
  <2>4. (u[i].n > 0) = FALSE
    BY <2>1
  <2>5. DecodeOne(i) = [event |-> FALSE, next |-> IF u[i].n < 0 THEN 0 ELSE R(i + 1, u[i].n)]
    BY <1>4, <2>1, <2>4, Zenon
  <2> QED BY <1>1, <1>2, <2>2, <2>3, <2>5
<1>16. CASE Null(v)
  <2>1. u[i].kind = "array" /\ u[i].n < 0
    BY <1>5, <1>6, <1>7, <1>16 DEF Null
  <2>2. NullIn(v)
    BY <1>16, ShapeFacts
  <2>3. DecodeOne(i).next = 0
    BY <1>4, <2>1
  <2> QED BY <2>2, <2>3
<1>17. ASSUME NEW n \in {1, 2}, v[1] = Array(n)
       PROVE  /\ DecodeOne(i).next = R(i + 1, n) /\ DecodeOne(i).event
              /\ (NullIn(v) <=> NullInside(v)) /\ EventOf(v)
  <2>1. u[i].kind = "array" /\ u[i].n = n
    BY <1>5, <1>7, <1>17
  <2>2. DecodeOne(i).next = R(i + 1, n)
    BY <1>4, <2>1
  <2>3. (u[i].n > 0) = TRUE
    BY <2>1
  <2>4. DecodeOne(i) = [event |-> TRUE, next |-> IF u[i].n < 0 THEN 0 ELSE R(i + 1, u[i].n)]
    BY <1>4, <2>1, <2>3, Zenon
  <2>5. ~Atom(v) /\ ~Empty(v) /\ ~Null(v)
    BY <1>6, <1>7, <1>17, UnitFields DEF Atom, Empty, Null
  <2> QED BY <2>2, <2>4, <2>5, ShapeFacts
<1>18. CASE Pair(v)
  <2>1. Len(v) = 3 /\ v[1] = Array(2) /\ v[2] = Value /\ v[3] = Value /\ ~NullInside(v)
    BY <1>18 DEF Pair, NullInside
  <2>2. DecodeOne(i).next = R(i + 1, 2) /\ DecodeOne(i).event /\ ~NullIn(v) /\ EventOf(v)
    BY <1>17, <2>1
  <2>3. CASE i + 1 = N + 1
    BY <1>1, <1>2, <1>11, <2>1, <2>2, <2>3
  <2>4. CASE i + 1 <= N
    <3>1. u[i + 1] = Value
      BY <1>2, <1>5, <2>1, <2>4
    <3>2. R(i + 1, 2) = R(i + 2, 1)
      <4>1. R(i + 1, 2) = R((i + 1) + 1, 2 - 1)
        BY <1>2, <1>8, <2>4, <3>1
      <4>2. (i + 1) + 1 = i + 2 /\ 2 - 1 = 1
        BY <1>2
      <4> QED BY <4>1, <4>2
    <3>3. CASE i + 2 = N + 1
      BY <1>1, <1>2, <1>11, <2>1, <2>2, <3>2, <3>3
    <3>4. CASE i + 2 <= N
      <4>1. u[i + 2] = Value
        BY <1>2, <1>5, <2>1, <3>4
      <4>2. R(i + 2, 1) = R(i + 3, 0)
        <5>1. R(i + 2, 1) = R((i + 2) + 1, 1 - 1)
          BY <1>2, <1>8, <3>4, <4>1
        <5>2. (i + 2) + 1 = i + 3 /\ 1 - 1 = 0
          BY <1>2
        <5> QED BY <5>1, <5>2
      <4> QED BY <1>1, <1>2, <1>10, <2>1, <2>2, <3>2, <3>4, <4>2
    <3> QED BY <1>2, <2>4, <3>3, <3>4
  <2> QED BY <1>2, <2>3, <2>4
<1>19. CASE Nested(v)
  <2>1. /\ Len(v) = 4 /\ v[1] = Array(2) /\ v[2] = Array(1) /\ v[3] = Value /\ v[4] = Value
        /\ ~NullInside(v)
    BY <1>19 DEF Nested, NullInside
  <2>2. DecodeOne(i).next = R(i + 1, 2) /\ DecodeOne(i).event /\ ~NullIn(v) /\ EventOf(v)
    BY <1>17, <2>1
  <2>3. CASE i + 1 = N + 1
    BY <1>1, <1>2, <1>11, <2>1, <2>2, <2>3
  <2>4. CASE i + 1 <= N
    <3>1. u[i + 1] = Array(1)
      BY <1>2, <1>5, <2>1, <2>4
    <3>2. R(i + 1, 2) = R(R(i + 2, 1), 1)
      <4>1. R(i + 1, 2) = R(R((i + 1) + 1, 1), 2 - 1)
        BY <1>2, <1>9, <2>4, <3>1
      <4>2. (i + 1) + 1 = i + 2 /\ 2 - 1 = 1
        BY <1>2
      <4> QED BY <4>1, <4>2
    <3>3. CASE i + 2 = N + 1
      BY <1>1, <1>2, <1>11, <2>1, <2>2, <3>2, <3>3
    <3>4. CASE i + 2 <= N
      <4>1. u[i + 2] = Value
        BY <1>2, <1>5, <2>1, <3>4
      <4>2. R(i + 2, 1) = i + 3
        <5>1. R(i + 2, 1) = R((i + 2) + 1, 1 - 1)
          BY <1>2, <1>8, <3>4, <4>1
        <5>2. (i + 2) + 1 = i + 3 /\ 1 - 1 = 0 /\ i + 3 \in 0..N + 1
          BY <1>2, <3>4
        <5> QED BY <1>10, <5>1, <5>2
      <4>3. CASE i + 3 = N + 1
        BY <1>1, <1>2, <1>11, <2>1, <2>2, <3>2, <4>2, <4>3
      <4>4. CASE i + 3 <= N
        <5>1. u[i + 3] = Value
          BY <1>2, <1>5, <2>1, <4>4
        <5>2. R(i + 3, 1) = i + 4
          <6>1. R(i + 3, 1) = R((i + 3) + 1, 1 - 1)
            BY <1>2, <1>8, <4>4, <5>1
          <6>2. (i + 3) + 1 = i + 4 /\ 1 - 1 = 0 /\ i + 4 \in 0..N + 1
            BY <1>2, <4>4
          <6> QED BY <1>10, <6>1, <6>2
        <5> QED BY <1>1, <1>2, <2>1, <2>2, <3>2, <4>2, <4>4, <5>2
      <4> QED BY <1>2, <3>4, <4>3, <4>4
    <3> QED BY <1>2, <2>4, <3>3, <3>4
  <2> QED BY <1>2, <2>3, <2>4
<1>20. CASE FaultIn(v)
  <2>1. Len(v) = 2 /\ v[1] = Array(1) /\ v[2] = Error
    BY <1>20 DEF FaultIn
  <2>2. ~NullInside(v)
    BY <1>6, <1>7, <2>1, UnitFields DEF NullInside
  <2>3. DecodeOne(i).next = R(i + 1, 1) /\ DecodeOne(i).event /\ ~NullIn(v) /\ EventOf(v)
    BY <1>17, <2>1, <2>2
  <2>4. CASE i + 1 = N + 1
    BY <1>1, <1>2, <1>11, <2>1, <2>3, <2>4
  <2>5. CASE i + 1 <= N
    <3>1. u[i + 1] = Error
      BY <1>2, <1>5, <2>1, <2>5
    <3>2. R(i + 1, 1) = i + 2
      <4>1. R(i + 1, 1) = R((i + 1) + 1, 1 - 1)
        BY <1>2, <1>8, <2>5, <3>1
      <4>2. (i + 1) + 1 = i + 2 /\ 1 - 1 = 0 /\ i + 2 \in 0..N + 1
        BY <1>2, <2>5
      <4> QED BY <1>10, <4>1, <4>2
    <3> QED BY <1>1, <1>2, <2>1, <2>3, <2>5, <3>2
  <2> QED BY <1>2, <2>4, <2>5
<1>21. CASE NullInside(v)
  <2>1. Len(v) = 2 /\ v[1] = Array(1) /\ v[2] = Array(-1)
    BY <1>21 DEF NullInside
  <2>2. DecodeOne(i).next = R(i + 1, 1) /\ NullIn(v)
    BY <1>17, <1>21, <2>1
  <2>3. CASE i + 1 = N + 1
    BY <1>11, <2>2, <2>3
  <2>4. CASE i + 1 <= N
    <3>1. u[i + 1] = Array(-1)
      BY <1>2, <1>5, <2>1, <2>4
    <3>2. u[i + 1].kind = "array" /\ u[i + 1].n < 0
      BY <1>6, <1>7, <3>1
    <3>3. R(i + 1, 1) = 0
      BY <1>2, <1>3, <2>4, <3>2
    <3> QED BY <2>2, <3>3
  <2> QED BY <1>2, <2>3, <2>4
<1> QED BY <1>13, <1>14, <1>15, <1>16, <1>18, <1>19, <1>20, <1>21, Shapes

(* A stream of values.                                                     *)
ValueStream(s) == Len(s) \in Nat /\ \A i \in 1..Len(s) : s[i] \in Values

(* A sequence of sequences that are not empty.                             *)
Pieces(s) == Len(s) \in Nat /\ \A i \in 1..Len(s) : Len(s[i]) \in Nat \ {0}

LEMMA StreamPieces ==
  ASSUME NEW s, ValueStream(s)
  PROVE  Pieces(s)
BY ShapeFacts DEF ValueStream, Pieces

LEMMA ValueEndsLoop ==
  ASSUME NEW s, Pieces(s)
  PROVE  /\ ValueEnds(s) \in [0..Len(s) -> Nat] /\ ValueEnds(s)[0] = 0
         /\ \A j \in 1..Len(s) : ValueEnds(s)[j] = ValueEnds(s)[j - 1] + Len(s[j])
<1> DEFINE n == Len(s)
           turn(j, b) == b + Len(s[j])
           G == [x \in (1..n) \X Nat |-> turn(x[1], x[2])]
           Eq(f) == f = [j \in 0..n |-> IF j = 0 THEN 0 ELSE turn(j, f[j - 1])]
<1>1. n \in Nat /\ 0 \in Nat
  BY DEF Pieces
<1>2. ASSUME NEW j \in 1..n, NEW b \in Nat PROVE turn(j, b) \in Nat
  <2>1. Len(s[j]) \in Nat
    BY DEF Pieces
  <2> QED BY <2>1
<1>3. G \in [(1..n) \X Nat -> Nat]
  <2> HIDE DEF turn
  <2> QED BY <1>2
<1>4. \A j \in 1..n, b \in Nat : G[<<j, b>>] = turn(j, b)
  OBVIOUS
<1> HIDE DEF G, turn, n
<1>5. PICK f \in [0..n -> Nat] : Recurs(f, n, 0, G)
  BY <1>1, <1>3, Recursion
<1>6. Eq(f)
  <2>1. ASSUME NEW j \in 0..n PROVE f[j] = IF j = 0 THEN 0 ELSE turn(j, f[j - 1])
    <3>1. CASE j = 0
      BY <1>5, <3>1 DEF Recurs
    <3>2. CASE j # 0
      <4>1. j \in 1..n /\ j - 1 \in 0..n
        BY <1>1, <3>2
      <4>2. f[j - 1] \in Nat
        BY <4>1
      <4> QED BY <1>4, <1>5, <3>2, <4>1, <4>2 DEF Recurs
    <3> QED BY <3>1, <3>2
  <2> QED BY <2>1
<1>7. ValueEnds(s) = CHOOSE g : Eq(g)
  BY DEF ValueEnds, turn, n
<1>8. Eq(ValueEnds(s))
  BY <1>6, <1>7
<1> DEFINE h == ValueEnds(s)
           H == {j \in 0..n : h[j] \in Nat}
<1>9. h[0] = 0 /\ \A j \in 1..n : h[j] = turn(j, h[j - 1])
  <2> HIDE DEF h
  <2> QED BY <1>1, <1>8 DEF h
<1>10. 0..n \subseteq H
  <2> HIDE DEF h
  <2>1. 0 \in H
    BY <1>1, <1>9
  <2>2. ASSUME NEW j \in 0..n, j + 1 <= n, j \in H PROVE j + 1 \in H
    <3>1. j + 1 \in 1..n /\ (j + 1) - 1 = j /\ h[j] \in Nat /\ j + 1 \in 0..n
      BY <1>1, <2>2
    <3>2. turn(j + 1, h[j]) \in Nat
      BY <1>2, <3>1
    <3> QED BY <1>9, <3>1, <3>2
  <2> HIDE DEF H
  <2> QED BY <1>1, <2>1, <2>2, Induct
<1>11. h \in [0..n -> Nat]
  <2>1. h = [j \in 0..n |-> h[j]]
    BY <1>8
  <2> QED BY <1>10, <2>1
<1> QED BY <1>9, <1>11 DEF n, turn

LEMMA ValueEndsOrder ==
  ASSUME NEW s, Pieces(s), NEW i \in 0..Len(s), NEW j \in 0..Len(s), i < j
  PROVE  ValueEnds(s)[i] < ValueEnds(s)[j]
<1> DEFINE n == Len(s)
           e == ValueEnds(s)
           H == {k \in 0..n : \A x \in 0..k : x < k => e[x] < e[k]}
<1>1. n \in Nat
  BY DEF Pieces
<1>2. e \in [0..n -> Nat] /\ \A k \in 1..n : e[k] = e[k - 1] + Len(s[k])
  BY ValueEndsLoop
<1>3. \A k \in 1..n : Len(s[k]) \in Nat \ {0}
  BY DEF Pieces
<1> HIDE DEF e, n
<1>4. 0..n \subseteq H
  <2>1. 0 \in H
    BY <1>1
  <2>2. ASSUME NEW k \in 0..n, k + 1 <= n, k \in H PROVE k + 1 \in H
    <3>1. k + 1 \in 0..n /\ k + 1 \in 1..n /\ (k + 1) - 1 = k
      BY <1>1, <2>2
    <3>2. e[k] \in Nat /\ e[k + 1] \in Nat /\ e[k] < e[k + 1]
      BY <1>2, <1>3, <3>1
    <3>3. ASSUME NEW x \in 0..k + 1, x < k + 1 PROVE e[x] < e[k + 1]
      <4>1. CASE x = k
        BY <3>2, <4>1
      <4>2. CASE x \in 0..k /\ x < k
        <5>1. e[x] < e[k] /\ e[x] \in Nat
          BY <1>1, <1>2, <2>2, <4>2
        <5> QED BY <3>2, <5>1
      <4> QED BY <1>1, <3>3, <4>1, <4>2
    <3> QED BY <3>1, <3>3
  <2> HIDE DEF H
  <2> QED BY <1>1, <2>1, <2>2, Induct
<1>5. i \in 0..j /\ j \in 0..n /\ i \in Int
  BY <1>1 DEF n
<1> QED BY <1>4, <1>5 DEF e

(* The units of a sequence of them are those of its pieces.                *)
LEMMA PieceUnits ==
  ASSUME NEW S, NEW s \in Seq(Seq(S)), Pieces(s), NEW n \in Nat \ {0}, Len(s) = n
  PROVE  /\ FlattenSeq(s) \in Seq(S) /\ Len(FlattenSeq(s)) = ValueEnds(s)[n]
         /\ \A j \in 1..n : \A k \in 1..Len(s[j]) : FlattenSeq(s)[ValueEnds(s)[j - 1] + k] = s[j][k]
<1> DEFINE e == ValueEnds(s)
<1>1. e \in [0..n -> Nat] /\ e[0] = 0 /\ \A j \in 1..n : e[j] = e[j - 1] + Len(s[j])
  BY ValueEndsLoop
<1>2. PICK h \in [1..n -> Seq(S)] :
        /\ FlattenSeq(s) = h[n] /\ h[1] = s[1]
        /\ \A i \in 1..n : i # 1 => h[i] = h[i - 1] \o s[i]
  <2>1. \E h \in [1..Len(s) -> Seq(S)] :
          /\ FlattenSeq(s) = h[Len(s)] /\ h[1] = s[1]
          /\ \A i \in 1..Len(s) : i # 1 => h[i] = h[i - 1] \o s[i]
    <3>1. Len(s) # 0
      OBVIOUS
    <3> QED BY <3>1, FlattenLoop
  <2> QED BY <2>1
<1>3. \A j \in 1..n : s[j] \in Seq(S)
  OBVIOUS
<1> DEFINE There(i, j) == \A k \in 1..Len(s[j]) : h[i][e[j - 1] + k] = s[j][k]
           H == {i \in 0..n : i # 0 => Len(h[i]) = e[i] /\ \A j \in 1..i : There(i, j)}
<1> HIDE DEF e
<1>4. 0..n \subseteq H
  <2>1. 0 \in H
    OBVIOUS
  <2>2. ASSUME NEW i \in 0..n, i + 1 <= n, i \in H PROVE i + 1 \in H
    <3>1. i + 1 \in 1..n /\ (i + 1) - 1 = i /\ i + 1 \in 0..n
      BY <2>2
    <3>2. Len(s[i + 1]) \in Nat /\ s[i + 1] \in Seq(S) /\ e[i + 1] = e[i] + Len(s[i + 1]) /\ e[i] \in Nat
      BY <1>1, <1>3, <3>1
    <3>3. CASE i = 0
      <4>1. h[1] = s[1] /\ e[0] = 0
        BY <1>1, <1>2
      <4>2. Len(h[1]) = e[1] /\ e[1 - 1] = 0
        BY <3>2, <3>3, <4>1
      <4>3. There(1, 1)
        BY <3>2, <3>3, <4>1, <4>2
      <4>4. \A j \in 1..1 : j = 1
        OBVIOUS
      <4>5. 0 + 1 = 1
        OBVIOUS
      <4> HIDE DEF At
      <4> QED BY <3>1, <3>3, <4>2, <4>3, <4>4, <4>5
    <3>4. CASE i # 0
      <4>1. i \in 1..n /\ i + 1 # 1
        BY <3>4
      <4>2. h[i + 1] = h[i] \o s[i + 1] /\ h[i] \in Seq(S)
        BY <1>2, <3>1, <4>1
      <4>3. Len(h[i]) = e[i] /\ \A j \in 1..i : There(i, j)
        BY <2>2, <3>4
      <4>4. PICK a, b \in Seq(S) : a = h[i] /\ b = s[i + 1]
        BY <3>2, <4>2
      <4>5. /\ Len(a \o b) = Len(a) + Len(b)
            /\ \A k \in 1..Len(a) : (a \o b)[k] = a[k]
            /\ \A k \in 1..Len(b) : (a \o b)[Len(a) + k] = b[k]
        OBVIOUS
      <4>6. Len(h[i + 1]) = e[i + 1]
        BY <3>2, <4>2, <4>3, <4>4, <4>5
      <4>7. There(i + 1, i + 1)
        <5>1. e[(i + 1) - 1] = Len(a) /\ h[i + 1] = a \o b
          BY <3>1, <4>2, <4>3, <4>4
        <5>2. \A k \in 1..Len(b) : h[i + 1][e[(i + 1) - 1] + k] = b[k]
          BY <4>5, <5>1
        <5> QED BY <4>4, <5>2
      <4>8. ASSUME NEW j \in 1..i PROVE There(i + 1, j)
        <5> SUFFICES ASSUME NEW k \in 1..Len(s[j]) PROVE h[i + 1][e[j - 1] + k] = s[j][k]
          OBVIOUS
        <5>1. j \in 1..n /\ j - 1 \in 0..n /\ e[j] \in Nat /\ e[j - 1] \in Nat /\ Len(s[j]) \in Nat
          <6>1. j \in 1..n /\ j - 1 \in 0..n /\ j \in 0..n
            BY <4>1
          <6>2. e[j] \in Nat /\ e[j - 1] \in Nat
            BY <1>1, <6>1
          <6> QED BY <1>3, <6>1, <6>2
        <5>2. e[j] <= e[i]
          <6>1. j = i \/ j < i
            BY <4>1
          <6>2. j \in 0..Len(s) /\ i \in 0..Len(s)
            BY <4>1
          <6>3. j < i => e[j] < e[i]
            BY <6>2, ValueEndsOrder DEF e
          <6> QED BY <3>2, <5>1, <6>1, <6>3, SMTT(30)
        <5>3. e[j] = e[j - 1] + Len(s[j])
          BY <1>1, <5>1
        <5>4. e[j - 1] + k \in 1..Len(a)
          <6>1. Len(a) = e[i] /\ k \in Int /\ 1 <= k /\ k <= Len(s[j])
            BY <4>3, <4>4, <5>1
          <6>2. \A x, y, z, l \in Nat : y = x + l /\ y <= z /\ k <= l => x + k \in 1..z
            BY <6>1
          <6> QED BY <3>2, <5>1, <5>2, <5>3, <6>1, <6>2
        <5>5. h[i][e[j - 1] + k] = s[j][k]
          BY <4>3
        <5> QED BY <4>2, <4>4, <4>5, <5>4, <5>5
      <4>9. \A j \in 1..i + 1 : j = i + 1 \/ j \in 1..i
        BY <4>1
      <4> HIDE DEF At
      <4> QED BY <3>1, <4>6, <4>7, <4>8, <4>9
    <3> QED BY <3>3, <3>4
  <2> HIDE DEF H
  <2> QED BY <2>1, <2>2, Induct
<1>5. n \in 0..n /\ n # 0
  OBVIOUS
<1>6. Len(h[n]) = e[n] /\ \A j \in 1..n : There(n, j)
  BY <1>4, <1>5
<1>7. h[n] \in Seq(S)
  BY <1>2, <1>5
<1> QED BY <1>2, <1>6, <1>7 DEF e

LEMMA ValueUnits ==
  ASSUME NEW n \in Nat \ {0}, NEW s \in [1..n -> Values]
  PROVE  /\ ValueStream(s) /\ Len(s) = n
         /\ FlattenSeq(s) \in Seq(AnyUnit) /\ Len(FlattenSeq(s)) = ValueEnds(s)[n]
         /\ \A j \in 1..n : \A k \in 1..Len(s[j]) : FlattenSeq(s)[ValueEnds(s)[j - 1] + k] = s[j][k]
<1>1. Values \subseteq Seq(AnyUnit)
  BY Shapes
<1>2. s \in Seq(Seq(AnyUnit)) /\ Len(s) = n /\ s \in Seq(Values)
  BY <1>1
<1>3. ValueStream(s)
  BY <1>2 DEF ValueStream
<1> QED BY <1>2, <1>3, StreamPieces, PieceUnits

(* A chunk that begins with a unit, and the values it is cut from.         *)
RespChunk ==
  /\ ValueStream(call.stream) /\ Units(call.data) /\ call.from \in Nat
  /\ Len(call.data) < ValueStart(Len(call.stream) + 1)
  /\ \A j \in 1..Len(call.stream) :
       ValueStart(j) >= 1 => Holds(call.data, ValueStart(j), call.stream[j])

(* Parse has read the values from f to i - 1 and is at value i.            *)
AtValue(f, i, p, o) ==
  /\ p = ValueStart(i) /\ p <= Len(call.data) + 1 /\ o \in Seq(Nat) /\ Ascending(o)
  /\ \A j \in f..i - 1 : ~ValueNull(j)
  /\ Range(o) = {ValueStart(j) : j \in {k \in f..i - 1 : EventOf(call.stream[k])}}

(* There is nothing to read from value i on.                               *)
NoMore(i) ==
  \/ \A j \in i..Len(call.stream) : ~ValueWhole(j)
  \/ i <= Len(call.stream) /\ ValueWhole(i) /\ ValueNull(i)

RespInv ==
  call.parser = "redis" /\ ~call.cut =>
    /\ RespChunk
    /\ \A f \in 1..Len(call.stream) : ValueStart(f) = 1 =>
         /\ status = "run" => \E i \in f..Len(call.stream) + 1 : AtValue(f, i, local.pos, out)
         /\ status = "ok" => Range(out) = EventsDue /\ Ascending(out)

LEMMA ValueStartFacts ==
  ASSUME RespChunk
  PROVE  /\ Len(call.stream) \in Nat
         /\ \A j \in 1..Len(call.stream) + 1 : ValueStart(j) \in Int
         /\ \A j \in 1..Len(call.stream) :
              /\ ValueStart(j + 1) = ValueStart(j) + Len(call.stream[j])
              /\ call.stream[j] \in Values
         /\ \A j, k \in 1..Len(call.stream) + 1 : j < k => ValueStart(j) < ValueStart(k)
<1>1. PICK s, n, e, c : s = call.stream /\ n = Len(s) /\ e = ValueEnds(s) /\ c = call.from
  OBVIOUS
<1>2. n \in Nat /\ c \in Nat /\ ValueStream(s)
  BY <1>1 DEF RespChunk, ValueStream
<1>3. e \in [0..n -> Nat] /\ \A j \in 1..n : e[j] = e[j - 1] + Len(s[j])
  BY <1>1, <1>2, StreamPieces, ValueEndsLoop
<1>4. \A j : ValueStart(j) = 2 + e[j - 1] - c
  BY <1>1 DEF ValueStart
<1>5. \A j \in 1..n + 1 : j - 1 \in 0..n /\ e[j - 1] \in Nat
  BY <1>2, <1>3
<1>6. ASSUME NEW j \in 1..n PROVE ValueStart(j + 1) = ValueStart(j) + Len(s[j]) /\ s[j] \in Values
  <2>1. s[j] \in Values /\ Len(s[j]) \in Nat
    BY <1>1, <1>2, ShapeFacts DEF ValueStream
  <2>2. (j + 1) - 1 = j /\ e[j] = e[j - 1] + Len(s[j]) /\ e[j - 1] \in Nat
    BY <1>2, <1>3, <1>5
  <2> QED BY <1>2, <1>4, <2>1, <2>2
<1>7. ASSUME NEW j \in 1..n + 1, NEW k \in 1..n + 1, j < k PROVE ValueStart(j) < ValueStart(k)
  <2>1. j - 1 \in 0..n /\ k - 1 \in 0..n /\ j - 1 < k - 1
    BY <1>2, <1>7
  <2>2. e[j - 1] < e[k - 1]
    BY <1>1, <1>2, <2>1, StreamPieces, ValueEndsOrder
  <2> QED BY <1>2, <1>4, <1>5, <2>2
<1>8. \A j \in 1..n + 1 : ValueStart(j) \in Int
  BY <1>2, <1>4, <1>5
<1> QED BY <1>1, <1>2, <1>6, <1>7, <1>8

LEMMA AllDue ==
  ASSUME RespChunk, NEW f \in 1..Len(call.stream), ValueStart(f) = 1,
         NEW i \in f..Len(call.stream) + 1, NEW p, NEW o, AtValue(f, i, p, o), NoMore(i)
  PROVE  Range(o) = EventsDue
<1> DEFINE n == Len(call.stream)
           due(j) == /\ ValueWhole(j) /\ EventOf(call.stream[j])
                     /\ \A k \in 1..j : ValueWhole(k) => ~ValueNull(k)
<1>1. /\ n \in Nat /\ \A j \in 1..n + 1 : ValueStart(j) \in Int
      /\ \A j, k \in 1..n + 1 : j < k => ValueStart(j) < ValueStart(k)
  BY ValueStartFacts
<1>2. Len(call.data) \in Nat /\ ValueStart(i) <= Len(call.data) + 1 /\ \A j \in f..i - 1 : ~ValueNull(j)
  BY DEF RespChunk, Units, AtValue
<1>3. ASSUME NEW j \in 1..n, ValueWhole(j) PROVE j >= f
  <2>1. ValueStart(j) >= 1
    BY <1>1, <1>3 DEF ValueWhole
  <2>2. j < f => ValueStart(j) < ValueStart(f)
    BY <1>1
  <2> QED BY <1>1, <2>1, <2>2
<1>4. ASSUME NEW j \in f..i - 1 PROVE ValueWhole(j)
  <2>1. j \in 1..n /\ j \in 1..n + 1 /\ j + 1 \in 1..n + 1 /\ i \in 1..n + 1 /\ f \in 1..n + 1
    BY <1>1
  <2>2. j = f \/ f < j
    BY <1>1
  <2>3. 1 <= ValueStart(j)
    BY <1>1, <2>1, <2>2
  <2>4. j + 1 = i \/ j + 1 < i
    BY <1>1
  <2>5. ValueStart(j + 1) <= Len(call.data) + 1
    BY <1>1, <1>2, <2>1, <2>4
  <2> QED BY <2>3, <2>5 DEF ValueWhole
<1>5. ASSUME NEW j \in f..i - 1 PROVE j \in 1..n /\ (due(j) <=> EventOf(call.stream[j]))
  <2>1. j \in 1..n
    BY <1>1
  <2>2. ASSUME NEW k \in 1..j, ValueWhole(k) PROVE ~ValueNull(k)
    <3>1. k \in 1..n
      BY <1>1, <2>1
    <3>2. k \in f..i - 1
      BY <1>1, <1>3, <2>2, <3>1
    <3> QED BY <1>2, <3>2
  <2> QED BY <1>4, <2>1, <2>2
<1>6. ASSUME NEW j \in 1..n, due(j) PROVE j \in f..i - 1
  <2>1. j >= f /\ f \in Int /\ i \in Int /\ j \in Int
    BY <1>1, <1>3, <1>6
  <2>2. CASE j >= i
    <3>1. j \in i..n /\ i <= n /\ i \in 1..j
      BY <1>1, <2>1, <2>2
    <3> QED BY <1>6, <3>1 DEF NoMore
  <2> QED BY <2>1, <2>2
<1>7. EventsDue = {ValueStart(j) : j \in {k \in 1..n : due(k)}}
  BY DEF EventsDue, EventOf
<1>8. Range(o) = {ValueStart(j) : j \in {k \in f..i - 1 : EventOf(call.stream[k])}}
  BY DEF AtValue
<1>9. {k \in 1..n : due(k)} = {k \in f..i - 1 : EventOf(call.stream[k])}
  <2> HIDE DEF due
  <2> QED BY <1>5, <1>6
<1> QED BY <1>7, <1>8, <1>9

(* A turn of Parse's loop reads value i, or there is nothing to read.      *)
LEMMA OneValue ==
  ASSUME RespChunk, NEW f \in 1..Len(call.stream), ValueStart(f) = 1,
         NEW i \in f..Len(call.stream) + 1, NEW p, NEW o, AtValue(f, i, p, o)
  PROVE  /\ p > Len(call.data) => NoMore(i)
         /\ ~(p > Len(call.data)) =>
              /\ DecodeOne(p).next = 0 => NoMore(i)
              /\ ~(DecodeOne(p).next = 0) =>
                   /\ i + 1 \in f..Len(call.stream) + 1
                   /\ AtValue(f, i + 1, DecodeOne(p).next,
                              IF DecodeOne(p).event THEN Append(o, p) ELSE o)
<1> DEFINE n == Len(call.stream)
           N == Len(call.data)
<1>1. /\ n \in Nat /\ \A j \in 1..n + 1 : ValueStart(j) \in Int
      /\ \A j, k \in 1..n + 1 : j < k => ValueStart(j) < ValueStart(k)
  BY ValueStartFacts
<1>2. /\ N \in Nat /\ p = ValueStart(i) /\ p <= N + 1 /\ o \in Seq(Nat) /\ Ascending(o)
      /\ Range(o) = {ValueStart(j) : j \in {k \in f..i - 1 : EventOf(call.stream[k])}}
      /\ \A j \in f..i - 1 : ~ValueNull(j)
  BY DEF RespChunk, Units, AtValue
<1>3. i \in 1..n + 1 /\ p \in Int /\ p >= 1 /\ i \in Int /\ f \in Int /\ f \in 1..n + 1
  <2>1. i \in 1..n + 1 /\ f \in 1..n + 1 /\ (f = i \/ f < i)
    BY <1>1
  <2> QED BY <1>1, <1>2, <2>1
<1>4. ASSUME i \in 1..n => ~ValueWhole(i) PROVE NoMore(i)
  <2>1. ASSUME NEW j \in i..n, ValueWhole(j) PROVE FALSE
    <3>1. j \in 1..n + 1 /\ j + 1 \in 1..n + 1 /\ i + 1 \in 1..n + 1 /\ i \in 1..n /\ (i = j \/ i + 1 < j + 1)
      BY <1>1, <1>3
    <3>2. ValueStart(j + 1) <= N + 1
      BY <2>1 DEF ValueWhole
    <3>3. ValueStart(i + 1) <= N + 1
      <4>1. CASE i = j
        BY <3>2, <4>1
      <4>2. CASE i + 1 < j + 1
        <5>1. /\ ValueStart(i + 1) < ValueStart(j + 1) /\ ValueStart(i + 1) \in Int
              /\ ValueStart(j + 1) \in Int
          BY <1>1, <3>1, <4>2
        <5> QED BY <1>2, <3>2, <5>1
      <4> QED BY <3>1, <4>1, <4>2
    <3>4. ValueWhole(i)
      BY <1>2, <1>3, <3>3 DEF ValueWhole
    <3> QED BY <1>4, <3>1, <3>4
  <2> QED BY <2>1 DEF NoMore
<1>5. CASE p > N
  <2>1. ASSUME i \in 1..n PROVE ~ValueWhole(i)
    <3>1. ValueStart(i + 1) > p /\ ValueStart(i + 1) \in Int
      BY <1>1, <1>2, <1>3, <2>1
    <3>2. ~(ValueStart(i + 1) <= N + 1)
      BY <1>2, <1>3, <1>5, <3>1
    <3> QED BY <3>2 DEF ValueWhole
  <2> QED BY <1>4, <1>5, <2>1
<1>6. CASE ~(p > N)
  <2>1. p \in 1..N
    BY <1>2, <1>3, <1>6
  <2>2. i \in 1..n
    <3>1. N < ValueStart(n + 1) /\ n + 1 \in 1..n + 1 /\ ValueStart(n + 1) \in Int
      BY <1>1 DEF RespChunk
    <3>2. i # n + 1
      BY <1>2, <1>3, <1>6, <3>1
    <3> QED BY <1>1, <1>3, <3>2
  <2>3. PICK v : v = call.stream[i]
    OBVIOUS
  <2>4. v \in Values /\ ValueStart(i + 1) = p + Len(v) /\ Len(v) \in Nat \ {0}
    BY <1>2, <2>2, <2>3, ValueStartFacts, ShapeFacts
  <2>5. Holds(call.data, p, v) /\ Units(call.data)
    BY <1>2, <1>3, <2>2, <2>3 DEF RespChunk
  <2>6. /\ p + Len(v) <= N + 1 /\ ~NullIn(v) =>
              DecodeOne(p).next = p + Len(v) /\ (DecodeOne(p).event <=> EventOf(v))
        /\ ~(p + Len(v) <= N + 1 /\ ~NullIn(v)) => DecodeOne(p).next = 0
    BY <2>1, <2>4, <2>5, DecodeValue
  <2>7. /\ ValueWhole(i) <=> p + Len(v) <= N + 1
        /\ ValueNull(i) <=> NullIn(v)
    BY <1>2, <1>3, <2>3, <2>4 DEF ValueWhole, ValueNull, NullIn
  <2>8. PICK d : d = DecodeOne(p)
    OBVIOUS
  <2>9. CASE p + Len(v) <= N + 1 /\ ~NullIn(v)
    <3>1. d.next = ValueStart(i + 1) /\ (d.event <=> EventOf(v)) /\ ~(d.next <= 0)
      BY <1>3, <2>4, <2>6, <2>8, <2>9
    <3>2. i + 1 \in f..n + 1 /\ (i + 1) - 1 = i
      BY <1>1, <1>3, <2>2
    <3>3. \A j \in f..i : j \in f..i - 1 \/ j = i
      BY <1>3
    <3>4. \A j \in f..i : ~ValueNull(j)
      BY <1>2, <2>7, <2>9, <3>3
    <3>5. \A j \in Range(o) : j < p
      <4> SUFFICES ASSUME NEW j \in f..i - 1 PROVE ValueStart(j) < p
        BY <1>2
      <4>1. j \in 1..n + 1 /\ i \in 1..n + 1 /\ j < i
        BY <1>1, <1>3
      <4> QED BY <1>1, <1>2, <4>1, Zenon
    <3>6. i \in f..i /\ \A j \in f..i - 1 : j \in f..i
      BY <1>3
    <3>7. CASE EventOf(v)
      <4> DEFINE q == Append(o, p)
      <4>1. q = o \o <<p>> /\ p \in Nat
        <5>1. p \in Nat
          BY <1>3
        <5>2. o \in Seq(Nat)
          BY <1>2
        <5>3. q = o \o <<p>>
          BY <5>1, <5>2, SMTT(20)
        <5> QED BY <5>1, <5>3
      <4>2. q \in Seq(Nat) /\ Ascending(q) /\ Range(q) = Range(o) \cup {p}
        BY <1>2, <3>5, <4>1, AscendingAppend
      <4> HIDE DEF q
      <4>3. Range(q) = {ValueStart(j) : j \in {k \in f..i : EventOf(call.stream[k])}}
        BY <1>2, <2>3, <3>3, <3>6, <3>7, <4>2
      <4>4. AtValue(f, i + 1, d.next, q)
        BY <2>4, <2>9, <3>1, <3>2, <3>4, <4>2, <4>3 DEF AtValue
      <4> QED BY <1>6, <2>8, <3>1, <3>2, <3>7, <4>4 DEF q
    <3>8. CASE ~EventOf(v)
      <4>1. Range(o) = {ValueStart(j) : j \in {k \in f..i : EventOf(call.stream[k])}}
        BY <1>2, <2>3, <3>3, <3>6, <3>8
      <4>2. AtValue(f, i + 1, d.next, o)
        BY <1>2, <2>4, <2>9, <3>1, <3>2, <3>4, <4>1 DEF AtValue
      <4> QED BY <1>6, <2>8, <3>1, <3>2, <3>8, <4>2
    <3> QED BY <3>7, <3>8
  <2>10. CASE ~(p + Len(v) <= N + 1 /\ ~NullIn(v))
    <3>1. NoMore(i)
      <4>1. CASE ValueWhole(i)
        BY <1>1, <2>2, <2>7, <2>10, <4>1 DEF NoMore
      <4>2. CASE ~ValueWhole(i)
        BY <1>4, <4>2
      <4> QED BY <4>1, <4>2
    <3>2. d.next = 0
      BY <2>6, <2>8, <2>10
    <3> QED BY <1>6, <2>8, <3>1, <3>2
  <2> QED BY <2>9, <2>10
<1> QED BY <1>5, <1>6

(* The call does not change.                                               *)
LEMMA SameValues ==
  ASSUME call' = call
  PROVE  /\ \A i : ValueStart(i)' = ValueStart(i)
         /\ RespChunk => RespChunk'
         /\ \A f, i, p, o : AtValue(f, i, p, o) => AtValue(f, i, p, o)'
         /\ EventsDue' = EventsDue
<1>1. \A i : /\ ValueStart(i)' = ValueStart(i) /\ (ValueWhole(i)' <=> ValueWhole(i))
             /\ (ValueNull(i)' <=> ValueNull(i))
  BY DEF ValueStart, ValueWhole, ValueNull
<1>2. RespChunk => RespChunk'
  BY <1>1 DEF RespChunk
<1>3. \A f, i, p, o : AtValue(f, i, p, o) => AtValue(f, i, p, o)'
  BY <1>1 DEF AtValue
<1>4. EventsDue' = EventsDue
  BY <1>1 DEF EventsDue
<1> QED BY <1>1, <1>2, <1>3, <1>4

LEMMA TurnResp ==
  ASSUME RespInv, RespStep
  PROVE  RespInv'
<1>1. call' = call /\ status = "run" /\ call.parser = "redis"
  BY DEF RespStep, Running, Return, Panic
<1> SUFFICES ASSUME ~call.cut PROVE RespInv'
  BY <1>1 DEF RespInv
<1>2. RespChunk /\ RespChunk'
  BY <1>1, SameValues DEF RespInv
<1> SUFFICES ASSUME NEW f \in 1..Len(call.stream), ValueStart(f) = 1
             PROVE  /\ status' = "run" =>
                         \E i \in f..Len(call.stream) + 1 : AtValue(f, i, local.pos, out)'
                    /\ status' = "ok" => Range(out') = EventsDue' /\ Ascending(out')
  BY <1>1, <1>2, SameValues DEF RespInv, Ascending, Range
<1>3. PICK i \in f..Len(call.stream) + 1 : AtValue(f, i, local.pos, out)
  BY <1>1 DEF RespInv
<1>4. PICK p, o : p = local.pos /\ o = out
  OBVIOUS
<1>5. AtValue(f, i, p, o)
  BY <1>3, <1>4
<1>6. PICK d : d = DecodeOne(p)
  OBVIOUS
<1>7. /\ p > Len(call.data) => NoMore(i)
      /\ ~(p > Len(call.data)) =>
           /\ d.next = 0 => NoMore(i)
           /\ ~(d.next = 0) =>
                /\ i + 1 \in f..Len(call.stream) + 1
                /\ AtValue(f, i + 1, d.next, IF d.event THEN Append(o, p) ELSE o)
  BY <1>2, <1>5, <1>6, OneValue
<1>8. \/ Panic
      \/ /\ p > Len(call.data) \/ d.next = 0
         /\ Return("ok")
      \/ /\ ~(p > Len(call.data)) /\ ~(d.next = 0) /\ ~(d.next < 0)
         /\ out' = (IF d.event THEN Append(o, p) ELSE o)
         /\ local' = [pos |-> d.next] /\ status' = status
  BY <1>4, <1>6 DEF RespStep
<1>9. CASE /\ p > Len(call.data) \/ d.next = 0
           /\ Return("ok")
  <2>1. NoMore(i)
    BY <1>7, <1>9
  <2>2. out' = o /\ status' = "ok"
    BY <1>4, <1>9 DEF Return
  <2>3. Range(o) = EventsDue /\ Ascending(o)
    BY <1>2, <1>5, <2>1, AllDue DEF AtValue
  <2>4. EventsDue' = EventsDue
    BY <1>1, SameValues
  <2> QED BY <2>2, <2>3, <2>4
<1>10. CASE /\ ~(p > Len(call.data)) /\ ~(d.next = 0)
            /\ out' = (IF d.event THEN Append(o, p) ELSE o)
            /\ local' = [pos |-> d.next] /\ status' = status
  <2>1. PICK q : q = IF d.event THEN Append(o, p) ELSE o
    OBVIOUS
  <2>2. i + 1 \in f..Len(call.stream) + 1 /\ AtValue(f, i + 1, d.next, q)
    BY <1>7, <1>10, <2>1
  <2>3. AtValue(f, i + 1, d.next, q)'
    BY <1>1, <2>2, SameValues
  <2>4. out' = q /\ local'.pos = d.next /\ status' = "run"
    BY <1>1, <1>10, <2>1
  <2>5. AtValue(f, i + 1, local.pos, out)'
    BY <2>3, <2>4 DEF AtValue
  <2> QED BY <2>2, <2>4, <2>5
<1>11. CASE Panic
  BY <1>11 DEF Panic, Return
<1> QED BY <1>8, <1>9, <1>10, <1>11

LEMMA RespStart == MCInit => RespInv
<1> SUFFICES ASSUME MCInit, call.parser = "redis", ~call.cut PROVE RespInv
  BY DEF RespInv
<1>1. RespInit
  <2>1. ~NoCall
    BY DEF NoCall
  <2>2. ~DnsInit
    BY DEF DnsInit
  <2>3. ~LinesInit
    BY Apart, LinesCall
  <2>4. ~FramingInit
    BY Apart, FramingCall
  <2>5. ~HelloInit
    BY HelloData
  <2> QED BY <2>1, <2>2, <2>3, <2>4, <2>5 DEF MCInit
<1>2. Aligned
  <2>1. Aligned \/ Stray
    BY <1>1 DEF RespInit
  <2>2. ~Stray
    BY DEF Stray
  <2> QED BY <2>1, <2>2
<1>3. PICK n \in 1..MaxValues : \E s \in [1..n -> Values] :
        LET u == FlattenSeq(s) IN
        \E a \in 1..Len(u) : \E b \in a..Len(u) :
          call = [parser |-> "redis", cut |-> FALSE, stream |-> s, from |-> a,
                  data |-> SubSeq(u, a, b)]
  BY <1>2 DEF Aligned
<1>4. PICK s \in [1..n -> Values] :
        LET u == FlattenSeq(s) IN
        \E a \in 1..Len(u) : \E b \in a..Len(u) :
          call = [parser |-> "redis", cut |-> FALSE, stream |-> s, from |-> a,
                  data |-> SubSeq(u, a, b)]
  BY <1>3
<1> DEFINE u == FlattenSeq(s)
<1>5. PICK a \in 1..Len(u) : \E b \in a..Len(u) :
        call = [parser |-> "redis", cut |-> FALSE, stream |-> s, from |-> a,
                data |-> SubSeq(u, a, b)]
  BY <1>4
<1>5a. PICK b \in a..Len(u) :
        call = [parser |-> "redis", cut |-> FALSE, stream |-> s, from |-> a,
                data |-> SubSeq(u, a, b)]
  BY <1>5
<1> DEFINE e == ValueEnds(s)
<1>6. n \in Nat \ {0}
  BY ValuesAssumption
<1>7. /\ ValueStream(s) /\ Len(s) = n /\ u \in Seq(AnyUnit) /\ Len(u) = e[n]
      /\ \A j \in 1..n : \A k \in 1..Len(s[j]) : u[e[j - 1] + k] = s[j][k]
  BY <1>6, ValueUnits
<1> HIDE DEF u
<1>8. /\ call.stream = s /\ call.from = a /\ local.pos = 1 /\ out = <<>>
      /\ status = "run"
  BY <1>1, <1>5a DEF RespInit
<1>9. call.data = SubSeq(u, a, b)
  BY <1>5a
<1>10. PICK d : d = call.data
  OBVIOUS
<1>11. /\ Len(u) \in Nat /\ a \in Nat /\ b \in Nat /\ a >= 1 /\ a <= b /\ b <= Len(u)
  BY <1>7
<1>12. /\ d \in Seq(AnyUnit) /\ Len(d) = b - a + 1 /\ \A k \in 1..b - a + 1 : d[k] = u[a + k - 1]
  BY <1>7, <1>9, <1>10, <1>11
<1>13. Units(d)
  <2>1. PICK minus \in Int : minus = -1
    OBVIOUS
  <2>2. \A x \in AnyUnit : x.n \in Int /\ x.n <= 2 /\ x.kind # "bulk"
    BY <2>1, UnitFields DEF AnyUnit
  <2> QED BY <1>11, <1>12, <2>2 DEF Units
<1>14. /\ e \in [0..n -> Nat] /\ e[0] = 0 /\ \A j \in 1..n : e[j] = e[j - 1] + Len(s[j])
  BY <1>7, StreamPieces, ValueEndsLoop
<1>15. \A j : ValueStart(j) = 2 + e[j - 1] - a
  BY <1>8 DEF ValueStart
<1> HIDE DEF e
<1>16. Len(d) < ValueStart(n + 1)
  <2>1. (n + 1) - 1 = n
    BY <1>6
  <2> QED BY <1>7, <1>11, <1>12, <1>15, <2>1
<1>17. ASSUME NEW j \in 1..n, ValueStart(j) >= 1 PROVE Holds(d, ValueStart(j), s[j])
  <2>1. PICK x, y, l : x = ValueStart(j) /\ y = e[j - 1] /\ l = Len(s[j])
    OBVIOUS
  <2>2. y \in Nat /\ l \in Nat
    <3>1. j - 1 \in 0..n
      BY <1>6
    <3>2. e[j - 1] \in Nat
      BY <1>14, <3>1
    <3> QED BY <1>7, <2>1, <3>2, ShapeFacts DEF ValueStream
  <2>3. x = 2 + y - a /\ x \in Int /\ x >= 1
    BY <1>11, <1>15, <1>17, <2>1, <2>2
  <2>4. ASSUME NEW k \in 1..l, x + k - 1 <= Len(d) PROVE d[x + k - 1] = s[j][k]
    <3>1. x + k - 1 \in 1..b - a + 1
      BY <1>11, <1>12, <2>2, <2>3, <2>4
    <3>2. a + (x + k - 1) - 1 = y + k
      BY <1>11, <2>2, <2>3
    <3>3. d[x + k - 1] = u[y + k]
      BY <1>12, <3>1, <3>2
    <3> QED BY <1>7, <2>1, <3>3
  <2> QED BY <2>1, <2>4 DEF Holds
<1>18. RespChunk
  BY <1>7, <1>8, <1>10, <1>11, <1>13, <1>16, <1>17 DEF RespChunk
<1>19. ASSUME NEW f \in 1..n, ValueStart(f) = 1 PROVE AtValue(f, f, local.pos, out)
  <2>1. f..f - 1 = {}
    BY <1>6
  <2>2. Range(out) = {} /\ out \in Seq(Nat) /\ Ascending(out)
    BY <1>8 DEF Range, Ascending
  <2>3. 1 <= Len(call.data) + 1
    BY <1>10, <1>11, <1>12
  <2> QED BY <1>8, <1>19, <2>1, <2>2, <2>3 DEF AtValue
<1>20. \A f \in 1..n : f \in f..n + 1
  BY <1>6
<1> QED BY <1>7, <1>8, <1>18, <1>19, <1>20 DEF RespInv

LEMMA RespKeeps == RespInv /\ [MCNext]_<<vars, callVars>> => RespInv'
<1> SUFFICES ASSUME RespInv, [MCNext]_<<vars, callVars>> PROVE RespInv'
  OBVIOUS
<1>1. CASE UNCHANGED callVars
  <2>1. call' = call /\ local' = local /\ out' = out /\ status' = status
    BY <1>1 DEF callVars
  <2> SUFFICES ASSUME call.parser = "redis", ~call.cut PROVE RespInv'
    BY <2>1 DEF RespInv
  <2>2. RespChunk' /\ EventsDue' = EventsDue /\ \A i : ValueStart(i)' = ValueStart(i)
    BY <2>1, SameValues DEF RespInv
  <2>3. \A f, i : AtValue(f, i, local.pos, out)' <=> AtValue(f, i, local.pos, out)
    BY <2>1 DEF AtValue, ValueStart, ValueNull
  <2> QED BY <2>1, <2>2, <2>3 DEF RespInv, Ascending, Range
<1>2. ASSUME call' = call, call.parser # "redis" PROVE RespInv'
  BY <1>2 DEF RespInv
<1>3. CASE DnsNext
  BY <1>2, <1>3
     DEF DnsNext, Section, NameStep, FormatRData, TxtStep, InName, Running, Return, NameFails,
         NameEnds, Follow, Label, Panic, DecodeName
<1>4. CASE RespStep
  BY <1>4, TurnResp
<1>5. CASE FramingNext
  BY <1>2, <1>5, Apart DEF FramingNext, Enter, FrameStep, Framing, Running, Return, Panic
<1>6. CASE HelloNext
  BY <1>2, <1>6 DEF HelloNext, Record, Vector, CipherSuites, ExtensionLength, Extension,
                   Running, Return, Panic
<1>7. CASE PieceStep
  BY <1>2, <1>7, Apart DEF PieceStep, Running, Return
<1> QED BY <1>1, <1>3, <1>4, <1>5, <1>6, <1>7 DEF MCNext, ParseStep, callVars

(* redis/parser.go, Parse: of a chunk that starts with a value, one event  *)
(* for each whole array and error at top level, in order, up to the first  *)
(* null array, and none for what is nested in them -- for streams of any   *)
(* length cut anywhere.                                                    *)
THEOREM TopLevelValues == MCSpec => []TopLevelOnly
<1>1. RespInv => TopLevelOnly
  BY DEF RespInv, TopLevelOnly
<1> QED BY <1>1, RespStart, RespKeeps, PTL DEF MCSpec

(* What Parse reads, whether the chunk begins with a unit or inside one.   *)
LEMMA AlignedUnits ==
  ASSUME Aligned
  PROVE  /\ call.parser = "redis" /\ call.data \in Seq(AnyUnit)
         /\ Len(call.data) >= 1
<1>1. PICK n \in 1..MaxValues : \E s \in [1..n -> Values] :
        LET u == FlattenSeq(s) IN
        \E a \in 1..Len(u) : \E b \in a..Len(u) :
          call = [parser |-> "redis", cut |-> FALSE, stream |-> s, from |-> a,
                  data |-> SubSeq(u, a, b)]
  BY DEF Aligned
<1>2. PICK s \in [1..n -> Values] :
        LET u == FlattenSeq(s) IN
        \E a \in 1..Len(u) : \E b \in a..Len(u) :
          call = [parser |-> "redis", cut |-> FALSE, stream |-> s, from |-> a,
                  data |-> SubSeq(u, a, b)]
  BY <1>1
<1> DEFINE u == FlattenSeq(s)
<1>3. PICK a \in 1..Len(u) : \E b \in a..Len(u) :
        call = [parser |-> "redis", cut |-> FALSE, stream |-> s, from |-> a,
                data |-> SubSeq(u, a, b)]
  BY <1>2
<1>4. PICK b \in a..Len(u) :
        call = [parser |-> "redis", cut |-> FALSE, stream |-> s, from |-> a,
                data |-> SubSeq(u, a, b)]
  BY <1>3
<1>5. u \in Seq(AnyUnit)
  BY ValuesAssumption, ValueUnits
<1> HIDE DEF u
<1>6. /\ Len(u) \in Nat /\ a \in Nat /\ b \in Nat /\ a >= 1 /\ a <= b /\ b <= Len(u)
  BY <1>5
<1>7. SubSeq(u, a, b) \in Seq(AnyUnit) /\ Len(SubSeq(u, a, b)) = b - a + 1
  BY <1>5, <1>6
<1>8. call.parser = "redis" /\ call.data = SubSeq(u, a, b)
  BY <1>4
<1> QED BY <1>6, <1>7, <1>8

LEMMA StrayUnits ==
  ASSUME Stray
  PROVE  /\ call.parser = "redis" /\ call.cut = TRUE /\ Units(call.data)
         /\ Len(call.data) >= 1 /\ DOMAIN call.data = 1..Len(call.data)
<1>1. PICK n \in 1..MaxCut : \E u \in [1..n -> Strays] :
        call = [parser |-> "redis", cut |-> TRUE, stream |-> <<>>, from |-> 1, data |-> u]
  BY DEF Stray
<1>2. PICK u \in [1..n -> Strays] :
        call = [parser |-> "redis", cut |-> TRUE, stream |-> <<>>, from |-> 1, data |-> u]
  BY <1>1
<1>3. call.parser = "redis" /\ call.cut = TRUE /\ call.data = u
  BY <1>2
<1>4. n \in Nat /\ n >= 1 /\ n <= MaxCut /\ MaxInt \in Nat /\ MaxInt > MaxCut + 3 /\ MaxCut \in Nat
  BY ValuesAssumption
<1>5. Len(u) = n /\ DOMAIN u = 1..n
  BY <1>4
<1>6. PICK minus \in Int, big \in Nat : minus = -1 /\ big = MaxInt - 3
  BY <1>4
<1>7. ASSUME NEW x \in Strays
      PROVE  /\ x.n \in Int
             /\ x.kind = "array" => x.n <= 2
             /\ x.kind = "bulk" => x.n >= 0 /\ x.n <= MaxInt
  BY <1>4, <1>6, UnitFields DEF Strays
<1>8. n + 3 < MaxInt
  BY <1>4
<1>9. Units(u)
  BY <1>4, <1>5, <1>7, <1>8 DEF Units
<1> QED BY <1>3, <1>4, <1>5, <1>9

LEMMA ChunkUnits ==
  ASSUME RespInit
  PROVE  /\ call.parser = "redis" /\ Units(call.data) /\ Len(call.data) >= 1
         /\ DOMAIN call.data = 1..Len(call.data)
         /\ ~call.cut => ~OverflowIn(call.data)
<1>1. CASE Aligned
  <2>1. PICK d : d = call.data
    OBVIOUS
  <2>2. call.parser = "redis" /\ d \in Seq(AnyUnit) /\ Len(d) >= 1
    BY <1>1, <2>1, AlignedUnits
  <2>3. PICK minus \in Int : minus = -1
    OBVIOUS
  <2>4. \A x \in AnyUnit : x.n \in Int /\ x.n <= 2 /\ x.kind # "bulk"
    BY <2>3, UnitFields DEF AnyUnit
  <2>5. Len(d) \in Nat /\ DOMAIN d = 1..Len(d) /\ \A k \in 1..Len(d) : d[k] \in AnyUnit
    BY <2>2
  <2>6. Units(d) /\ ~OverflowIn(d)
    BY <2>4, <2>5 DEF Units, OverflowIn
  <2> QED BY <2>1, <2>2, <2>5, <2>6
<1>2. CASE Stray
  BY <1>2, StrayUnits
<1> QED BY <1>1, <1>2 DEF RespInit

RespSafe ==
  call.parser = "redis" =>
    /\ Units(call.data) /\ DOMAIN call.data = 1..Len(call.data)
    /\ local.pos \in 1..Len(call.data) + 1
    /\ ~call.cut => ~OverflowIn(call.data)
    /\ status = "panic" => OverflowIn(call.data)

LEMMA RespSafeStart == MCInit => RespSafe
<1> SUFFICES ASSUME MCInit, call.parser = "redis" PROVE RespSafe
  BY DEF RespSafe
<1>1. RespInit
  <2>1. ~NoCall
    BY DEF NoCall
  <2>2. ~DnsInit
    BY DEF DnsInit
  <2>3. ~LinesInit
    BY Apart, LinesCall
  <2>4. ~FramingInit
    BY Apart, FramingCall
  <2>5. ~HelloInit
    BY HelloData
  <2> QED BY <2>1, <2>2, <2>3, <2>4, <2>5 DEF MCInit
<1>2. local.pos = 1 /\ status = "run"
  BY <1>1 DEF RespInit
<1>3. PICK c \in Nat : c = Len(call.data) /\ c >= 1
  BY <1>1, ChunkUnits DEF Units
<1>4. 1 \in 1..c + 1
  BY <1>3
<1> QED BY <1>1, <1>2, <1>3, <1>4, ChunkUnits DEF RespSafe

LEMMA RespSafeStep ==
  ASSUME RespSafe, RespStep
  PROVE  RespSafe'
<1>1. call' = call /\ status = "run" /\ call.parser = "redis"
  BY DEF RespStep, Running, Return, Panic
<1>2. PICK u, c, p : u = call.data /\ c = Len(u) /\ p = local.pos
  OBVIOUS
<1>3. /\ Units(u) /\ c \in Nat /\ p \in 1..c + 1
  BY <1>1, <1>2 DEF RespSafe, Units
<1>4. ASSUME local' = local, status' = "panic" => OverflowIn(u) PROVE RespSafe'
  BY <1>1, <1>2, <1>4 DEF RespSafe
<1>5. CASE p > c
  <2>1. Return("ok")
    BY <1>2, <1>5 DEF RespStep
  <2> QED BY <1>4, <2>1 DEF Return
<1>6. CASE ~(p > c)
  <2>1. p \in 1..c /\ p + 1 \in 1..c + 1 /\ p \in 1..c + 1
    BY <1>3, <1>6
  <2>2. PICK d : d = DecodeOne(p)
    OBVIOUS
  <2>3. \/ /\ d.next < 0 \/ d.next > c + 1
           /\ Panic
        \/ Return("ok")
        \/ /\ ~(d.next < 0 \/ d.next > c + 1) /\ d.next # 0
           /\ local' = [pos |-> d.next] /\ status' = status
    BY <1>2, <1>6, <2>2 DEF RespStep
  <2>4. d.next \in -1..c + 1 /\ (d.next < 0 => OverflowIn(u))
    <3>1. ASSUME NEW m \in 0..2, NEW j \in 1..c + 1
          PROVE  ReadValues(j, m) \in -1..c + 1 /\ (ReadValues(j, m) < 0 => OverflowIn(u))
      <4>1. Forward(u, j, ReadValues(j, m)) /\ ReadValues(j, m) \in -1..c + 1
        BY <1>2, <1>3, ReadInside
      <4> QED BY <1>3, <4>1 DEF Forward
    <3>2. CASE u[p].kind = "array"
      <4>1. d.next = IF u[p].n < 0 THEN 0 ELSE ReadValues(p + 1, u[p].n)
        BY <1>2, <2>2, <3>2 DEF DecodeOne
      <4>2. u[p].n \in Int /\ u[p].n <= 2
        BY <1>2, <1>3, <2>1, <3>2 DEF Units
      <4>3. CASE u[p].n < 0
        BY <1>3, <4>1, <4>3
      <4>4. CASE ~(u[p].n < 0)
        <5>1. u[p].n \in 0..2
          BY <4>2, <4>4
        <5> QED BY <2>1, <3>1, <4>1, <4>4, <5>1
      <4> QED BY <4>3, <4>4
    <3>3. CASE u[p].kind = "error"
      <4>1. d.next = p + 1
        BY <1>2, <2>2, <3>3 DEF DecodeOne
      <4> QED BY <1>3, <2>1, <4>1
    <3>4. CASE u[p].kind \notin {"array", "error"}
      <4>1. d.next = ReadValues(p, 1)
        BY <1>2, <2>2, <3>4 DEF DecodeOne
      <4>2. 1 \in 0..2
        OBVIOUS
      <4> QED BY <2>1, <3>1, <4>1, <4>2
    <3> QED BY <3>2, <3>3, <3>4
  <2>5. CASE Panic /\ (d.next < 0 \/ d.next > c + 1)
    <3>1. OverflowIn(u)
      BY <1>3, <2>4, <2>5
    <3> QED BY <1>4, <2>5, <3>1 DEF Panic, Return
  <2>6. CASE Return("ok")
    BY <1>4, <2>6 DEF Return
  <2>7. CASE /\ ~(d.next < 0 \/ d.next > c + 1) /\ d.next # 0
             /\ local' = [pos |-> d.next] /\ status' = status
    <3>1. PICK next : next = d.next
      OBVIOUS
    <3>2. next \in 1..c + 1
      BY <1>3, <2>4, <2>7, <3>1
    <3>3. local'.pos = next /\ status' = "run"
      BY <1>1, <2>7, <3>1
    <3> QED BY <1>1, <1>2, <3>2, <3>3 DEF RespSafe
  <2> QED BY <2>3, <2>5, <2>6, <2>7
<1> QED BY <1>5, <1>6

LEMMA RespSafeKeeps == RespSafe /\ [MCNext]_<<vars, callVars>> => RespSafe'
<1> SUFFICES ASSUME RespSafe, [MCNext]_<<vars, callVars>> PROVE RespSafe'
  OBVIOUS
<1>1. CASE UNCHANGED callVars
  BY <1>1 DEF callVars, RespSafe
<1>2. ASSUME call' = call, call.parser # "redis" PROVE RespSafe'
  BY <1>2 DEF RespSafe
<1>3. CASE DnsNext
  BY <1>2, <1>3
     DEF DnsNext, Section, NameStep, FormatRData, TxtStep, InName, Running, Return, NameFails,
         NameEnds, Follow, Label, Panic, DecodeName
<1>4. CASE RespStep
  BY <1>4, RespSafeStep
<1>5. CASE FramingNext
  BY <1>2, <1>5, Apart DEF FramingNext, Enter, FrameStep, Framing, Running, Return, Panic
<1>6. CASE HelloNext
  BY <1>2, <1>6 DEF HelloNext, Record, Vector, CipherSuites, ExtensionLength, Extension,
                   Running, Return, Panic
<1>7. CASE PieceStep
  BY <1>2, <1>7, Apart DEF PieceStep, Running, Return
<1> QED BY <1>1, <1>3, <1>4, <1>5, <1>6, <1>7 DEF MCNext, ParseStep, callVars

(* No Parse indexes or slices outside of its data, whatever the bytes of a *)
(* DNS message, wherever a stream is cut and whatever a chunk that begins  *)
(* inside a Redis bulk string holds, but for formatRData's call of         *)
(* decodeName (dns/parser.go:243) and the sum of a bulk string's length    *)
(* that overflows (redis/parser.go:191) -- for chunks of any length.       *)
THEOREM NoOtherPanic == MCSpec => []KnownPanics
<1>1. Inside3 /\ RespSafe => KnownPanics
  <2> SUFFICES ASSUME Inside3, RespSafe, status = "panic", call.parser = "redis"
               PROVE  call.cut /\ Overflows
    BY DEF KnownPanics, Inside3, OutsideRedis
  <2>1. OverflowIn(call.data) /\ DOMAIN call.data = 1..Len(call.data)
    BY DEF RespSafe
  <2>2. call.cut
    BY <2>1 DEF RespSafe
  <2>3. Overflows
    BY <2>1, Zenon DEF OverflowIn, Overflows, Range
  <2> QED BY <2>2, <2>3
<1> QED BY <1>1, InsideInit, InsideNext, RespSafeStart, RespSafeKeeps, PTL DEF MCSpec

-----------------------------------------------------------------------------
(* The ClientHello.                                                        *)

LEMMA PrefixSame ==
  ASSUME NEW S, NEW x \in Seq(S), NEW y \in Seq(S)
  PROVE  IsPrefix(x, y) <=> Len(x) <= Len(y) /\ \A i \in 1..Len(x) : x[i] = y[i]
BY DEF IsPrefix

LEMMA FilterLoop ==
  ASSUME NEW s \in Seq(Nat)
  PROVE  \E h \in [0..Len(s) -> Seq(Nat)] :
           /\ FilterGREASE(s) = h[Len(s)] /\ h[0] = <<>>
           /\ \A i \in 1..Len(s) :
                h[i] = IF IsGREASE(s[i]) THEN h[i - 1] ELSE Append(h[i - 1], s[i])
<1> DEFINE n == Len(s)
           turn(i, x) == IF IsGREASE(s[i]) THEN x ELSE Append(x, s[i])
           G == [x \in (1..n) \X Seq(Nat) |-> turn(x[1], x[2])]
           Eq(f) == f = [i \in 0..n |-> IF i = 0 THEN <<>> ELSE turn(i, f[i - 1])]
<1>1. n \in Nat /\ <<>> \in Seq(Nat)
  OBVIOUS
<1>2. ASSUME NEW i \in 1..n, NEW x \in Seq(Nat) PROVE turn(i, x) \in Seq(Nat)
  <2>1. s[i] \in Nat
    BY <1>1
  <2> QED BY <2>1
<1>3. G \in [(1..n) \X Seq(Nat) -> Seq(Nat)]
  <2> HIDE DEF turn
  <2> QED BY <1>2
<1>4. \A i \in 1..n, x \in Seq(Nat) : G[<<i, x>>] = turn(i, x)
  OBVIOUS
<1>5. FilterGREASE(s) = (CHOOSE f : Eq(f))[n]
  BY DEF FilterGREASE
<1> HIDE DEF G, turn, n
<1>6. PICK f \in [0..n -> Seq(Nat)] : Recurs(f, n, <<>>, G)
  BY <1>1, <1>3, Recursion
<1>7. Eq(f)
  <2>1. ASSUME NEW j \in 0..n PROVE f[j] = IF j = 0 THEN <<>> ELSE turn(j, f[j - 1])
    <3>1. CASE j = 0
      BY <1>6, <3>1 DEF Recurs
    <3>2. CASE j # 0
      <4>1. j \in 1..n /\ j - 1 \in 0..n
        BY <1>1, <3>2
      <4>2. f[j - 1] \in Seq(Nat)
        BY <4>1
      <4> QED BY <1>4, <1>6, <3>2, <4>1, <4>2 DEF Recurs
    <3> QED BY <3>1, <3>2
  <2> QED BY <2>1
<1>8. PICK h : h = CHOOSE g : Eq(g)
  OBVIOUS
<1>9. Eq(h)
  <2> HIDE DEF Eq
  <2> QED BY <1>7, <1>8
<1>10. h[0] = <<>> /\ \A i \in 1..n : h[i] = turn(i, h[i - 1])
  BY <1>1, <1>9
<1> DEFINE H == {j \in 0..n : h[j] \in Seq(Nat)}
<1>11. 0..n \subseteq H
  <2>1. 0 \in H
    <3>1. 0 \in 0..n /\ h[0] = <<>>
      BY <1>1, <1>10
    <3> QED BY <1>1, <3>1
  <2>2. ASSUME NEW j \in 0..n, j + 1 <= n, j \in H PROVE j + 1 \in H
    <3>1. j + 1 \in 1..n /\ (j + 1) - 1 = j /\ h[j] \in Seq(Nat) /\ j + 1 \in 0..n
      BY <1>1, <2>2
    <3>2. turn(j + 1, h[j]) \in Seq(Nat)
      BY <1>2, <3>1
    <3> QED BY <1>10, <3>1, <3>2
  <2> HIDE DEF H
  <2> QED BY <1>1, <2>1, <2>2, Induct
<1>12. h \in [0..n -> Seq(Nat)]
  <2>1. h = [j \in 0..n |-> h[j]]
    BY <1>9
  <2> QED BY <1>11, <2>1
<1>13. FilterGREASE(s) = h[n]
  BY <1>5, <1>8
<1> QED BY <1>10, <1>12, <1>13 DEF n, turn

(* filterGREASE takes away the GREASE values a client has put in front,    *)
(* and of a part of a list it leaves a part of what it leaves of the list. *)
LEMMA FilterPrefix ==
  ASSUME NEW x \in Seq(Nat), NEW g \in Seq(Nat), \A i \in 1..Len(g) : IsGREASE(g[i]),
         NEW s \in Seq(Nat), IsPrefix(s, g \o x)
  PROVE  /\ IsPrefix(FilterGREASE(s), FilterGREASE(x))
         /\ s = g \o x => FilterGREASE(s) = FilterGREASE(x)
<1> DEFINE c == Len(g)
           n == Len(x)
           m == Len(s)
<1>1. c \in Nat /\ n \in Nat /\ m \in Nat
  OBVIOUS
<1>2. PICK h \in [0..m -> Seq(Nat)] :
           /\ FilterGREASE(s) = h[m] /\ h[0] = <<>>
           /\ \A i \in 1..m : h[i] = IF IsGREASE(s[i]) THEN h[i - 1] ELSE Append(h[i - 1], s[i])
  BY FilterLoop
<1>3. PICK k \in [0..n -> Seq(Nat)] :
           /\ FilterGREASE(x) = k[n] /\ k[0] = <<>>
           /\ \A i \in 1..n : k[i] = IF IsGREASE(x[i]) THEN k[i - 1] ELSE Append(k[i - 1], x[i])
  BY FilterLoop
<1>4. /\ g \o x \in Seq(Nat) /\ Len(g \o x) = c + n
      /\ \A i \in 1..c + n : (g \o x)[i] = IF i <= c THEN g[i] ELSE x[i - c]
  BY ConcatProperties
<1>5. m <= c + n /\ \A i \in 1..m : s[i] = IF i <= c THEN g[i] ELSE x[i - c]
  <2>1. m <= c + n /\ \A i \in 1..m : s[i] = (g \o x)[i]
    BY <1>4, PrefixSame, ZenonT(40)
  <2>2. \A i \in 1..m : i \in 1..c + n
    BY <1>1, <2>1
  <2> QED BY <1>4, <2>1, <2>2
<1> HIDE DEF c, n, m
<1> DEFINE H == {i \in 0..m : h[i] = IF i <= c THEN <<>> ELSE k[i - c]}
<1>6. 0..m \subseteq H
  <2>1. 0 \in H
    BY <1>1, <1>2
  <2>2. ASSUME NEW i \in 0..m, i + 1 <= m, i \in H PROVE i + 1 \in H
    <3>1. i + 1 \in 1..m /\ (i + 1) - 1 = i /\ i + 1 \in 0..m
      BY <1>1, <2>2
    <3>2. h[i + 1] = IF IsGREASE(s[i + 1]) THEN h[i] ELSE Append(h[i], s[i + 1])
      BY <1>2, <3>1
    <3>3. CASE i + 1 <= c
      <4>1. i + 1 \in 1..c /\ i <= c
        BY <1>1, <3>1, <3>3
      <4>2. IsGREASE(s[i + 1])
        BY <1>5, <3>1, <3>3, <4>1 DEF c
      <4> QED BY <2>2, <3>1, <3>2, <3>3, <4>1, <4>2
    <3>4. CASE ~(i + 1 <= c)
      <4>1. (i + 1) - c \in 1..n /\ ((i + 1) - c) - 1 = i - c /\ c <= i
        <5>1. m <= c + n /\ i \in Int /\ i + 1 <= m
          BY <1>1, <1>5, <2>2
        <5> QED BY <1>1, <3>4, <5>1
      <4>2. s[i + 1] = x[(i + 1) - c]
        BY <1>5, <3>1, <3>4
      <4>3. h[i] = k[i - c]
        <5>1. CASE i = c
          BY <1>1, <1>3, <2>2, <5>1
        <5>2. CASE i # c
          BY <1>1, <2>2, <4>1, <5>2
        <5> QED BY <5>1, <5>2
      <4>4. k[(i + 1) - c] = IF IsGREASE(x[(i + 1) - c]) THEN k[i - c] ELSE Append(k[i - c], x[(i + 1) - c])
        BY <1>3, <4>1
      <4> QED BY <3>1, <3>2, <3>4, <4>2, <4>3, <4>4
    <3> QED BY <3>3, <3>4
  <2> HIDE DEF H
  <2> QED BY <1>1, <2>1, <2>2, Induct
<1> DEFINE P == {i \in 0..n : \A j \in 0..i : IsPrefix(k[j], k[i])}
<1>7. 0..n \subseteq P
  <2>1. \A j \in 0..n : IsPrefix(k[j], k[j])
    <3> TAKE j \in 0..n
    <3>1. k[j] \in Seq(Nat)
      OBVIOUS
    <3> QED BY <3>1, PrefixSame
  <2>2. 0 \in P
    BY <1>1, <2>1
  <2>3. ASSUME NEW i \in 0..n, i + 1 <= n, i \in P PROVE i + 1 \in P
    <3>1. i + 1 \in 1..n /\ (i + 1) - 1 = i /\ i + 1 \in 0..n /\ x[i + 1] \in Nat
      BY <1>1, <2>3 DEF n
    <3>2. k[i + 1] = k[i] \/ k[i + 1] = Append(k[i], x[i + 1])
      BY <1>3, <3>1
    <3>3. ASSUME NEW j \in 0..i PROVE IsPrefix(k[j], k[i + 1])
      <4>1. PICK p, q \in Seq(Nat) : p = k[j] /\ q = k[i]
        BY <1>1
      <4>2. IsPrefix(p, q)
        BY <2>3, <4>1
      <4>3. IsPrefix(p, Append(q, x[i + 1]))
        <5>1. /\ Append(q, x[i + 1]) \in Seq(Nat) /\ Len(Append(q, x[i + 1])) = Len(q) + 1
              /\ \A e \in 1..Len(q) : Append(q, x[i + 1])[e] = q[e]
          BY <3>1
        <5>2. Len(p) <= Len(q) /\ \A e \in 1..Len(p) : p[e] = q[e]
          BY <4>2, PrefixSame
        <5>3. Len(p) <= Len(q) + 1 /\ \A e \in 1..Len(p) : e \in 1..Len(q)
          BY <5>2
        <5> QED BY <5>1, <5>2, <5>3, PrefixSame
      <4> QED BY <3>2, <4>1, <4>2, <4>3
    <3>4. \A j \in 0..i + 1 : j = i + 1 \/ j \in 0..i
      BY <1>1
    <3> QED BY <2>1, <3>1, <3>3, <3>4
  <2> HIDE DEF P
  <2> QED BY <1>1, <2>2, <2>3, Induct
<1>8. m \in 0..m /\ n \in 0..n /\ 0 \in 0..n
  BY <1>1
<1>9. h[m] = IF m <= c THEN <<>> ELSE k[m - c]
  BY <1>6, <1>8
<1>10. IsPrefix(FilterGREASE(s), FilterGREASE(x))
  <2>1. \A j \in 0..n : IsPrefix(k[j], k[n])
    BY <1>7, <1>8
  <2>2. CASE m <= c
    BY <1>2, <1>3, <1>8, <1>9, <2>1, <2>2
  <2>3. CASE ~(m <= c)
    <3>1. m - c \in 0..n
      BY <1>1, <1>5, <2>3
    <3> QED BY <1>2, <1>3, <1>9, <2>1, <2>3, <3>1
  <2> QED BY <2>2, <2>3
<1>11. ASSUME s = g \o x PROVE FilterGREASE(s) = FilterGREASE(x)
  <2>1. m = c + n
    BY <1>4, <1>11 DEF m
  <2>2. CASE n = 0
    BY <1>1, <1>2, <1>3, <1>9, <2>1, <2>2
  <2>3. CASE n # 0
    <3>1. ~(m <= c) /\ m - c = n
      BY <1>1, <2>1, <2>3
    <3> QED BY <1>2, <1>3, <1>9, <3>1
  <2> QED BY <2>2, <2>3
<1> QED BY <1>10, <1>11

LEMMA JoinedAt ==
  ASSUME NEW x \in Seq(Nat), NEW y \in Seq(Nat)
  PROVE  /\ x \o y \in Seq(Nat) /\ Len(x \o y) = Len(x) + Len(y)
         /\ \A k \in 1..Len(x) : (x \o y)[k] = x[k]
         /\ \A k \in 1..Len(y) : (x \o y)[Len(x) + k] = y[k]
OBVIOUS

LEMMA PrefixedAt ==
  ASSUME NEW x \in Seq(Nat)
  PROVE  /\ Prefixed(x) \in Seq(Nat) /\ Len(Prefixed(x)) = Len(x) + 1 /\ Prefixed(x)[1] = Len(x)
         /\ \A k \in 1..Len(x) : Prefixed(x)[k + 1] = x[k]
BY DEF Prefixed

HelloOf(sid, s, x) ==
  <<771>> \o Prefixed(sid) \o Prefixed(s) \o Prefixed(<<0>>) \o Prefixed(x)

(* Where parseClientHello finds the parts of a hello: a is the length of   *)
(* the session id, b that of the cipher suites s, x the extensions.        *)
HelloLaid(h, a, b, s, x) ==
  /\ a \in Nat /\ b \in Nat /\ h \in Seq(Nat) /\ Len(h) = a + b + 6 + Len(x)
  /\ h[2] = a /\ h[a + 3] = b /\ \A k \in 1..b : h[a + 3 + k] = s[k]
  /\ h[a + b + 4] = 1
  /\ h[a + b + 6] = Len(x) /\ \A k \in 1..Len(x) : h[a + b + 6 + k] = x[k]

LEMMA HelloLayout ==
  ASSUME NEW sid \in Seq(Nat), NEW s \in Seq(Nat), NEW x \in Seq(Nat), NEW a, NEW b, NEW h,
         a = Len(sid), b = Len(s), h = HelloOf(sid, s, x)
  PROVE  HelloLaid(h, a, b, s, x)
<1>1. a \in Nat /\ b \in Nat /\ Len(x) \in Nat /\ <<771>> \in Seq(Nat) /\ Len(<<771>>) = 1 /\ <<0>> \in Seq(Nat)
      /\ Len(<<0>>) = 1
  OBVIOUS
<1>2. PICK p1, p2, p3, p4 \in Seq(Nat) :
        /\ p1 = Prefixed(sid) /\ p2 = Prefixed(s) /\ p3 = Prefixed(<<0>>) /\ p4 = Prefixed(x)
  BY <1>1, PrefixedType
<1>3. /\ Len(p1) = a + 1 /\ p1[1] = a
      /\ Len(p2) = b + 1 /\ p2[1] = b /\ \A k \in 1..b : p2[k + 1] = s[k]
      /\ Len(p3) = 2 /\ p3[1] = 1
      /\ Len(p4) = Len(x) + 1 /\ p4[1] = Len(x) /\ \A k \in 1..Len(x) : p4[k + 1] = x[k]
  <2>1. Len(p1) = a + 1 /\ p1[1] = a
    BY <1>2, PrefixedAt
  <2>2. Len(p2) = b + 1 /\ p2[1] = b /\ \A k \in 1..b : p2[k + 1] = s[k]
    BY <1>2, PrefixedAt
  <2>3. Len(p3) = 1 + 1 /\ p3[1] = 1
    BY <1>1, <1>2, PrefixedAt, ZenonT(40)
  <2>4. Len(p4) = Len(x) + 1 /\ p4[1] = Len(x) /\ \A k \in 1..Len(x) : p4[k + 1] = x[k]
    BY <1>2, PrefixedAt
  <2> QED BY <2>1, <2>2, <2>3, <2>4
<1>4. PICK z1 \in Seq(Nat) : z1 = <<771>> \o p1
  BY <1>1, ConcatType, ZenonT(40)
<1>5. Len(z1) = a + 2 /\ z1[2] = a
  <2>1. Len(z1) = 1 + Len(p1) /\ \A k \in 1..Len(p1) : z1[1 + k] = p1[k]
    BY <1>1, <1>4, JoinedAt
  <2>2. 1 \in 1..Len(p1) /\ 1 + 1 = 2
    BY <1>1, <1>3
  <2> QED BY <1>1, <1>3, <2>1, <2>2
<1>6. PICK z2 \in Seq(Nat) : z2 = z1 \o p2
  BY ConcatType
<1>7. Len(z2) = a + b + 3 /\ z2[2] = a /\ z2[a + 3] = b /\ \A k \in 1..b : z2[a + 3 + k] = s[k]
  <2>1. /\ Len(z2) = Len(z1) + Len(p2) /\ \A k \in 1..Len(z1) : z2[k] = z1[k]
        /\ \A k \in 1..Len(p2) : z2[Len(z1) + k] = p2[k]
    BY <1>6, JoinedAt
  <2>2. 2 \in 1..Len(z1) /\ 1 \in 1..Len(p2) /\ (a + 2) + 1 = a + 3
    BY <1>1, <1>3, <1>5, SMTT(30)
  <2>3. z2[2] = a /\ z2[a + 3] = b /\ Len(z2) = a + b + 3
    BY <1>1, <1>3, <1>5, <2>1, <2>2, SMTT(30)
  <2>4. ASSUME NEW k \in 1..b PROVE z2[a + 3 + k] = s[k]
    <3>1. k + 1 \in 1..Len(p2) /\ (a + 2) + (k + 1) = a + 3 + k
      BY <1>1, <1>3
    <3> QED BY <1>3, <1>5, <2>1, <3>1, ZenonT(40)
  <2> QED BY <2>3, <2>4
<1>8. PICK z3 \in Seq(Nat) : z3 = z2 \o p3
  BY ConcatType
<1>9. /\ Len(z3) = a + b + 5 /\ z3[2] = a /\ z3[a + 3] = b /\ \A k \in 1..b : z3[a + 3 + k] = s[k]
      /\ z3[a + b + 4] = 1
  <2>1. /\ Len(z3) = Len(z2) + Len(p3) /\ \A k \in 1..Len(z2) : z3[k] = z2[k]
        /\ \A k \in 1..Len(p3) : z3[Len(z2) + k] = p3[k]
    BY <1>8, JoinedAt
  <2>2. /\ 2 \in 1..Len(z2) /\ a + 3 \in 1..Len(z2) /\ 1 \in 1..Len(p3) /\ (a + b + 3) + 1 = a + b + 4
        /\ Len(z2) + Len(p3) = a + b + 5
    <3>1. Len(z2) = a + b + 3 /\ Len(p3) = 2
      BY <1>3, <1>7
    <3> QED BY <1>1, <3>1
  <2>3. \A k \in 1..b : a + 3 + k \in 1..Len(z2)
    <3>1. Len(z2) = a + b + 3
      BY <1>7
    <3> QED BY <1>1, <3>1, SMTT(30)
  <2> QED BY <1>3, <1>7, <2>1, <2>2, <2>3, ZenonT(40)
<1>10. h = z3 \o p4
  BY <1>2, <1>4, <1>6, <1>8 DEF HelloOf
<1>11. /\ Len(h) = Len(z3) + Len(p4) /\ h \in Seq(Nat) /\ \A k \in 1..Len(z3) : h[k] = z3[k]
       /\ \A k \in 1..Len(p4) : h[Len(z3) + k] = p4[k]
  BY <1>10, JoinedAt
<1>12. /\ 2 \in 1..Len(z3) /\ a + 3 \in 1..Len(z3) /\ a + b + 4 \in 1..Len(z3) /\ 1 \in 1..Len(p4)
       /\ (a + b + 5) + 1 = a + b + 6 /\ Len(z3) + Len(p4) = a + b + 6 + Len(x)
  <2>1. Len(z3) = a + b + 5 /\ Len(p4) = Len(x) + 1
    BY <1>3, <1>9
  <2> QED BY <1>1, <2>1
<1>13. \A k \in 1..b : a + 3 + k \in 1..Len(z3)
  <2>1. Len(z3) = a + b + 5
    BY <1>9
  <2> QED BY <1>1, <2>1, SMTT(30)
<1>14. ASSUME NEW k \in 1..Len(x) PROVE h[a + b + 6 + k] = x[k]
  <2>1. k + 1 \in 1..Len(p4) /\ (a + b + 5) + (k + 1) = a + b + 6 + k
    BY <1>1, <1>3
  <2> QED BY <1>3, <1>9, <1>11, <2>1, ZenonT(40)
<1>15. h[2] = a /\ h[a + 3] = b /\ h[a + b + 4] = 1 /\ \A k \in 1..b : h[a + 3 + k] = s[k]
  BY <1>9, <1>11, <1>12, <1>13
<1>16. h[a + b + 6] = Len(x) /\ Len(h) = a + b + 6 + Len(x)
  <2>1. Len(z3) = a + b + 5 /\ p4[1] = Len(x)
    BY <1>3, <1>9
  <2>2. h[Len(z3) + 1] = p4[1] /\ Len(h) = Len(z3) + Len(p4)
    BY <1>11, <1>12
  <2> QED BY <1>12, <2>1, <2>2, Zenon
<1> QED BY <1>1, <1>11, <1>14, <1>15, <1>16 DEF HelloLaid

LaidOut(x, p, n) ==
  /\ x \in Seq(Nat) /\ Len(x) = ValueEnds(p)[n]
  /\ \A j \in 1..n : \A k \in 1..Len(p[j]) : x[ValueEnds(p)[j - 1] + k] = p[j][k]

LEMMA NumberUnits ==
  ASSUME NEW p, p \in Seq(Seq(Nat)), Pieces(p), NEW n, n \in Nat \ {0}, Len(p) = n
  PROVE  LaidOut(FlattenSeq(p), p, n)
<1>1. PICK S : S = Nat
  OBVIOUS
<1>2. p \in Seq(Seq(S))
  BY <1>1
<1>3. /\ FlattenSeq(p) \in Seq(S) /\ Len(FlattenSeq(p)) = ValueEnds(p)[n]
      /\ \A j \in 1..n : \A k \in 1..Len(p[j]) : FlattenSeq(p)[ValueEnds(p)[j - 1] + k] = p[j][k]
  BY <1>2, PieceUnits
<1> QED BY <1>1, <1>3 DEF LaidOut

(* Extension i of a hello, and where it starts among them.                 *)
ExtParts(t, g) == [i \in 1..Len(t) |-> <<t[i]>> \o Prefixed(Body(t[i], g))]

ExtEnds(t, g) == ValueEnds(ExtParts(t, g))

ExtensionsLaid(x, t, g, e) ==
  /\ x \in Seq(Nat) /\ e \in [0..Len(t) -> Nat] /\ e[0] = 0 /\ e[Len(t)] = Len(x)
  /\ \A i \in 1..Len(t) :
       /\ e[i] = e[i - 1] + 2 + Len(Body(t[i], g)) /\ e[i] <= Len(x)
       /\ x[e[i - 1] + 1] = t[i] /\ x[e[i - 1] + 2] = Len(Body(t[i], g))
       /\ \A k \in 1..Len(Body(t[i], g)) : x[e[i - 1] + 2 + k] = Body(t[i], g)[k]

LEMMA ExtensionsLayout ==
  ASSUME NEW t \in Seq(Nat), NEW g \in Seq(Nat), NEW x, NEW e, x = Extensions(t, g), e = ExtEnds(t, g)
  PROVE  ExtensionsLaid(x, t, g, e)
<1>1. PICK p, n : p = ExtParts(t, g) /\ n = Len(t)
  OBVIOUS
<1>2. n \in Nat /\ \A i \in 1..n : t[i] \in Nat
  BY <1>1
<1>3. ASSUME NEW i \in 1..n
      PROVE  /\ p[i] \in Seq(Nat) /\ Len(p[i]) = 2 + Len(Body(t[i], g)) /\ Len(Body(t[i], g)) \in Nat
             /\ p[i][1] = t[i] /\ p[i][2] = Len(Body(t[i], g))
             /\ \A k \in 1..Len(Body(t[i], g)) : p[i][2 + k] = Body(t[i], g)[k]
  <2>1. PICK q, b, w : q = p[i] /\ b = Body(t[i], g) /\ w = t[i]
    OBVIOUS
  <2>2. b \in Seq(Nat) /\ w \in Nat /\ q = <<w>> \o Prefixed(b)
    BY <1>1, <1>2, <2>1, BodyType DEF ExtParts
  <2>3. PICK r \in Seq(Nat) : r = Prefixed(b)
    BY <2>2, PrefixedType
  <2>4. Len(r) = Len(b) + 1 /\ r[1] = Len(b) /\ \A k \in 1..Len(b) : r[k + 1] = b[k]
    BY <2>2, <2>3, PrefixedAt
  <2>5. /\ q \in Seq(Nat) /\ Len(q) = 1 + Len(r) /\ q[1] = w /\ \A k \in 1..Len(r) : q[1 + k] = r[k]
    <3>1. <<w>> \in Seq(Nat) /\ Len(<<w>>) = 1 /\ <<w>>[1] = w /\ q = <<w>> \o r
      BY <2>2, <2>3
    <3> QED BY <3>1, JoinedAt
  <2>6. Len(b) \in Nat /\ 1 \in 1..Len(r) /\ Len(q) = 2 + Len(b)
    BY <2>2, <2>4, <2>5
  <2>7. q[2] = Len(b)
    BY <2>4, <2>5, <2>6
  <2>8. ASSUME NEW k \in 1..Len(b) PROVE q[2 + k] = b[k]
    <3>1. k + 1 \in 1..Len(r) /\ 1 + (k + 1) = 2 + k
      BY <2>4, <2>6
    <3> QED BY <2>4, <2>5, <3>1
  <2> QED BY <2>1, <2>5, <2>6, <2>7, <2>8
<1>4. p \in [1..n -> Seq(Nat)] /\ x = FlattenSeq(p)
  <2>1. p = [i \in 1..n |-> p[i]]
    BY <1>1 DEF ExtParts
  <2>2. x = FlattenSeq(p)
    BY <1>1 DEF Extensions, ExtParts
  <2> QED BY <1>3, <2>1, <2>2
<1>5. p \in Seq(Seq(Nat)) /\ Len(p) = n
  BY <1>2, <1>4
<1>6. Pieces(p)
  BY <1>2, <1>3, <1>5 DEF Pieces
<1>7. e = ValueEnds(p) /\ e \in [0..n -> Nat] /\ e[0] = 0 /\ \A j \in 1..n : e[j] = e[j - 1] + Len(p[j])
  BY <1>1, <1>5, <1>6, ValueEndsLoop DEF ExtEnds
<1>8. CASE n = 0
  <2>1. p = <<>>
    BY <1>5, <1>8
  <2>2. FlattenSeq(<<>>) = <<>>
    BY DEF FlattenSeq
  <2>3. x = <<>>
    BY <1>4, <2>1, <2>2
  <2> QED BY <1>1, <1>7, <1>8, <2>3 DEF ExtensionsLaid
<1>9. CASE n # 0
  <2>1. /\ x \in Seq(Nat) /\ Len(x) = e[n]
        /\ \A j \in 1..n : \A k \in 1..Len(p[j]) : x[e[j - 1] + k] = p[j][k]
    <3>1. n \in Nat \ {0}
      BY <1>2, <1>9
    <3>2. /\ FlattenSeq(p) \in Seq(Nat) /\ Len(FlattenSeq(p)) = ValueEnds(p)[n]
          /\ \A j \in 1..n : \A k \in 1..Len(p[j]) : FlattenSeq(p)[ValueEnds(p)[j - 1] + k] = p[j][k]
      <4>1. LaidOut(FlattenSeq(p), p, n)
        BY <1>5, <1>6, <3>1, NumberUnits
      <4> QED BY <4>1 DEF LaidOut
    <3> QED BY <1>4, <1>7, <3>2
  <2>2. ASSUME NEW i \in 1..n
        PROVE  /\ e[i] = e[i - 1] + 2 + Len(Body(t[i], g)) /\ e[i] <= Len(x)
               /\ x[e[i - 1] + 1] = t[i] /\ x[e[i - 1] + 2] = Len(Body(t[i], g))
               /\ \A k \in 1..Len(Body(t[i], g)) : x[e[i - 1] + 2 + k] = Body(t[i], g)[k]
    <3>1. PICK b : b = Body(t[i], g)
      OBVIOUS
    <3>2. /\ Len(p[i]) = 2 + Len(b) /\ Len(b) \in Nat /\ p[i][1] = t[i] /\ p[i][2] = Len(b)
          /\ \A k \in 1..Len(b) : p[i][2 + k] = b[k]
      BY <1>3, <3>1
    <3>3. i - 1 \in 0..n /\ i \in 0..n /\ n \in 0..n
      BY <1>2
    <3>4. e[i - 1] \in Nat /\ e[i] \in Nat /\ e[n] \in Nat
      BY <1>7, <3>3
    <3>5. 1 \in 1..Len(p[i]) /\ 2 \in 1..Len(p[i]) /\ \A k \in 1..Len(b) : 2 + k \in 1..Len(p[i])
      BY <3>2
    <3>6. x[e[i - 1] + 1] = t[i] /\ x[e[i - 1] + 2] = Len(b)
      BY <2>1, <3>2, <3>5
    <3>7. ASSUME NEW k \in 1..Len(b) PROVE x[e[i - 1] + 2 + k] = b[k]
      <4>1. e[i - 1] + (2 + k) = e[i - 1] + 2 + k
        <5>1. \A u, v \in Nat : u + (2 + v) = u + 2 + v
          OBVIOUS
        <5>2. k \in Nat
          BY <3>2
        <5> QED BY <3>4, <5>1, <5>2
      <4>2. x[e[i - 1] + (2 + k)] = p[i][2 + k]
        BY <2>1, <3>5
      <4> QED BY <3>2, <4>1, <4>2
    <3>8. e[i] <= e[n]
      <4>1. i = n \/ i < n
        BY <1>2
      <4>2. i < n => e[i] < e[n]
        BY <1>5, <1>6, <1>7, <3>3, ValueEndsOrder
      <4> QED BY <3>4, <4>1, <4>2
    <3>9. e[i] = e[i - 1] + 2 + Len(b)
      <4>1. \A u, v \in Nat : u + (2 + v) = u + 2 + v
        OBVIOUS
      <4>2. e[i] = e[i - 1] + (2 + Len(b))
        BY <1>7, <3>2
      <4> QED BY <3>2, <3>4, <4>1, <4>2
    <3> QED BY <2>1, <3>1, <3>6, <3>7, <3>8, <3>9
  <2> QED BY <1>1, <1>7, <2>1, <2>2 DEF ExtensionsLaid
<1> QED BY <1>8, <1>9

LEMMA SameSeq ==
  ASSUME NEW S, NEW x \in Seq(S), NEW y \in Seq(S), Len(x) = Len(y), \A i \in 1..Len(x) : x[i] = y[i]
  PROVE  x = y
OBVIOUS

LEMMA EmptyPrefix ==
  ASSUME NEW S, NEW x \in Seq(S)
  PROVE  IsPrefix(<<>>, x)
<1>1. PICK y : y = <<>>
  OBVIOUS
<1>2. y \in Seq(S) /\ Len(y) = 0
  BY <1>1, EmptySeq
<1>3. Len(y) <= Len(x) /\ \A i \in 1..Len(y) : y[i] = x[i]
  BY <1>2
<1>4. IsPrefix(y, x)
  BY <1>2, <1>3, PrefixSame
<1> QED BY <1>1, <1>4

LEMMA SliceAt ==
  ASSUME NEW s \in Seq(Nat), NEW i \in Nat, NEW n \in Nat, i <= Len(s)
  PROVE  /\ Slice(s, i, n) \in Seq(Nat)
         /\ Len(Slice(s, i, n)) = IF n < Len(s) - i THEN n ELSE Len(s) - i
         /\ \A k \in 1..Len(Slice(s, i, n)) : Slice(s, i, n)[k] = s[i + k]
<1>1. PICK e : e = Shortest(i + n, Len(s))
  OBVIOUS
<1>2. e \in Nat /\ e <= Len(s) /\ i <= e /\ e - i = IF n < Len(s) - i THEN n ELSE Len(s) - i
  BY <1>1 DEF Shortest
<1>3. Slice(s, i, n) = SubSeq(s, i + 1, e)
  BY <1>1 DEF Slice
<1>4. /\ Len(SubSeq(s, i + 1, e)) = e - i
      /\ \A k \in 1..e - i : SubSeq(s, i + 1, e)[k] = s[i + k]
  BY <1>2
<1> QED BY <1>2, <1>3, <1>4, SliceType

(* parseU16List and parseU8List, of a list that may be cut off.            *)
LEMMA ListRead ==
  ASSUME NEW x \in Seq(Nat), NEW data \in Seq(Nat), IsPrefix(data, Prefixed(x))
  PROVE  /\ ListIn(data) \in Seq(Nat) /\ IsPrefix(ListIn(data), x)
         /\ data = Prefixed(x) => ListIn(data) = x
<1>1. PICK p \in Seq(Nat) : p = Prefixed(x)
  BY PrefixedType
<1>2. Len(p) = Len(x) + 1 /\ p[1] = Len(x) /\ \A k \in 1..Len(x) : p[k + 1] = x[k]
  BY <1>1, PrefixedAt
<1>3. Len(data) <= Len(p) /\ \A k \in 1..Len(data) : data[k] = p[k]
  BY <1>1, PrefixSame
<1>4. CASE data = <<>>
  <2>1. ListIn(data) = <<>> /\ data # p
    BY <1>2, <1>4 DEF ListIn
  <2>2. <<>> \in Seq(Nat) /\ Len(<<>>) = 0
    OBVIOUS
  <2>3. IsPrefix(<<>>, x)
    BY EmptyPrefix
  <2> QED BY <1>1, <2>1, <2>2, <2>3
<1>5. CASE data # <<>>
  <2>1. Len(data) \in Nat /\ Len(data) >= 1
    BY <1>5
  <2>2. data[1] = Len(x) /\ Len(x) \in Nat
    BY <1>2, <1>3, <2>1
  <2>3. PICK l : l = ListIn(data)
    OBVIOUS
  <2>4. l = Slice(data, 1, Len(x))
    BY <1>5, <2>2, <2>3 DEF ListIn
  <2>5. /\ l \in Seq(Nat) /\ Len(l) = IF Len(x) < Len(data) - 1 THEN Len(x) ELSE Len(data) - 1
        /\ \A k \in 1..Len(l) : l[k] = data[1 + k]
    <3>1. PICK i, n \in Nat : i = 1 /\ n = Len(x)
      BY <2>2
    <3>2. /\ Slice(data, i, n) \in Seq(Nat)
          /\ Len(Slice(data, i, n)) = IF n < Len(data) - i THEN n ELSE Len(data) - i
          /\ \A k \in 1..Len(Slice(data, i, n)) : Slice(data, i, n)[k] = data[i + k]
      BY <2>1, <3>1, SliceAt, ZenonT(40)
    <3> QED BY <2>4, <3>1, <3>2
  <2>6. Len(l) = Len(data) - 1 /\ Len(l) <= Len(x)
    BY <1>2, <1>3, <2>1, <2>2, <2>5
  <2>7. ASSUME NEW k \in 1..Len(l) PROVE l[k] = x[k]
    <3>1. 1 + k \in 1..Len(data) /\ k \in 1..Len(x) /\ 1 + k = k + 1
      BY <2>1, <2>2, <2>6
    <3>2. data[1 + k] = p[k + 1]
      BY <1>3, <3>1
    <3> QED BY <1>2, <2>5, <3>1, <3>2
  <2>8. IsPrefix(l, x)
    BY <2>5, <2>6, <2>7, PrefixSame
  <2>9. ASSUME data = p PROVE l = x
    <3>1. Len(l) = Len(x)
      BY <1>2, <2>2, <2>6, <2>9
    <3> QED BY <2>5, <2>7, <3>1, SameSeq
  <2> QED BY <1>1, <2>3, <2>5, <2>8, <2>9
<1> QED BY <1>4, <1>5

(* parseSNI takes the whole name or none.                                  *)
LEMMA HostRead ==
  ASSUME NEW data \in Seq(Nat), NEW p, p = Prefixed(<< 0 >> \o Prefixed(HostName)), IsPrefix(data, p)
  PROVE  /\ NameIn(data) \in {<<>>, HostName}
         /\ data = p => NameIn(data) = HostName
<1>1. PICK x, n : x = HostName /\ n = Len(x)
  OBVIOUS
<1>2. x \in Seq(Nat) /\ n \in Nat
  BY <1>1, GreaseAssumption
<1>3. PICK q \in Seq(Nat) : q = Prefixed(x)
  BY <1>2, PrefixedType
<1>4. Len(q) = n + 1 /\ q[1] = n /\ \A k \in 1..n : q[k + 1] = x[k]
  BY <1>1, <1>2, <1>3, PrefixedAt
<1>5. PICK r \in Seq(Nat) : r = <<0>> \o q
  <2>1. <<0>> \in Seq(Nat)
    OBVIOUS
  <2> QED BY <2>1, ConcatType
<1>6. Len(r) = n + 2 /\ r[1] = 0 /\ r[2] = n /\ \A k \in 1..n : r[k + 2] = x[k]
  <2>1. Len(r) = 1 + Len(q) /\ r[1] = 0 /\ \A k \in 1..Len(q) : r[1 + k] = q[k]
    BY <1>5
  <2>2. 1 \in 1..Len(q) /\ \A k \in 1..n : k + 1 \in 1..Len(q) /\ 1 + (k + 1) = k + 2
    BY <1>2, <1>4
  <2>3. \A k \in 1..n : r[k + 2] = x[k]
    BY <1>4, <2>1, <2>2
  <2> QED BY <1>2, <1>4, <2>1, <2>2, <2>3
<1>7. p \in Seq(Nat) /\ Len(p) = Len(r) + 1 /\ \A k \in 1..Len(r) : p[k + 1] = r[k]
  <2>1. p = Prefixed(r)
    BY <1>1, <1>3, <1>5
  <2> QED BY <2>1, PrefixedAt
<1>8. Len(p) = n + 3 /\ p[2] = 0 /\ p[3] = n /\ \A k \in 1..n : p[3 + k] = x[k]
  <2>1. 1 \in 1..Len(r) /\ 2 \in 1..Len(r) /\ \A k \in 1..n : k + 2 \in 1..Len(r) /\ (k + 2) + 1 = 3 + k
    <3>1. Len(r) = n + 2
      BY <1>6
    <3> QED BY <1>2, <3>1
  <2>2. p[1 + 1] = r[1] /\ p[2 + 1] = r[2] /\ \A k \in 1..n : p[3 + k] = r[k + 2]
    BY <1>7, <2>1
  <2> QED BY <1>2, <1>6, <1>7, <2>1, <2>2
<1>9. Len(data) \in Nat /\ Len(data) <= n + 3 /\ \A k \in 1..Len(data) : data[k] = p[k]
  BY <1>7, <1>8, PrefixSame, SMTT(30)
<1>10. CASE Len(data) < 3 \/ data[2] # 0 \/ 3 + data[3] > Len(data)
  <2>1. NameIn(data) = <<>>
    BY <1>10 DEF NameIn
  <2>2. data # p
    BY <1>2, <1>8, <1>10
  <2> QED BY <2>1, <2>2
<1>11. CASE ~(Len(data) < 3 \/ data[2] # 0 \/ 3 + data[3] > Len(data))
  <2>1. data[3] = n /\ Len(data) = n + 3
    <3>1. 3 \in 1..Len(data)
      BY <1>9, <1>11
    <3>2. data[3] = n
      BY <1>8, <1>9, <3>1
    <3> QED BY <1>2, <1>9, <1>11, <3>2
  <2>2. PICK l : l = NameIn(data)
    OBVIOUS
  <2>3. l = Slice(data, 3, n)
    BY <1>11, <2>1, <2>2 DEF NameIn
  <2>4. l \in Seq(Nat) /\ Len(l) = n /\ \A k \in 1..n : l[k] = data[3 + k]
    <3>1. /\ l \in Seq(Nat) /\ Len(l) = IF n < Len(data) - 3 THEN n ELSE Len(data) - 3
          /\ \A k \in 1..Len(l) : l[k] = data[3 + k]
      <4>1. PICK i \in Nat : i = 3
        OBVIOUS
      <4>2. /\ Slice(data, i, n) \in Seq(Nat)
            /\ Len(Slice(data, i, n)) = IF n < Len(data) - i THEN n ELSE Len(data) - i
            /\ \A k \in 1..Len(Slice(data, i, n)) : Slice(data, i, n)[k] = data[i + k]
        <5>1. i <= Len(data)
          BY <1>2, <2>1, <4>1
        <5> QED BY <1>2, <5>1, SliceAt
      <4> QED BY <2>3, <4>1, <4>2
    <3> QED BY <1>2, <2>1, <3>1
  <2>5. \A k \in 1..n : l[k] = x[k]
    <3> TAKE k \in 1..n
    <3>1. 3 + k \in 1..Len(data)
      BY <1>2, <2>1
    <3> QED BY <1>8, <1>9, <2>4, <3>1
  <2>6. l = x
    BY <1>1, <1>2, <2>4, <2>5, SameSeq
  <2> QED BY <1>1, <2>2, <2>6
<1> QED BY <1>10, <1>11

(* A turn of parseALPN's loop.                                             *)
NextName(l, f, i) ==
  IF i > Len(l) \/ i + l[i] > Len(l) THEN <<>> ELSE <<Slice(l, i, l[i])>> \o f[i + 1 + l[i]]

LEMMA ProtocolsLoop ==
  ASSUME NEW data, NEW l \in Seq(Nat), l = ListIn(data)
  PROVE  \E h : ProtocolsIn(data) = h[1] /\ \A i \in 1..Len(l) + 1 : h[i] = NextName(l, h, i)
<1> DEFINE N == Len(l)
           Good(f, r) == \A i \in 1..N + 1 : i >= r => f[i] = NextName(l, f, i)
           H == {k \in 0..N : \E f : DOMAIN f = 1..N + 1 /\ f = [i \in 1..N + 1 |-> f[i]] /\ Good(f, N + 1 - k)}
           Eq(f) == f = [i \in 1..N + 1 |-> NextName(l, f, i)]
<1>1. N \in Nat /\ \A i \in 1..N : l[i] \in Nat
  OBVIOUS
<1> HIDE DEF N
<1>2. 0 \in H
  <2> DEFINE f == [i \in 1..N + 1 |-> <<>>]
  <2>1. ASSUME NEW i \in 1..N + 1, i >= N + 1 PROVE f[i] = NextName(l, f, i)
    <3>1. i > N
      BY <1>1, <2>1
    <3> QED BY <3>1 DEF NextName, N
  <2>2. DOMAIN f = 1..N + 1 /\ f = [i \in 1..N + 1 |-> f[i]]
    OBVIOUS
  <2> HIDE DEF f
  <2>3. 0 \in 0..N /\ N + 1 - 0 = N + 1
    BY <1>1
  <2> QED BY <2>1, <2>2, <2>3
<1>3. ASSUME NEW k \in 0..N, k + 1 <= N, k \in H PROVE k + 1 \in H
  <2> DEFINE r == N + 1 - (k + 1)
  <2>1. r \in 1..N /\ r + 1 = N + 1 - k /\ k + 1 \in 0..N
    BY <1>1, <1>3
  <2>2. PICK f : Good(f, r + 1)
    BY <1>3, <2>1
  <2> HIDE DEF r
  <2> DEFINE g == [i \in 1..N + 1 |-> IF i = r THEN NextName(l, f, i) ELSE f[i]]
  <2>3. \A i \in 1..N + 1 : i >= r + 1 => g[i] = f[i]
    BY <1>1, <2>1
  <2>4. ASSUME NEW i \in 1..N + 1, i >= r PROVE NextName(l, g, i) = NextName(l, f, i)
    <3>1. CASE i > N \/ i + l[i] > N
      BY <3>1 DEF NextName, N
    <3>2. CASE ~(i > N \/ i + l[i] > N)
      <4>1. PICK j : j = i + 1 + l[i]
        OBVIOUS
      <4>2. i \in 1..N /\ l[i] \in Nat
        BY <1>1, <3>2
      <4>3. j \in 1..N + 1 /\ j >= r + 1
        BY <1>1, <2>1, <2>4, <3>2, <4>1, <4>2
      <4>4. g[j] = f[j]
        BY <2>3, <4>3
      <4> HIDE DEF g
      <4> QED BY <3>2, <4>1, <4>4 DEF NextName, N
    <3> QED BY <3>1, <3>2
  <2>5. ASSUME NEW i \in 1..N + 1, i >= r PROVE g[i] = NextName(l, g, i)
    <3>1. CASE i = r
      BY <2>4, <2>5, <3>1
    <3>2. CASE i # r
      <4>1. i >= r + 1
        BY <1>1, <2>1, <2>5, <3>2
      <4>2. f[i] = NextName(l, f, i)
        BY <2>2, <4>1
      <4>3. g[i] = f[i]
        BY <2>3, <4>1
      <4> QED BY <2>4, <2>5, <4>2, <4>3
    <3> QED BY <3>1, <3>2
  <2>6. DOMAIN g = 1..N + 1 /\ g = [i \in 1..N + 1 |-> g[i]]
    OBVIOUS
  <2> HIDE DEF g
  <2> QED BY <2>1, <2>5, <2>6 DEF r
<1>4. 0..N \subseteq H
  <2> HIDE DEF H
  <2> QED BY <1>1, <1>2, <1>3, Induct
<1>5. PICK f : f = [i \in 1..N + 1 |-> f[i]] /\ Good(f, 1)
  <2>1. N \in 0..N /\ N + 1 - N = 1
    BY <1>1
  <2> QED BY <1>4, <2>1
<1> HIDE DEF H
<1>6. Eq(f)
  <2>1. \A i \in 1..N + 1 : f[i] = NextName(l, f, i)
    BY <1>1, <1>5
  <2> QED BY <1>5, <2>1
<1>7. PICK h : h = CHOOSE g : Eq(g)
  OBVIOUS
<1>8. Eq(h)
  <2> HIDE DEF Eq
  <2> QED BY <1>6, <1>7
<1>9. ProtocolsIn(data) = h[1]
  <2> DEFINE m == ListIn(data)
             Em(f2) == f2 = [i \in 1..Len(m) + 1 |-> NextName(m, f2, i)]
  <2>1. ProtocolsIn(data) = (CHOOSE g : Em(g))[1]
    BY Zenon DEF ProtocolsIn, NextName
  <2> HIDE DEF m
  <2>2. m = l
    BY DEF m
  <2> QED BY <1>7, <2>1, <2>2 DEF N
<1> QED BY <1>8, <1>9, ZenonT(40) DEF N

LEMMA PairJoined ==
  ASSUME NEW S, NEW u \in S, NEW v \in S
  PROVE  <<u>> \o <<v>> = <<u, v>> /\ <<u>> \o <<>> = <<u>>
<1>1. PICK x, y, z : x = <<u>> /\ y = <<v>> /\ z = <<u, v>>
  OBVIOUS
<1>2. /\ x \in Seq(S) /\ y \in Seq(S) /\ z \in Seq(S) /\ Len(x) = 1 /\ Len(y) = 1 /\ Len(z) = 2
      /\ x[1] = u /\ y[1] = v /\ z[1] = u /\ z[2] = v
  BY <1>1
<1>30. x \in Seq(S) /\ y \in Seq(S)
  BY <1>2
<1>3. PICK w \in Seq(S) : w = x \o y
  BY <1>30, ConcatProperties
<1>4. Len(w) = 2 /\ w[1] = u /\ w[2] = v
  <2>1. /\ Len(w) = Len(x) + Len(y)
        /\ \A i \in 1..Len(x) + Len(y) : w[i] = IF i <= Len(x) THEN x[i] ELSE y[i - Len(x)]
    BY <1>30, <1>3, ConcatProperties
  <2>2. Len(x) = 1 /\ Len(y) = 1
    BY <1>2
  <2>3. 1 \in 1..1 + 1 /\ 2 \in 1..1 + 1 /\ 1 + 1 = 2 /\ 1 <= 1 /\ ~(2 <= 1) /\ 2 - 1 = 1
    OBVIOUS
  <2>4. w[1] = x[1] /\ w[2] = y[1] /\ Len(w) = 2
    BY <2>1, <2>2, <2>3
  <2> QED BY <1>2, <2>4
<1>5. \A k \in 1..2 : k = 1 \/ k = 2
  OBVIOUS
<1>6. \A k \in 1..Len(w) : w[k] = z[k]
  BY <1>2, <1>4, <1>5
<1>7. w = z
  BY <1>2, <1>4, <1>6, SameSeq
<1>8. <<u>> \o <<>> = <<u>>
  OBVIOUS
<1> QED BY <1>1, <1>3, <1>7, <1>8

LEMMA PairSeq ==
  ASSUME NEW S, NEW f \in [1..2 -> S]
  PROVE  f \in Seq(S) /\ Len(f) = 2
<1>1. PICK n \in Nat : n = 2
  OBVIOUS
<1>2. f \in [1..n -> S]
  BY <1>1
<1>3. f \in Seq(S)
  BY <1>2
<1> QED BY <1>3

(* The list of the two protocols, with their lengths.                      *)
AlpnUnits(x) ==
  /\ x \in Seq(Nat) /\ Len(x) = 5
  /\ x[1] = 2 /\ x[2] = 104 /\ x[3] = 50 /\ x[4] = 1 /\ x[5] = 104

LEMMA ProtocolUnits == AlpnUnits(FlattenSeq([i \in 1..2 |-> Prefixed(Protocols[i])]))
<1>1. PICK u, v \in Seq(Nat) : u = <<104, 50>> /\ v = <<104>>
  <2>1. <<104, 50>> \in Seq(Nat) /\ <<104>> \in Seq(Nat)
    OBVIOUS
  <2> QED BY <2>1
<1>2. Protocols[1] = u /\ Protocols[2] = v
  BY <1>1 DEF Protocols
<1>3. PICK p, q \in Seq(Nat) : p = Prefixed(u) /\ q = Prefixed(v)
  BY PrefixedType
<1>4. Len(p) = 3 /\ p[1] = 2 /\ p[2] = 104 /\ p[3] = 50
  <2>1. Len(u) = 2 /\ u[1] = 104 /\ u[2] = 50
    BY <1>1
  <2>2. Len(p) = Len(u) + 1 /\ p[1] = Len(u) /\ \A k \in 1..Len(u) : p[k + 1] = u[k]
    BY <1>3, PrefixedAt
  <2>3. p[1 + 1] = u[1] /\ p[2 + 1] = u[2]
    BY <2>1, <2>2
  <2> QED BY <2>1, <2>2, <2>3
<1>5. Len(q) = 2 /\ q[1] = 1 /\ q[2] = 104
  <2>1. Len(v) = 1 /\ v[1] = 104
    BY <1>1
  <2>2. Len(q) = Len(v) + 1 /\ q[1] = Len(v) /\ \A k \in 1..Len(v) : q[k + 1] = v[k]
    BY <1>3, PrefixedAt
  <2>3. q[1 + 1] = v[1]
    BY <2>1, <2>2
  <2> QED BY <2>1, <2>2, <2>3
<1>6. PICK ss : ss = [i \in 1..2 |-> Prefixed(Protocols[i])]
  OBVIOUS
<1>7. ss \in [1..2 -> Seq(Nat)] /\ ss[1] = p /\ ss[2] = q
  <2>1. \A i \in 1..2 : i = 1 \/ i = 2
    OBVIOUS
  <2>2. ss[1] = p /\ ss[2] = q
    BY <1>2, <1>3, <1>6
  <2>3. \A i \in 1..2 : ss[i] \in Seq(Nat)
    BY <2>1, <2>2
  <2> QED BY <1>6, <2>2, <2>3
<1>8. PICK S : S = Seq(Nat)
  OBVIOUS
<1>9. ss \in Seq(S) /\ Len(ss) = 2
  <2>1. ss \in [1..2 -> S]
    BY <1>7, <1>8
  <2> QED BY <2>1, PairSeq
<1>10. PICK h : FlattenSeq(ss) = h[2] /\ h[1] = ss[1] /\ h[2] = h[1] \o ss[2]
  <2>1. ss \in Seq(Seq(Nat)) /\ Len(ss) # 0
    BY <1>8, <1>9
  <2>2. \E h \in [1..Len(ss) -> Seq(Nat)] :
           /\ FlattenSeq(ss) = h[Len(ss)] /\ h[1] = ss[1]
           /\ \A i \in 1..Len(ss) : i # 1 => h[i] = h[i - 1] \o ss[i]
    BY <2>1, FlattenLoop
  <2>3. PICK h : /\ FlattenSeq(ss) = h[Len(ss)] /\ h[1] = ss[1]
                 /\ \A i \in 1..Len(ss) : i # 1 => h[i] = h[i - 1] \o ss[i]
    BY <2>2
  <2>4. 2 \in 1..Len(ss) /\ 2 # 1 /\ 2 - 1 = 1
    BY <1>9
  <2>5. h[2] = h[2 - 1] \o ss[2]
    BY <2>3, <2>4
  <2> QED BY <1>9, <2>3, <2>4, <2>5
<1>11. PICK x \in Seq(Nat) : x = p \o q
  BY ConcatType
<1>12. x = FlattenSeq([i \in 1..2 |-> Prefixed(Protocols[i])])
  BY <1>6, <1>7, <1>10, <1>11
<1>13. /\ Len(x) = Len(p) + Len(q) /\ \A k \in 1..Len(p) : x[k] = p[k]
       /\ \A k \in 1..Len(q) : x[Len(p) + k] = q[k]
  BY <1>11, JoinedAt
<1>14. x[1] = 2 /\ x[2] = 104 /\ x[3] = 50 /\ Len(x) = 5
  BY <1>4, <1>5, <1>13
<1>15. x[3 + 1] = 1 /\ x[3 + 2] = 104
  BY <1>4, <1>5, <1>13
<1>16. 3 + 1 = 4 /\ 3 + 2 = 5
  OBVIOUS
<1>17. x[4] = 1 /\ x[5] = 104
  BY <1>15, <1>16
<1>18. AlpnUnits(x)
  BY <1>14, <1>17 DEF AlpnUnits
<1> QED BY <1>12, <1>18

(* parseALPN, of a list that may be cut off.                               *)
LEMMA ProtocolsRead ==
  ASSUME NEW data \in Seq(Nat), NEW x, AlpnUnits(x), IsPrefix(data, Prefixed(x))
  PROVE  /\ ProtocolsIn(data) \in Seq(Seq(Nat)) /\ IsPrefix(ProtocolsIn(data), Protocols)
         /\ data = Prefixed(x) => ProtocolsIn(data) = Protocols
<1>1. /\ x \in Seq(Nat)
      /\ Len(x) = 5 /\ x[1] = 2 /\ x[2] = 104 /\ x[3] = 50 /\ x[4] = 1 /\ x[5] = 104
  BY DEF AlpnUnits
<1>2. PICK l : l = ListIn(data)
  OBVIOUS
<1>3. l \in Seq(Nat) /\ IsPrefix(l, x) /\ (data = Prefixed(x) => l = x)
  BY <1>1, <1>2, ListRead
<1>4. PICK h : ProtocolsIn(data) = h[1] /\ \A i \in 1..Len(l) + 1 : h[i] = NextName(l, h, i)
  BY <1>2, <1>3, ProtocolsLoop
<1>5. PICK c \in Nat : c = Len(l)
  BY <1>3
<1>51. c <= 5 /\ \A k \in 1..c : l[k] = x[k]
  <2>1. Len(l) <= Len(x) /\ \A k \in 1..Len(l) : l[k] = x[k]
    BY <1>1, <1>3, PrefixSame
  <2>2. Len(x) = 5
    BY <1>1
  <2> QED BY <1>5, <2>1, <2>2
<1>52. c <= 5 /\ (c # 5 => l # x)
  <2>1. Len(x) = 5
    BY <1>1
  <2> QED BY <1>5, <1>51, <2>1
<1>6. PICK u, v \in Seq(Nat) : u = <<104, 50>> /\ v = <<104>>
  <2>1. <<104, 50>> \in Seq(Nat) /\ <<104>> \in Seq(Nat)
    OBVIOUS
  <2> QED BY <2>1
<1>7. Protocols = <<u, v>>
  BY <1>6 DEF Protocols
<1>8. PICK S : S = Seq(Nat)
  OBVIOUS
<1>9. Protocols \in Seq(S) /\ Len(Protocols) = 2 /\ Protocols[1] = u /\ Protocols[2] = v
  BY <1>7, <1>8
<1>10. CASE c < 3
  <2>1. h[1] = <<>>
    <3>1. 1 \in 1..c + 1 /\ (c >= 1 => l[1] = 2)
      <4>1. c >= 1 => 1 \in 1..c
        OBVIOUS
      <4> QED BY <1>1, <1>51, <4>1
    <3>2. 1 > c \/ 1 + l[1] > c
      BY <1>5, <1>51, <1>10, <3>1
    <3>3. NextName(l, h, 1) = <<>>
      BY <1>5, <3>2 DEF NextName
    <3> QED BY <1>4, <1>5, <3>1, <3>3
  <2>2. l # x
    BY <1>10, <1>52
  <2>3. IsPrefix(<<>>, Protocols)
    BY <1>9, EmptyPrefix
  <2>4. h[1] \in Seq(S)
    BY <2>1
  <2> QED BY <1>3, <1>4, <1>8, <2>1, <2>2, <2>3, <2>4
<1>11. CASE c >= 3
  <2>1. l[1] = 2 /\ l[2] = 104 /\ l[3] = 50 /\ (c >= 4 => l[4] = 1) /\ (c >= 5 => l[5] = 104)
    <3>1. 1 \in 1..c /\ 2 \in 1..c /\ 3 \in 1..c /\ (c >= 4 => 4 \in 1..c)
          /\ (c >= 5 => 5 \in 1..c)
      BY <1>5, <1>51, <1>11
    <3> QED BY <1>1, <1>5, <1>51, <3>1
  <2>2. Slice(l, 1, 2) = u
    <3>1. PICK i, n \in Nat : i = 1 /\ n = 2
      OBVIOUS
    <3>2. PICK s : s = Slice(l, i, n)
      OBVIOUS
    <3>3. s \in Seq(Nat) /\ Len(s) = 2 /\ \A k \in 1..Len(s) : s[k] = l[i + k]
      <4>1. i <= c /\ (IF n < c - i THEN n ELSE c - i) = 2
        BY <1>52, <1>11, <3>1
      <4>2. /\ s \in Seq(Nat) /\ Len(s) = IF n < Len(l) - i THEN n ELSE Len(l) - i
            /\ \A k \in 1..Len(s) : s[k] = l[i + k]
        <5>1. i <= Len(l)
          BY <1>5, <4>1
        <5>2. /\ Slice(l, i, n) \in Seq(Nat)
              /\ Len(Slice(l, i, n)) = IF n < Len(l) - i THEN n ELSE Len(l) - i
              /\ \A k \in 1..Len(Slice(l, i, n)) : Slice(l, i, n)[k] = l[i + k]
          BY <1>3, <5>1, SliceAt
        <5> QED BY <3>2, <5>2
      <4> QED BY <1>5, <4>1, <4>2
    <3>4. s[1] = l[1 + 1] /\ s[2] = l[1 + 2]
      BY <3>1, <3>3
    <3>5. Len(u) = 2 /\ u[1] = 104 /\ u[2] = 50
      BY <1>6
    <3>6. \A k \in 1..2 : k = 1 \/ k = 2
      OBVIOUS
    <3>7. \A k \in 1..Len(s) : s[k] = u[k]
      BY <2>1, <3>3, <3>4, <3>5, <3>6
    <3>8. s = u
      BY <3>3, <3>5, <3>7, SameSeq, ZenonT(40)
    <3> QED BY <3>1, <3>2, <3>8
  <2>3. h[1] = <<u>> \o h[4]
    <3>1. 1 \in 1..c + 1 /\ ~(1 > c \/ 1 + l[1] > c) /\ 1 + 1 + l[1] = 4
      BY <1>5, <1>51, <1>11, <2>1
    <3>2. NextName(l, h, 1) = <<Slice(l, 1, l[1])>> \o h[1 + 1 + l[1]]
      BY <1>5, <3>1 DEF NextName
    <3> QED BY <1>4, <1>5, <2>1, <2>2, <3>1, <3>2
  <2>4. CASE c < 5
    <3>1. h[4] = <<>>
      <4>1. 4 \in 1..c + 1 /\ (4 > c \/ 4 + l[4] > c)
        BY <1>5, <1>51, <1>11, <2>1, <2>4
      <4>2. NextName(l, h, 4) = <<>>
        BY <1>5, <4>1 DEF NextName
      <4> QED BY <1>4, <1>5, <4>1, <4>2
    <3>2. PICK w : w = <<u>>
      OBVIOUS
    <3>3. w \in Seq(S) /\ Len(w) = 1 /\ w[1] = u
      BY <1>8, <3>2
    <3>4. h[1] = w
      BY <2>3, <3>1, <3>2, <3>3
    <3>5. IsPrefix(w, Protocols)
      <4>1. \A k \in 1..1 : k = 1
        OBVIOUS
      <4>2. Len(w) <= Len(Protocols) /\ \A k \in 1..Len(w) : w[k] = Protocols[k]
        BY <1>9, <3>3, <4>1
      <4> QED BY <1>9, <3>3, <4>2, PrefixSame
    <3>6. l # x
      BY <1>52, <2>4
    <3> QED BY <1>3, <1>4, <1>8, <3>3, <3>4, <3>5, <3>6
  <2>5. CASE c = 5
    <3>1. Slice(l, 4, 1) = v
      <4>1. PICK i, n \in Nat : i = 4 /\ n = 1
        OBVIOUS
      <4>2. PICK s : s = Slice(l, i, n)
        OBVIOUS
      <4>3. s \in Seq(Nat) /\ Len(s) = 1 /\ \A k \in 1..Len(s) : s[k] = l[i + k]
        <5>1. i <= c /\ (IF n < c - i THEN n ELSE c - i) = 1
          BY <2>5, <4>1
        <5>2. /\ s \in Seq(Nat) /\ Len(s) = IF n < Len(l) - i THEN n ELSE Len(l) - i
              /\ \A k \in 1..Len(s) : s[k] = l[i + k]
          <6>1. i <= Len(l)
            BY <1>5, <5>1
          <6>2. /\ Slice(l, i, n) \in Seq(Nat)
                /\ Len(Slice(l, i, n)) = IF n < Len(l) - i THEN n ELSE Len(l) - i
                /\ \A k \in 1..Len(Slice(l, i, n)) : Slice(l, i, n)[k] = l[i + k]
            BY <1>3, <6>1, SliceAt
          <6> QED BY <4>2, <6>2
        <5> QED BY <1>5, <5>1, <5>2
      <4>4. s[1] = l[4 + 1]
        BY <4>1, <4>3
      <4>5. Len(v) = 1 /\ v[1] = 104
        BY <1>6
      <4>6. \A k \in 1..1 : k = 1
        OBVIOUS
      <4>7. \A k \in 1..Len(s) : s[k] = v[k]
        BY <2>1, <2>5, <4>3, <4>4, <4>5, <4>6
      <4>8. s = v
        BY <4>3, <4>5, <4>7, SameSeq
      <4> QED BY <4>1, <4>2, <4>8
    <3>2. h[4] = <<v>> \o h[6]
      <4>1. 4 \in 1..c + 1 /\ ~(4 > c \/ 4 + l[4] > c) /\ 4 + 1 + l[4] = 6 /\ l[4] = 1
        BY <2>1, <2>5
      <4>2. NextName(l, h, 4) = <<Slice(l, 4, l[4])>> \o h[4 + 1 + l[4]]
        BY <1>5, <4>1 DEF NextName
      <4> QED BY <1>4, <1>5, <3>1, <4>1, <4>2
    <3>3. h[6] = <<>>
      <4>1. 6 \in 1..c + 1 /\ 6 > c
        BY <2>5
      <4>2. NextName(l, h, 6) = <<>>
        BY <1>5, <4>1 DEF NextName
      <4> QED BY <1>4, <1>5, <4>1, <4>2
    <3>4. h[1] = <<u, v>>
      <4>1. <<v>> \o <<>> = <<v>> /\ <<u>> \o <<v>> = <<u, v>>
        BY PairJoined
      <4> QED BY <2>3, <3>2, <3>3, <4>1
    <3>5. IsPrefix(Protocols, Protocols)
      BY <1>9, PrefixSame
    <3> QED BY <1>4, <1>7, <1>8, <1>9, <3>4, <3>5
  <2>6. c < 5 \/ c = 5
    BY <1>52
  <2> QED BY <2>4, <2>5, <2>6
<1>12. c < 3 \/ c >= 3
  OBVIOUS
<1> QED BY <1>10, <1>11, <1>12

(* What parseClientHello keeps of the first i extensions of a hello, of    *)
(* which t are the types, s the cipher suites and g the GREASE values;     *)
(* whole says that the last one is not cut off.                            *)
Seen(t, i) == {t[j] : j \in 1..i}

Field(t, i, whole, type, val, full) ==
  /\ type \notin Seen(t, i) => val = <<>>
  /\ type \in Seen(t, i) /\ whole => val = full

HelloOut == [suites : Seq(Nat), types : Seq(Nat), name : Seq(Nat), alpn : Seq(Seq(Nat)),
             groups : Seq(Nat), points : Seq(Nat)]

NameFound(o, i, whole, t) ==
  o.name \in {<<>>, HostName} /\ Field(t, i, whole, ServerName, o.name, HostName)

AlpnFound(o, i, whole, t) ==
  IsPrefix(o.alpn, Protocols) /\ Field(t, i, whole, Alpn, o.alpn, Protocols)

GroupsFound(o, i, whole, t, gr) ==
  IsPrefix(o.groups, gr) /\ Field(t, i, whole, GroupsExt, o.groups, gr)

PointsFound(o, i, whole, t) ==
  IsPrefix(o.points, <<0>>) /\ Field(t, i, whole, PointsExt, o.points, <<0>>)

Gathered(o, i, whole, s, t, g) ==
  /\ o \in HelloOut /\ o.suites = s /\ o.types = SubSeq(t, 1, i)
  /\ NameFound(o, i, whole, t) /\ AlpnFound(o, i, whole, t)
  /\ GroupsFound(o, i, whole, t, g \o Groups) /\ PointsFound(o, i, whole, t)

LEMMA FieldStays ==
  ASSUME NEW t \in Seq(Nat), NEW i \in Nat, i < Len(t), NEW w1, NEW w2, w2 => w1,
         NEW type, type # t[i + 1], NEW val, NEW full, Field(t, i, w1, type, val, full)
  PROVE  Field(t, i + 1, w2, type, val, full)
<1>1. Seen(t, i + 1) = Seen(t, i) \cup {t[i + 1]}
  <2>1. \A j \in 1..i + 1 : j = i + 1 \/ j \in 1..i
    OBVIOUS
  <2>2. \A j \in 1..i : j \in 1..i + 1
    OBVIOUS
  <2>3. i + 1 \in 1..i + 1
    OBVIOUS
  <2> QED BY <2>1, <2>2, <2>3, Zenon DEF Seen
<1> QED BY <1>1 DEF Field

LEMMA FieldRead ==
  ASSUME NEW t \in Seq(Nat), NEW i \in Nat, i < Len(t), NEW w2,
         NEW type, type = t[i + 1], NEW val, NEW full, w2 => val = full
  PROVE  Field(t, i + 1, w2, type, val, full)
<1>1. t[i + 1] \in Seen(t, i + 1)
  <2>1. i + 1 \in 1..i + 1
    OBVIOUS
  <2> QED BY <2>1, Zenon DEF Seen
<1> QED BY <1>1 DEF Field

(* Gathered stays true when the loop reads extension i + 1, of which data is  *)
(* there.                                                                  *)
NextOut(o, type, data) ==
  LET o1 == [o EXCEPT !.types = Append(@, type)] IN
  CASE type = ServerName -> [o1 EXCEPT !.name = NameIn(data)]
    [] type = Alpn       -> [o1 EXCEPT !.alpn = ProtocolsIn(data)]
    [] type = GroupsExt  -> [o1 EXCEPT !.groups = ListIn(data)]
    [] type = PointsExt  -> [o1 EXCEPT !.points = ListIn(data)]
    [] OTHER             -> o1

LEMMA GatheredNext ==
  ASSUME NEW s \in Seq(Nat), NEW t \in Seq(Nat), NEW g \in Seq(Nat), NEW i \in Nat, i < Len(t),
         NEW o, NEW w1, NEW w2, Gathered(o, i, w1, s, t, g), NEW data \in Seq(Nat), NEW type, type = t[i + 1],
         IsPrefix(data, Body(type, g)), w2 => w1 /\ data = Body(type, g)
  PROVE  Gathered(NextOut(o, type, data), i + 1, w2, s, t, g)
<1>1. PICK q, gr : q = NextOut(o, type, data) /\ gr = g \o Groups
  OBVIOUS
<1>2. o \in HelloOut /\ o.suites = s /\ o.types = SubSeq(t, 1, i)
  BY DEF Gathered
<1>3. type \in Nat /\ gr \in Seq(Nat)
  <2>1. i + 1 \in 1..Len(t)
    OBVIOUS
  <2> QED BY <1>1, <2>1, ConcatType, GreaseAssumption
<1>4. Append(o.types, type) \in Seq(Nat) /\ Append(o.types, type) = SubSeq(t, 1, i + 1)
  <2>1. PICK x : x = o.types
    OBVIOUS
  <2>2. x \in Seq(Nat) /\ Len(x) = i /\ \A k \in 1..i : x[k] = t[k]
    BY <1>2, <2>1
  <2>3. PICK y, z : y = Append(x, type) /\ z = SubSeq(t, 1, i + 1)
    OBVIOUS
  <2>4. y \in Seq(Nat) /\ Len(y) = i + 1 /\ y[i + 1] = type /\ \A k \in 1..i : y[k] = x[k]
    BY <1>3, <2>2, <2>3
  <2>5. z \in Seq(Nat)
    <3>1. i + 1 \in Int /\ i + 1 <= Len(t)
      OBVIOUS
    <3> QED BY <2>3, <3>1, PrefixType
  <2>6. Len(z) = i + 1 /\ \A k \in 1..i + 1 : z[k] = t[k]
    BY <2>3
  <2>7. \A k \in 1..i + 1 : y[k] = z[k]
    <3>1. \A k \in 1..i + 1 : k \in 1..i \/ k = i + 1
      OBVIOUS
    <3> QED BY <2>2, <2>4, <2>6, <3>1
  <2>8. y = z
    BY <2>4, <2>5, <2>6, <2>7, SameSeq
  <2> QED BY <2>1, <2>3, <2>4, <2>8
<1>5. w2 => w1
  OBVIOUS
<1>6. ASSUME type # ServerName, q.name = o.name PROVE NameFound(q, i + 1, w2, t)
  <2>1. NameFound(o, i, w1, t)
    BY DEF Gathered
  <2>2. Field(t, i + 1, w2, ServerName, o.name, HostName)
    BY <1>5, <1>6, <2>1, FieldStays DEF NameFound
  <2> QED BY <1>6, <2>1, <2>2 DEF NameFound
<1>7. ASSUME type # Alpn, q.alpn = o.alpn PROVE AlpnFound(q, i + 1, w2, t)
  <2>1. AlpnFound(o, i, w1, t)
    BY DEF Gathered
  <2>2. Field(t, i + 1, w2, Alpn, o.alpn, Protocols)
    BY <1>5, <1>7, <2>1, FieldStays DEF AlpnFound
  <2> QED BY <1>7, <2>1, <2>2 DEF AlpnFound
<1>8. ASSUME type # GroupsExt, q.groups = o.groups PROVE GroupsFound(q, i + 1, w2, t, gr)
  <2>1. GroupsFound(o, i, w1, t, gr)
    BY <1>1 DEF Gathered
  <2>2. Field(t, i + 1, w2, GroupsExt, o.groups, gr)
    BY <1>5, <1>8, <2>1, FieldStays DEF GroupsFound
  <2> QED BY <1>8, <2>1, <2>2 DEF GroupsFound
<1>9. ASSUME type # PointsExt, q.points = o.points PROVE PointsFound(q, i + 1, w2, t)
  <2>1. PointsFound(o, i, w1, t)
    BY DEF Gathered
  <2>2. Field(t, i + 1, w2, PointsExt, o.points, <<0>>)
    BY <1>5, <1>9, <2>1, FieldStays DEF PointsFound
  <2> QED BY <1>9, <2>1, <2>2 DEF PointsFound
<1>10. PICK o1 : o1 = [o EXCEPT !.types = Append(o.types, type)]
  OBVIOUS
<1>11. /\ o1 \in HelloOut /\ o1.suites = s /\ o1.types = SubSeq(t, 1, i + 1) /\ o1.name = o.name
       /\ o1.alpn = o.alpn /\ o1.groups = o.groups /\ o1.points = o.points
  BY <1>2, <1>4, <1>10 DEF HelloOut
<1>12. ServerName # Alpn /\ ServerName # GroupsExt /\ ServerName # PointsExt /\ Alpn # GroupsExt
       /\ Alpn # PointsExt /\ GroupsExt # PointsExt
  BY DEF ServerName, Alpn, GroupsExt, PointsExt
<1>13. CASE type = ServerName
  <2>1. PICK v : v = NameIn(data)
    OBVIOUS
  <2>2. v \in {<<>>, HostName} /\ (w2 => v = HostName)
    <3>1. Body(type, g) = Prefixed(<<0>> \o Prefixed(HostName))
      BY <1>12, <1>13 DEF Body
    <3>2. PICK p : p = Prefixed(<<0>> \o Prefixed(HostName))
      OBVIOUS
    <3>3. IsPrefix(data, p) /\ (w2 => data = p)
      BY <3>1, <3>2
    <3> QED BY <2>1, <3>2, <3>3, HostRead
  <2>3. q = [o1 EXCEPT !.name = v]
    BY <1>1, <1>10, <1>12, <1>13, <2>1 DEF NextOut
  <2>4. v \in Seq(Nat)
    <3>1. <<>> \in Seq(Nat)
      OBVIOUS
    <3> QED BY <2>2, <3>1, GreaseAssumption
  <2>5. /\ q \in HelloOut /\ q.suites = s /\ q.types = SubSeq(t, 1, i + 1) /\ q.name = v
        /\ q.alpn = o.alpn /\ q.groups = o.groups /\ q.points = o.points
    BY <1>11, <2>3, <2>4 DEF HelloOut
  <2>6. NameFound(q, i + 1, w2, t)
    <3>1. Field(t, i + 1, w2, ServerName, v, HostName)
      BY <1>13, <2>2, FieldRead
    <3> QED BY <2>2, <2>5, <3>1 DEF NameFound
  <2> QED BY <1>1, <1>7, <1>8, <1>9, <1>12, <1>13, <2>5, <2>6 DEF Gathered
<1>14. CASE type = Alpn
  <2>1. PICK v : v = ProtocolsIn(data)
    OBVIOUS
  <2>2. v \in Seq(Seq(Nat)) /\ IsPrefix(v, Protocols) /\ (w2 => v = Protocols)
    <3>1. PICK x : x = FlattenSeq([j \in 1..2 |-> Prefixed(Protocols[j])])
      OBVIOUS
    <3>2. Body(type, g) = Prefixed(x)
      BY <1>12, <1>14, <3>1 DEF Body
    <3>3. AlpnUnits(x)
      BY <3>1, ProtocolUnits
    <3>4. IsPrefix(data, Prefixed(x)) /\ (w2 => data = Prefixed(x))
      BY <3>2
    <3> QED BY <2>1, <3>3, <3>4, ProtocolsRead
  <2>3. q = [o1 EXCEPT !.alpn = v]
    BY <1>1, <1>10, <1>12, <1>14, <2>1 DEF NextOut
  <2>5. /\ q \in HelloOut /\ q.suites = s /\ q.types = SubSeq(t, 1, i + 1) /\ q.alpn = v
        /\ q.name = o.name /\ q.groups = o.groups /\ q.points = o.points
    BY <1>11, <2>2, <2>3 DEF HelloOut
  <2>6. AlpnFound(q, i + 1, w2, t)
    <3>1. Field(t, i + 1, w2, Alpn, v, Protocols)
      BY <1>14, <2>2, FieldRead
    <3> QED BY <2>2, <2>5, <3>1 DEF AlpnFound
  <2> QED BY <1>1, <1>6, <1>8, <1>9, <1>12, <1>14, <2>5, <2>6 DEF Gathered
<1>15. CASE type = GroupsExt
  <2>1. PICK v : v = ListIn(data)
    OBVIOUS
  <2>2. v \in Seq(Nat) /\ IsPrefix(v, gr) /\ (w2 => v = gr)
    <3>1. Body(type, g) = Prefixed(gr)
      BY <1>1, <1>12, <1>15 DEF Body
    <3> QED BY <1>3, <2>1, <3>1, ListRead
  <2>3. q = [o1 EXCEPT !.groups = v]
    BY <1>1, <1>10, <1>12, <1>15, <2>1 DEF NextOut
  <2>5. /\ q \in HelloOut /\ q.suites = s /\ q.types = SubSeq(t, 1, i + 1) /\ q.groups = v
        /\ q.name = o.name /\ q.alpn = o.alpn /\ q.points = o.points
    BY <1>11, <2>2, <2>3 DEF HelloOut
  <2>6. GroupsFound(q, i + 1, w2, t, gr)
    <3>1. Field(t, i + 1, w2, GroupsExt, v, gr)
      BY <1>15, <2>2, FieldRead
    <3> QED BY <2>2, <2>5, <3>1 DEF GroupsFound
  <2> QED BY <1>1, <1>6, <1>7, <1>9, <1>12, <1>15, <2>5, <2>6 DEF Gathered
<1>16. CASE type = PointsExt
  <2>1. PICK v, z : v = ListIn(data) /\ z = <<0>>
    OBVIOUS
  <2>2. v \in Seq(Nat) /\ IsPrefix(v, z) /\ (w2 => v = z)
    <3>1. Body(type, g) = Prefixed(z)
      BY <1>12, <1>16, <2>1 DEF Body
    <3>2. z \in Seq(Nat)
      BY <2>1
    <3> QED BY <2>1, <3>1, <3>2, ListRead
  <2>3. q = [o1 EXCEPT !.points = v]
    BY <1>1, <1>10, <1>12, <1>16, <2>1 DEF NextOut
  <2>5. /\ q \in HelloOut /\ q.suites = s /\ q.types = SubSeq(t, 1, i + 1) /\ q.points = v
        /\ q.name = o.name /\ q.alpn = o.alpn /\ q.groups = o.groups
    BY <1>11, <2>2, <2>3 DEF HelloOut
  <2>6. PointsFound(q, i + 1, w2, t)
    <3>1. Field(t, i + 1, w2, PointsExt, v, z)
      BY <1>16, <2>2, FieldRead
    <3> QED BY <2>1, <2>2, <2>5, <3>1 DEF PointsFound
  <2> QED BY <1>1, <1>6, <1>7, <1>8, <1>12, <1>16, <2>5, <2>6 DEF Gathered
<1>17. CASE type # ServerName /\ type # Alpn /\ type # GroupsExt /\ type # PointsExt
  <2>1. q = o1
    BY <1>1, <1>10, <1>17 DEF NextOut
  <2> QED BY <1>1, <1>6, <1>7, <1>8, <1>9, <1>11, <1>17, <2>1 DEF Gathered
<1> QED BY <1>13, <1>14, <1>15, <1>16, <1>17

(* An extension is found only if the client sends it, and if it is all     *)
(* there it is found.                                                      *)
SentOnly(t, i, types) ==
  \A type \in {ServerName, Alpn, GroupsExt, PointsExt} :
    /\ type \in Seen(t, i) => type \in Range(types)
    /\ i = Len(t) /\ type \in Range(types) => type \in Seen(t, i)

LEMMA SeenSent ==
  ASSUME NEW types \in Seq(Nat), NEW g \in Seq(Nat), \A k \in 1..Len(g) : IsGREASE(g[k]),
         NEW t, t = g \o types, NEW i \in 0..Len(t)
  PROVE  SentOnly(t, i, types)
<1> SUFFICES ASSUME NEW type \in {ServerName, Alpn, GroupsExt, PointsExt}
             PROVE  /\ type \in Seen(t, i) => type \in Range(types)
                    /\ i = Len(t) /\ type \in Range(types) => type \in Seen(t, i)
  BY Zenon DEF SentOnly
<1>1. ~IsGREASE(type)
  <2>1. type = 0 \/ type = 16 \/ type = 10 \/ type = 11
    BY DEF ServerName, Alpn, GroupsExt, PointsExt
  <2> QED BY <2>1 DEF IsGREASE
<1>2. PICK c, n \in Nat : c = Len(g) /\ n = Len(types)
  OBVIOUS
<1>3. /\ t \in Seq(Nat) /\ Len(t) = c + n
      /\ \A k \in 1..c : t[k] = g[k]
      /\ \A k \in 1..n : t[c + k] = types[k]
  BY <1>2, JoinedAt
<1>4. ASSUME type \in Seen(t, i) PROVE type \in Range(types)
  <2>1. PICK j \in 1..i : type = t[j]
    BY <1>4, Zenon DEF Seen
  <2>2. j \in Nat /\ j >= 1 /\ j <= c + n
    BY <1>3
  <2>3. CASE j <= c
    <3>1. j \in 1..c
      BY <2>2, <2>3
    <3> QED BY <1>1, <1>2, <1>3, <2>1, <3>1
  <2>4. CASE ~(j <= c)
    <3>1. j - c \in 1..n /\ c + (j - c) = j
      BY <2>2, <2>4
    <3>2. type = types[j - c]
      BY <1>3, <2>1, <3>1
    <3>3. DOMAIN types = 1..n
      BY <1>2
    <3> QED BY <3>1, <3>2, <3>3, Zenon DEF Range
  <2> QED BY <2>3, <2>4
<1>5. ASSUME i = Len(t), type \in Range(types) PROVE type \in Seen(t, i)
  <2>1. PICK k \in DOMAIN types : type = types[k]
    BY <1>5, Zenon DEF Range
  <2>2. k \in 1..n
    BY <1>2
  <2>3. c + k \in 1..i /\ type = t[c + k]
    BY <1>3, <1>5, <2>1, <2>2, SMTT(30)
  <2> QED BY <2>3, Zenon DEF Seen
<1> QED BY <1>4, <1>5

LEMMA FieldSent ==
  ASSUME NEW types, NEW t, NEW i, NEW w \in BOOLEAN, NEW S, NEW val, NEW full \in Seq(S), NEW type,
         Field(t, i, w, type, val, full), IsPrefix(val, full),
         type \in Seen(t, i) => type \in Range(types),
         NEW entire \in BOOLEAN, entire => w /\ (type \in Range(types) => type \in Seen(t, i)),
         NEW x, x = IF type \in Range(types) THEN full ELSE <<>>
  PROVE  IsPrefix(val, x) /\ (entire => val = x)
<1>1. CASE type \in Range(types)
  BY <1>1 DEF Field
<1>2. CASE type \notin Range(types)
  <2>1. val = <<>> /\ x = <<>>
    BY <1>2 DEF Field
  <2>2. IsPrefix(<<>>, <<>>)
    <3>1. PICK y : y = <<>>
      OBVIOUS
    <3>2. y \in Seq(S)
      BY <3>1
    <3>3. IsPrefix(<<>>, y)
      BY <3>2, EmptyPrefix
    <3> QED BY <3>1, <3>3
  <2> QED BY <2>1, <2>2
<1> QED BY <1>1, <1>2

(* What a whole hello gives, of a client that sends these extensions.      *)
Whole(types) ==
  [suites |-> Suites, types |-> types,
   name   |-> IF ServerName \in Range(types) THEN HostName ELSE <<>>,
   alpn   |-> IF Alpn \in Range(types) THEN Protocols ELSE <<>>,
   groups |-> IF GroupsExt \in Range(types) THEN Groups ELSE <<>>,
   points |-> IF PointsExt \in Range(types) THEN <<0>> ELSE <<>>]

AsSent(o, x, entire) ==
  /\ \A k \in 1..4 : IsPrefix(JA3(o)[k], JA3(x)[k])
  /\ o.name \in {<<>>, x.name} /\ IsPrefix(o.alpn, x.alpn)
  /\ entire => JA3(o) = JA3(x) /\ o.name = x.name /\ o.alpn = x.alpn

LEMMA GatheredSent ==
  ASSUME NEW types \in Seq(Nat), NEW g \in Seq(Nat), \A k \in 1..Len(g) : IsGREASE(g[k]),
         NEW t, t = g \o types, NEW i \in 0..Len(t), NEW w \in BOOLEAN, NEW o, Gathered(o, i, w, g \o Suites, t, g),
         NEW entire \in BOOLEAN, entire => i = Len(t) /\ w
  PROVE  AsSent(o, Whole(types), entire)
<1>1. Suites \in Seq(Nat) /\ Groups \in Seq(Nat) /\ HostName \in Seq(Nat)
  BY GreaseAssumption
<1>2. t \in Seq(Nat) /\ Len(t) \in Nat
  BY ConcatType
<1>3. PICK x : x = Whole(types)
  OBVIOUS
<1>4. /\ x.suites = Suites /\ x.types = types
      /\ x.name = IF ServerName \in Range(types) THEN HostName ELSE <<>>
      /\ x.alpn = IF Alpn \in Range(types) THEN Protocols ELSE <<>>
      /\ x.groups = IF GroupsExt \in Range(types) THEN Groups ELSE <<>>
      /\ x.points = IF PointsExt \in Range(types) THEN <<0>> ELSE <<>>
  BY <1>3 DEF Whole
<1>5. o \in HelloOut /\ o.suites = g \o Suites /\ o.types = SubSeq(t, 1, i)
  BY DEF Gathered
<1>6. \A type \in {ServerName, Alpn, GroupsExt, PointsExt} :
        /\ type \in Seen(t, i) => type \in Range(types)
        /\ entire => w /\ (type \in Range(types) => type \in Seen(t, i))
  <2>1. SentOnly(t, i, types)
    BY SeenSent
  <2> QED BY <2>1 DEF SentOnly
<1>7. /\ IsPrefix(FilterGREASE(o.suites), FilterGREASE(x.suites))
      /\ FilterGREASE(o.suites) = FilterGREASE(x.suites)
  <2>1. PICK s \in Seq(Nat) : s = g \o Suites
    BY <1>1, ConcatType
  <2>2. IsPrefix(s, s)
    BY PrefixSame
  <2>3. /\ IsPrefix(FilterGREASE(s), FilterGREASE(Suites)) /\ FilterGREASE(s) = FilterGREASE(Suites)
    BY <1>1, <2>1, <2>2, FilterPrefix
  <2> QED BY <1>4, <1>5, <2>1, <2>3
<1>8. /\ IsPrefix(FilterGREASE(o.types), FilterGREASE(x.types))
      /\ entire => FilterGREASE(o.types) = FilterGREASE(x.types)
  <2>1. PICK y : y = SubSeq(t, 1, i)
    OBVIOUS
  <2>2. i \in Int /\ i <= Len(t) /\ i >= 0
    BY <1>2
  <2>3. y \in Seq(Nat)
    BY <1>2, <2>1, <2>2, PrefixType
  <2>4. Len(y) = i /\ \A k \in 1..i : y[k] = t[k]
    BY <1>2, <2>1, <2>2
  <2>5. IsPrefix(y, t)
    BY <1>2, <2>2, <2>3, <2>4, PrefixSame
  <2>6. entire => y = t
    <3>1. i = Len(t) => y = t
      BY <1>2, <2>3, <2>4, SameSeq
    <3> QED BY <3>1
  <2>7. IsPrefix(FilterGREASE(y), FilterGREASE(types)) /\ (y = t => FilterGREASE(y) = FilterGREASE(types))
    BY <2>3, <2>5, FilterPrefix
  <2> QED BY <1>4, <1>5, <2>1, <2>6, <2>7
<1>9. /\ IsPrefix(FilterGREASE(o.groups), FilterGREASE(x.groups))
      /\ entire => FilterGREASE(o.groups) = FilterGREASE(x.groups)
  <2>1. PICK gr, v : gr = g \o Groups /\ v = o.groups
    OBVIOUS
  <2>2. gr \in Seq(Nat) /\ v \in Seq(Nat)
    BY <1>1, <1>5, <2>1, ConcatType DEF HelloOut
  <2>3. GroupsFound(o, i, w, t, gr)
    BY <2>1 DEF Gathered
  <2>4. IsPrefix(v, gr) /\ Field(t, i, w, GroupsExt, v, gr)
    BY <2>1, <2>3 DEF GroupsFound
  <2>5. CASE GroupsExt \in Range(types)
    <3>1. IsPrefix(FilterGREASE(v), FilterGREASE(Groups)) /\ (v = gr => FilterGREASE(v) = FilterGREASE(Groups))
      BY <1>1, <2>1, <2>2, <2>4, FilterPrefix
    <3>2. entire => v = gr
      BY <1>6, <2>4, <2>5 DEF Field
    <3> QED BY <1>4, <2>1, <2>5, <3>1, <3>2
  <2>6. CASE GroupsExt \notin Range(types)
    <3>1. v = <<>> /\ x.groups = <<>>
      BY <1>4, <1>6, <2>4, <2>6 DEF Field
    <3>2. PICK f : f = FilterGREASE(<<>>)
      OBVIOUS
    <3>3. f \in Seq(Nat)
      <4>1. PICK z : z = <<>>
        OBVIOUS
      <4>2. z \in Seq(Nat)
        BY <4>1
      <4>3. PICK h \in [0..Len(z) -> Seq(Nat)] : FilterGREASE(z) = h[Len(z)]
        BY <4>2, FilterLoop
      <4>4. Len(z) \in 0..Len(z)
        BY <4>2
      <4> QED BY <3>2, <4>1, <4>3, <4>4
    <3>4. IsPrefix(f, f)
      BY <3>3, PrefixSame
    <3> QED BY <2>1, <3>1, <3>2, <3>4
  <2> QED BY <2>5, <2>6
<1>10. IsPrefix(o.points, x.points) /\ (entire => o.points = x.points)
  <2>1. PICK z : z = <<0>>
    OBVIOUS
  <2>2. z \in Seq(Nat)
    BY <2>1
  <2>3. IsPrefix(o.points, z) /\ Field(t, i, w, PointsExt, o.points, z)
    BY <2>1 DEF Gathered, PointsFound
  <2>4. x.points = IF PointsExt \in Range(types) THEN z ELSE <<>>
    BY <1>4, <2>1
  <2>5. PICK type, val, y : type = PointsExt /\ val = o.points /\ y = x.points
    OBVIOUS
  <2>6. /\ Field(t, i, w, type, val, z) /\ IsPrefix(val, z)
        /\ y = IF type \in Range(types) THEN z ELSE <<>>
    BY <2>3, <2>4, <2>5
  <2>7. /\ type \in Seen(t, i) => type \in Range(types)
        /\ entire => w /\ (type \in Range(types) => type \in Seen(t, i))
    BY <1>6, <2>5
  <2>8. IsPrefix(val, y) /\ (entire => val = y)
    BY <2>2, <2>6, <2>7, FieldSent
  <2> QED BY <2>5, <2>8
<1>11. IsPrefix(o.alpn, x.alpn) /\ (entire => o.alpn = x.alpn)
  <2>1. PICK S : S = Seq(Nat)
    OBVIOUS
  <2>2. Protocols \in Seq(S)
    <3>1. PICK u, v \in S : Protocols = <<u, v>>
      <4>1. <<104, 50>> \in Seq(Nat) /\ <<104>> \in Seq(Nat)
        OBVIOUS
      <4> QED BY <2>1, <4>1 DEF Protocols
    <3> QED BY <3>1
  <2>3. IsPrefix(o.alpn, Protocols) /\ Field(t, i, w, Alpn, o.alpn, Protocols)
    BY DEF Gathered, AlpnFound
  <2>4. PICK type, val, y : type = Alpn /\ val = o.alpn /\ y = x.alpn
    OBVIOUS
  <2>5. /\ Field(t, i, w, type, val, Protocols) /\ IsPrefix(val, Protocols)
        /\ y = IF type \in Range(types) THEN Protocols ELSE <<>>
    BY <1>4, <2>3, <2>4
  <2>6. /\ type \in Seen(t, i) => type \in Range(types)
        /\ entire => w /\ (type \in Range(types) => type \in Seen(t, i))
    BY <1>6, <2>4
  <2>7. IsPrefix(val, y) /\ (entire => val = y)
    BY <2>2, <2>5, <2>6, FieldSent
  <2> QED BY <2>4, <2>7
<1>12. o.name \in {<<>>, x.name} /\ (entire => o.name = x.name)
  <2>1. o.name \in {<<>>, HostName} /\ Field(t, i, w, ServerName, o.name, HostName)
    BY DEF Gathered, NameFound
  <2>2. CASE ServerName \in Range(types)
    BY <1>4, <1>6, <2>1, <2>2 DEF Field
  <2>3. CASE ServerName \notin Range(types)
    BY <1>4, <1>6, <2>1, <2>3 DEF Field
  <2> QED BY <2>2, <2>3
<1>13. PICK a1, a2, a3, a4, b1, b2, b3, b4 :
         /\ a1 = FilterGREASE(o.suites) /\ a2 = FilterGREASE(o.types) /\ a3 = FilterGREASE(o.groups)
         /\ a4 = o.points /\ b1 = FilterGREASE(x.suites) /\ b2 = FilterGREASE(x.types)
         /\ b3 = FilterGREASE(x.groups) /\ b4 = x.points
  OBVIOUS
<1>14. JA3(o) = <<a1, a2, a3, a4>> /\ JA3(x) = <<b1, b2, b3, b4>>
  BY <1>13 DEF JA3
<1>15. /\ IsPrefix(a1, b1) /\ IsPrefix(a2, b2) /\ IsPrefix(a3, b3) /\ IsPrefix(a4, b4)
       /\ entire => a1 = b1 /\ a2 = b2 /\ a3 = b3 /\ a4 = b4
  BY <1>7, <1>8, <1>9, <1>10, <1>13
<1>16. \A k \in 1..4 : IsPrefix(JA3(o)[k], JA3(x)[k])
  <2>1. \A k \in 1..4 : k = 1 \/ k = 2 \/ k = 3 \/ k = 4
    OBVIOUS
  <2>2. /\ JA3(o)[1] = a1 /\ JA3(o)[2] = a2 /\ JA3(o)[3] = a3 /\ JA3(o)[4] = a4
        /\ JA3(x)[1] = b1 /\ JA3(x)[2] = b2 /\ JA3(x)[3] = b3 /\ JA3(x)[4] = b4
    BY <1>14
  <2> QED BY <1>15, <2>1, <2>2, Zenon
<1>17. entire => JA3(o) = JA3(x)
  BY <1>14, <1>15
<1> QED BY <1>3, <1>11, <1>12, <1>16, <1>17 DEF AsSent

(* hs is the first m units of a hello; a is the length of the session id,  *)
(* s the cipher suites, b of them, t the types of the extensions, g the    *)
(* GREASE values in front of lists, e where the extensions end.            *)
ExtensionAt(hs, m, p, body, type) ==
  /\ p + 1 <= m => hs[p + 1] = type
  /\ p + 2 <= m => hs[p + 2] = Len(body)
  /\ \A k \in 1..Len(body) : p + 2 + k <= m => hs[p + 2 + k] = body[k]

Wire(hs, m, a, b, s, t, g, e) ==
  /\ hs \in Seq(Nat) /\ m = Len(hs) /\ m \in Nat /\ a \in Nat /\ b \in Nat
  /\ s \in Seq(Nat) /\ b = Len(s) /\ t \in Seq(Nat) /\ g \in Seq(Nat)
  /\ e \in [0..Len(t) -> Nat] /\ e[0] = 0 /\ m <= a + b + 6 + e[Len(t)]
  /\ 2 <= m => hs[2] = a
  /\ a + 3 <= m => hs[a + 3] = b
  /\ \A k \in 1..b : a + 3 + k <= m => hs[a + 3 + k] = s[k]
  /\ a + b + 4 <= m => hs[a + b + 4] = 1
  /\ a + b + 6 <= m => hs[a + b + 6] = e[Len(t)]
  /\ \A i \in 1..Len(t) :
       /\ e[i] = e[i - 1] + 2 + Len(Body(t[i], g)) /\ e[i] <= e[Len(t)]
       /\ ExtensionAt(hs, m, a + b + 6 + e[i - 1], Body(t[i], g), t[i])

Wired(h, sid, m, a, b, s, t, g, e) ==
  /\ Wire(SubSeq(h, 1, m), m, a, b, s, t, g, e)
  /\ Len(h) = a + b + 6 + e[Len(t)] /\ Mandatory(sid, g) = a + b + 5

LEMMA WireMade ==
  ASSUME NEW sid \in Seq(Nat), NEW types \in Seq(Nat), NEW g \in Seq(Nat),
         NEW h, h = Hello(sid, types, g), NEW m \in Nat, m <= Len(h),
         NEW a, a = Len(sid), NEW s, s = g \o Suites, NEW b, b = Len(s),
         NEW t, t = g \o types, NEW e, e = ExtEnds(t, g)
  PROVE  Wired(h, sid, m, a, b, s, t, g, e)
<1>1. s \in Seq(Nat) /\ t \in Seq(Nat)
  BY ConcatType, GreaseAssumption
<1>2. PICK x : x = Extensions(t, g)
  OBVIOUS
<1>3. /\ x \in Seq(Nat) /\ e \in [0..Len(t) -> Nat] /\ e[0] = 0 /\ e[Len(t)] = Len(x)
      /\ \A i \in 1..Len(t) :
           /\ e[i] = e[i - 1] + 2 + Len(Body(t[i], g)) /\ e[i] <= Len(x)
           /\ x[e[i - 1] + 1] = t[i] /\ x[e[i - 1] + 2] = Len(Body(t[i], g))
           /\ \A k \in 1..Len(Body(t[i], g)) : x[e[i - 1] + 2 + k] = Body(t[i], g)[k]
  <2>1. ExtensionsLaid(x, t, g, e)
    BY <1>1, <1>2, ExtensionsLayout
  <2> QED BY <2>1 DEF ExtensionsLaid
<1>4. h = HelloOf(sid, s, x)
  BY <1>2 DEF Hello, HelloOf
<1>5. /\ a \in Nat /\ b \in Nat /\ h \in Seq(Nat) /\ Len(h) = a + b + 6 + Len(x)
      /\ h[2] = a /\ h[a + 3] = b /\ \A k \in 1..b : h[a + 3 + k] = s[k]
      /\ h[a + b + 4] = 1
      /\ h[a + b + 6] = Len(x) /\ \A k \in 1..Len(x) : h[a + b + 6 + k] = x[k]
  <2>1. x \in Seq(Nat)
    BY <1>3
  <2>2. HelloLaid(h, a, b, s, x)
    BY <1>1, <1>4, <2>1, HelloLayout
  <2> QED BY <2>2 DEF HelloLaid
<1>6. PICK hs : hs = SubSeq(h, 1, m)
  OBVIOUS
<1>7. hs \in Seq(Nat) /\ Len(hs) = m /\ \A k \in 1..m : hs[k] = h[k]
  <2>1. h \in Seq(Nat)
    BY <1>5
  <2>2. hs \in Seq(Nat)
    BY <1>6, <2>1, PrefixType
  <2>3. Len(hs) = m /\ \A k \in 1..m : hs[k] = h[k]
    BY <1>6, <2>1
  <2> QED BY <2>2, <2>3
<1>8. a \in Nat /\ b \in Nat /\ Len(x) \in Nat
  BY <1>3, <1>5
<1>9. /\ 2 <= m => hs[2] = a
      /\ a + 3 <= m => hs[a + 3] = b
      /\ a + b + 4 <= m => hs[a + b + 4] = 1
      /\ a + b + 6 <= m => hs[a + b + 6] = e[Len(t)]
  <2>1. /\ 2 <= m => 2 \in 1..m
        /\ a + 3 <= m => a + 3 \in 1..m
        /\ a + b + 4 <= m => a + b + 4 \in 1..m
        /\ a + b + 6 <= m => a + b + 6 \in 1..m
    BY <1>8
  <2>2. e[Len(t)] = Len(x)
    BY <1>3
  <2>3. h[2] = a /\ h[a + 3] = b /\ h[a + b + 4] = 1 /\ h[a + b + 6] = Len(x)
    BY <1>5
  <2> QED BY <1>7, <2>1, <2>2, <2>3
<1>10. ASSUME NEW k \in 1..b, a + 3 + k <= m PROVE hs[a + 3 + k] = s[k]
  <2>1. a + 3 + k \in 1..m
    BY <1>8, <1>10
  <2> QED BY <1>5, <1>7, <2>1
<1>11. ASSUME NEW i \in 1..Len(t)
       PROVE  /\ e[i] = e[i - 1] + 2 + Len(Body(t[i], g)) /\ e[i] <= e[Len(t)]
              /\ ExtensionAt(hs, m, a + b + 6 + e[i - 1], Body(t[i], g), t[i])
  <2>1. PICK f, p, body, type : f = e[i - 1] /\ p = a + b + 6 + f /\ body = Body(t[i], g) /\ type = t[i]
    OBVIOUS
  <2>2. /\ e[i] = f + 2 + Len(body) /\ e[i] <= Len(x) /\ x[f + 1] = type /\ x[f + 2] = Len(body)
        /\ \A k \in 1..Len(body) : x[f + 2 + k] = body[k]
    BY <1>3, <2>1, ZenonT(40)
  <2>3. f \in Nat /\ p \in Nat /\ Len(body) \in Nat
    <3>1. i - 1 \in 0..Len(t) /\ Len(t) \in Nat
      BY <1>1
    <3>2. f \in Nat
      BY <1>3, <2>1, <3>1
    <3>3. t[i] \in Nat
      BY <1>1, SMTT(30)
    <3>4. body \in Seq(Nat)
      BY <2>1, <3>3, BodyType
    <3>5. p = a + b + 6 + f
      BY <2>1
    <3>6. Len(body) \in Nat
      BY <3>4
    <3> QED BY <1>8, <3>2, <3>5, <3>6
  <2>4. f + 2 + Len(body) <= Len(x)
    BY <2>2
  <2>5. ASSUME NEW k \in 1..Len(x), p - f + k <= m PROVE hs[p - f + k] = x[k]
    <3>1. p - f + k = a + b + 6 + k /\ p - f + k \in 1..m
      <4>1. p = a + b + 6 + f
        BY <2>1
      <4> QED BY <1>8, <2>3, <2>5, <4>1
    <3>2. h[a + b + 6 + k] = x[k]
      BY <1>5
    <3> QED BY <1>7, <3>1, <3>2
  <2>6. p + 1 <= m => hs[p + 1] = type
    <3>1. f + 1 \in 1..Len(x) /\ p - f + (f + 1) = p + 1
      BY <1>8, <2>3, <2>4
    <3>2. x[f + 1] = type
      BY <2>2
    <3> QED BY <2>5, <3>1, <3>2
  <2>7. p + 2 <= m => hs[p + 2] = Len(body)
    <3>1. f + 2 \in 1..Len(x) /\ p - f + (f + 2) = p + 2
      BY <1>8, <2>3, <2>4
    <3>2. x[f + 2] = Len(body)
      BY <2>2
    <3> QED BY <2>5, <3>1, <3>2
  <2>8. ASSUME NEW k \in 1..Len(body), p + 2 + k <= m PROVE hs[p + 2 + k] = body[k]
    <3>1. f + 2 + k \in 1..Len(x) /\ p - f + (f + 2 + k) = p + 2 + k
      BY <1>8, <2>3, <2>4
    <3>2. x[f + 2 + k] = body[k]
      BY <2>2
    <3> QED BY <2>5, <2>8, <3>1, <3>2
  <2>9. ExtensionAt(hs, m, p, body, type)
    BY <2>6, <2>7, <2>8 DEF ExtensionAt
  <2>10. e[i] <= e[Len(t)]
    BY <1>3, <2>2
  <2> QED BY <2>1, <2>2, <2>9, <2>10
<1>12. Len(h) = a + b + 6 + e[Len(t)]
  BY <1>3, <1>5
<1>13. Wire(hs, m, a, b, s, t, g, e)
  <2>1. m <= a + b + 6 + e[Len(t)]
    BY <1>12
  <2>2. e \in [0..Len(t) -> Nat] /\ e[0] = 0
    BY <1>3
  <2> QED BY <1>1, <1>7, <1>8, <1>9, <1>10, <1>11, <2>1, <2>2 DEF Wire
<1>14. Mandatory(sid, g) = a + b + 5
  <2>1. Len(Prefixed(sid)) = a + 1 /\ Len(Prefixed(s)) = b + 1
    BY <1>1, PrefixedAt
  <2>2. Mandatory(sid, g) = 1 + Len(Prefixed(sid)) + Len(Prefixed(s)) + 2
    BY DEF Mandatory
  <2> QED BY <1>8, <2>1, <2>2
<1> QED BY <1>6, <1>12, <1>13, <1>14 DEF Wired

HelloLocals == [at : {"record", "sid", "suites", "compression", "extensions", "loop"},
                hs : Seq(Nat), off : Nat, end : Int]

NoneYet == [suites |-> <<>>, types |-> <<>>, name |-> <<>>, alpn |-> <<>>, groups |-> <<>>,
            points |-> <<>>]

(* The loop has read i extensions.                                         *)
AtExtension(o, i, m, a, b, s, t, g, e) ==
  i \in 0..Len(t) /\ Gathered(o, i, a + b + 6 + e[i] <= m, s, t, g)

(* Where parseClientHello is in a hello, and what it has read of it.       *)
ReadingHello(l, o, hs, m, a, b, s, t, g, e) ==
  /\ l \in HelloLocals
  /\ l.at # "record" => l.hs = hs /\ m >= 4
  /\ l.at \in {"record", "sid", "suites"} => o = NoneYet
  /\ l.at = "sid" => l.off = 1
  /\ l.at = "suites" => l.off = a + 2 /\ a + 2 <= m
  /\ l.at = "compression" => l.off = a + b + 3 /\ a + b + 3 <= m
  /\ l.at = "extensions" => l.off = a + b + 5 /\ a + b + 5 <= m
  /\ l.at \in {"compression", "extensions"} => AtExtension(o, 0, m, a, b, s, t, g, e)
  /\ l.at = "loop" => /\ l.end = m /\ a + b + 6 <= m
                      /\ \E i : l.off = a + b + 6 + e[i] /\ AtExtension(o, i, m, a, b, s, t, g, e)

(* What it has read when it returns.                                       *)
HelloResult(o, m, a, b, s, t, g, e) ==
  /\ a + b + 5 <= m
  /\ \E i : /\ AtExtension(o, i, m, a, b, s, t, g, e)
            /\ m = a + b + 6 + e[Len(t)] => i = Len(t)

HelloProgress(l, o, st, hs, m, a, b, s, t, g, e) ==
  /\ st \in {"run", "err", "ok"}
  /\ st = "run" => ReadingHello(l, o, hs, m, a, b, s, t, g, e)
  /\ st = "err" => m < a + b + 5
  /\ st = "ok" => HelloResult(o, m, a, b, s, t, g, e)

(* The record holds hs, behind the headers.                                *)
Headed(data, payload, hs) ==
  /\ data \in Seq(Nat) /\ Len(data) >= 2 /\ data[1] = 22
  /\ payload = Slice(data, 2, data[2]) /\ payload \in Seq(Nat) /\ Len(payload) >= 2
  /\ payload[1] = 1 /\ hs = Slice(payload, 2, payload[2])

LEMMA RecordProgress ==
  ASSUME NEW hs, NEW m, NEW a, NEW b, NEW s, NEW t, NEW g, NEW e, NEW payload,
         Wire(hs, m, a, b, s, t, g, e), Headed(call.data, payload, hs),
         HelloProgress(local, out, status, hs, m, a, b, s, t, g, e), Record
  PROVE  HelloProgress(local', out', status', hs, m, a, b, s, t, g, e)
<1>1. hs \in Seq(Nat) /\ m = Len(hs) /\ m \in Nat /\ a \in Nat /\ b \in Nat
  BY DEF Wire
<1>2. ~(Len(call.data) < 2 \/ call.data[1] # 22 \/ Len(payload) < 2) /\ ~(payload[1] # 1)
  BY DEF Headed
<1>3. payload = Slice(call.data, 2, call.data[2]) /\ hs = Slice(payload, 2, payload[2])
  BY DEF Headed
<1>4. status = "run" /\ local.at = "record"
  BY DEF Record, Running
<1>5. local \in HelloLocals /\ out = NoneYet
  BY <1>4 DEF HelloProgress, ReadingHello
<1>6. IF m < 4 THEN Return("err")
      ELSE /\ local' = [local EXCEPT !.at = "sid", !.hs = hs, !.off = 1]
           /\ UNCHANGED <<call, out, status>>
  BY <1>1, <1>2, <1>3 DEF Record
<1>7. CASE m < 4
  <2>1. status' = "err"
    BY <1>6, <1>7 DEF Return
  <2>2. m < a + b + 5
    BY <1>1, <1>7
  <2> QED BY <2>1, <2>2 DEF HelloProgress
<1>8. CASE ~(m < 4)
  <2>1. local' = [local EXCEPT !.at = "sid", !.hs = hs, !.off = 1] /\ out' = NoneYet /\ status' = "run"
    BY <1>4, <1>5, <1>6, <1>8
  <2>2. local' \in HelloLocals /\ local'.at = "sid" /\ local'.hs = hs /\ local'.off = 1
    BY <1>1, <1>5, <2>1 DEF HelloLocals
  <2>3. m >= 4
    BY <1>1, <1>8
  <2> QED BY <2>1, <2>2, <2>3 DEF HelloProgress, ReadingHello
<1> QED BY <1>7, <1>8

LEMMA SidProgress ==
  ASSUME NEW hs, NEW m, NEW a, NEW b, NEW s, NEW t, NEW g, NEW e,
         Wire(hs, m, a, b, s, t, g, e),
         HelloProgress(local, out, status, hs, m, a, b, s, t, g, e), Vector("sid", "suites")
  PROVE  HelloProgress(local', out', status', hs, m, a, b, s, t, g, e)
<1>1. hs \in Seq(Nat) /\ m = Len(hs) /\ m \in Nat /\ a \in Nat /\ b \in Nat
  BY DEF Wire
<1>2. status = "run" /\ local.at = "sid"
  BY DEF Vector, Running
<1>3. local \in HelloLocals /\ out = NoneYet /\ local.hs = hs /\ m >= 4 /\ local.off = 1
  BY <1>2 DEF HelloProgress, ReadingHello
<1>4. hs[2] = a
  BY <1>1, <1>3 DEF Wire
<1>5. Length = m /\ U(local.off) = a /\ local.off + 1 + U(local.off) = a + 2
  BY <1>1, <1>3, <1>4 DEF Length, U
<1>6. IF a + 2 > m THEN Return("err")
      ELSE /\ local' = [local EXCEPT !.at = "suites", !.off = a + 2]
           /\ UNCHANGED <<call, out, status>>
  <2>1. ~(local.off >= Length)
    BY <1>1, <1>3, <1>5
  <2> QED BY <1>5, <2>1 DEF Vector
<1>7. CASE a + 2 > m
  <2>1. status' = "err"
    BY <1>6, <1>7 DEF Return
  <2>2. m < a + b + 5
    BY <1>1, <1>7
  <2> QED BY <2>1, <2>2 DEF HelloProgress
<1>8. CASE ~(a + 2 > m)
  <2>1. local' = [local EXCEPT !.at = "suites", !.off = a + 2] /\ out' = NoneYet /\ status' = "run"
    BY <1>2, <1>3, <1>6, <1>8
  <2>2. a + 2 \in Nat /\ a + 2 <= m
    BY <1>1, <1>8
  <2>3. local' \in HelloLocals /\ local'.at = "suites" /\ local'.hs = hs /\ local'.off = a + 2
    BY <1>3, <2>1, <2>2 DEF HelloLocals
  <2> QED BY <1>3, <2>1, <2>2, <2>3 DEF HelloProgress, ReadingHello
<1> QED BY <1>7, <1>8

LEMMA SuitesProgress ==
  ASSUME NEW hs, NEW m, NEW a, NEW b, NEW s, NEW t, NEW g, NEW e,
         Wire(hs, m, a, b, s, t, g, e),
         HelloProgress(local, out, status, hs, m, a, b, s, t, g, e), CipherSuites
  PROVE  HelloProgress(local', out', status', hs, m, a, b, s, t, g, e)
<1>1. hs \in Seq(Nat) /\ m = Len(hs) /\ m \in Nat /\ a \in Nat /\ b \in Nat /\ s \in Seq(Nat) /\ b = Len(s)
  BY DEF Wire
<1>2. status = "run" /\ local.at = "suites"
  BY DEF CipherSuites, Running
<1>3. local \in HelloLocals /\ out = NoneYet /\ local.hs = hs /\ m >= 4 /\ local.off = a + 2 /\ a + 2 <= m
  BY <1>2 DEF HelloProgress, ReadingHello
<1>4. Length = m
  BY <1>1, <1>3 DEF Length
<1>5. CASE a + 2 >= m
  <2>1. Return("err")
    BY <1>3, <1>4, <1>5 DEF CipherSuites
  <2>2. status' = "err"
    BY <2>1 DEF Return
  <2>3. m < a + b + 5
    BY <1>1, <1>5
  <2> QED BY <2>2, <2>3 DEF HelloProgress
<1>6. CASE ~(a + 2 >= m)
  <2>1. a + 3 <= m /\ (a + 2) + 1 = a + 3
    BY <1>1, <1>6
  <2>2. hs[a + 3] = b
    BY <2>1 DEF Wire
  <2>3. U(local.off) = b
    BY <1>3, <2>1, <2>2 DEF U
  <2>4. local.off + 1 + U(local.off) = a + b + 3 /\ local.off + 1 = a + 3
    <3>1. a \in Nat /\ b \in Nat /\ local.off = a + 2
      BY <1>1, <1>3
    <3>2. (a + 2) + 1 + b = a + b + 3 /\ (a + 2) + 1 = a + 3
      BY <3>1
    <3> QED BY <2>3, <3>1, <3>2
  <2>5. IF a + b + 3 > m THEN Return("err")
        ELSE /\ out' = [out EXCEPT !.suites = Slice(hs, a + 3, b)]
             /\ local' = [local EXCEPT !.at = "compression", !.off = a + b + 3]
             /\ UNCHANGED <<call, status>>
    BY <1>3, <1>4, <1>6, <2>3, <2>4 DEF CipherSuites
  <2>6. CASE a + b + 3 > m
    <3>1. status' = "err"
      BY <2>5, <2>6 DEF Return
    <3>2. m < a + b + 5
      BY <1>1, <2>6
    <3> QED BY <3>1, <3>2 DEF HelloProgress
  <2>7. CASE ~(a + b + 3 > m)
    <3>1. Slice(hs, a + 3, b) = s
      <4>1. PICK i \in Nat : i = a + 3
        BY <1>1
      <4>2. i <= Len(hs) /\ ~(b > Len(hs) - i)
        BY <1>1, <2>7, <4>1
      <4>3. PICK x : x = Slice(hs, i, b)
        OBVIOUS
      <4>4. /\ x \in Seq(Nat) /\ Len(x) = IF b < Len(hs) - i THEN b ELSE Len(hs) - i
            /\ \A k \in 1..Len(x) : x[k] = hs[i + k]
        <5>1. i <= Len(hs)
          BY <4>2
        <5>2. /\ Slice(hs, i, b) \in Seq(Nat)
              /\ Len(Slice(hs, i, b)) = IF b < Len(hs) - i THEN b ELSE Len(hs) - i
              /\ \A k \in 1..Len(Slice(hs, i, b)) : Slice(hs, i, b)[k] = hs[i + k]
          BY <1>1, <5>1, SliceAt, ZenonT(40)
        <5> QED BY <4>3, <5>2
      <4>5. Len(x) = b
        BY <1>1, <4>2, <4>4
      <4>6. ASSUME NEW k \in 1..Len(x) PROVE x[k] = s[k]
        <5>1. k \in 1..b /\ i + k = a + 3 + k /\ a + 3 + k <= m
          BY <1>1, <2>7, <4>1, <4>5
        <5>2. hs[a + 3 + k] = s[k]
          BY <5>1 DEF Wire
        <5> QED BY <4>4, <5>1, <5>2
      <4>7. x = s
        BY <1>1, <4>4, <4>5, <4>6, SameSeq
      <4> QED BY <4>1, <4>3, <4>7
    <3>2. /\ out' = [NoneYet EXCEPT !.suites = s] /\ status' = "run"
          /\ local' = [local EXCEPT !.at = "compression", !.off = a + b + 3]
      BY <1>2, <1>3, <2>5, <2>7, <3>1
    <3>3. a + b + 3 \in Nat /\ a + b + 3 <= m
      BY <1>1, <2>7
    <3>4. local' \in HelloLocals /\ local'.at = "compression" /\ local'.hs = hs /\ local'.off = a + b + 3
      BY <1>3, <3>2, <3>3 DEF HelloLocals
    <3>5. AtExtension(out', 0, m, a, b, s, t, g, e)
      <4>1. PICK o : o = out'
        OBVIOUS
      <4>2. /\ o = [suites |-> s, types |-> <<>>, name |-> <<>>, alpn |-> <<>>, groups |-> <<>>, points |-> <<>>]
        BY <3>2, <4>1 DEF NoneYet
      <4>3. o \in HelloOut
        <5>1. <<>> \in Seq(Nat) /\ <<>> \in Seq(Seq(Nat))
          OBVIOUS
        <5> QED BY <1>1, <4>2, <5>1 DEF HelloOut
      <4>4. t \in Seq(Nat) /\ g \in Seq(Nat) /\ Len(t) \in Nat
        BY DEF Wire
      <4>5. 0 \in 0..Len(t) /\ SubSeq(t, 1, 0) = <<>>
        BY <4>4
      <4>6. \A type, full, w : Field(t, 0, w, type, <<>>, full)
        <5>1. 1..0 = {}
          OBVIOUS
        <5>2. \A type : type \notin Seen(t, 0)
          BY <5>1, Zenon DEF Seen
        <5> QED BY <5>2 DEF Field
      <4>7. IsPrefix(<<>>, Protocols) /\ IsPrefix(<<>>, g \o Groups) /\ IsPrefix(<<>>, <<0>>)
        <5>1. PICK S : S = Seq(Nat)
          OBVIOUS
        <5>2. Protocols \in Seq(S)
          <6>1. PICK u, v \in S : Protocols = <<u, v>>
            <7>1. <<104, 50>> \in Seq(Nat) /\ <<104>> \in Seq(Nat)
              OBVIOUS
            <7> QED BY <5>1, <7>1 DEF Protocols
          <6> QED BY <6>1
        <5>3. PICK y, z \in Seq(Nat) : y = g \o Groups /\ z = <<0>>
          <6>1. <<0>> \in Seq(Nat)
            OBVIOUS
          <6> QED BY <4>4, <6>1, ConcatType, GreaseAssumption
        <5>4. IsPrefix(<<>>, Protocols)
          BY <5>2, EmptyPrefix
        <5>5. IsPrefix(<<>>, y) /\ IsPrefix(<<>>, z)
          BY EmptyPrefix
        <5> QED BY <5>3, <5>4, <5>5
      <4>8. /\ o.suites = s /\ o.types = <<>> /\ o.name = <<>> /\ o.alpn = <<>> /\ o.groups = <<>>
            /\ o.points = <<>>
        BY <4>2
      <4>9. ASSUME NEW w PROVE Gathered(o, 0, w, s, t, g)
        BY <4>3, <4>5, <4>6, <4>7, <4>8
           DEF Gathered, NameFound, AlpnFound, GroupsFound, PointsFound
      <4> QED BY <4>1, <4>5, <4>9 DEF AtExtension
    <3> QED BY <1>3, <3>2, <3>3, <3>4, <3>5 DEF HelloProgress, ReadingHello
  <2> QED BY <2>6, <2>7
<1> QED BY <1>5, <1>6

LEMMA CompressionProgress ==
  ASSUME NEW hs, NEW m, NEW a, NEW b, NEW s, NEW t, NEW g, NEW e,
         Wire(hs, m, a, b, s, t, g, e),
         HelloProgress(local, out, status, hs, m, a, b, s, t, g, e), Vector("compression", "extensions")
  PROVE  HelloProgress(local', out', status', hs, m, a, b, s, t, g, e)
<1>1. hs \in Seq(Nat) /\ m = Len(hs) /\ m \in Nat /\ a \in Nat /\ b \in Nat
  BY DEF Wire
<1>2. status = "run" /\ local.at = "compression"
  BY DEF Vector, Running
<1>3. /\ local \in HelloLocals /\ local.hs = hs /\ m >= 4 /\ local.off = a + b + 3 /\ a + b + 3 <= m
      /\ AtExtension(out, 0, m, a, b, s, t, g, e)
  BY <1>2 DEF HelloProgress, ReadingHello
<1>4. Length = m
  BY <1>1, <1>3 DEF Length
<1>5. CASE a + b + 3 >= m
  <2>1. Return("err")
    BY <1>3, <1>4, <1>5 DEF Vector
  <2>2. status' = "err"
    BY <2>1 DEF Return
  <2>3. m < a + b + 5
    BY <1>1, <1>5
  <2> QED BY <2>2, <2>3 DEF HelloProgress
<1>6. CASE ~(a + b + 3 >= m)
  <2>1. a + b + 4 <= m /\ (a + b + 3) + 1 = a + b + 4
    BY <1>1, <1>6
  <2>2. hs[a + b + 4] = 1
    BY <2>1 DEF Wire
  <2>3. U(local.off) = 1
    BY <1>3, <2>1, <2>2 DEF U
  <2>4. local.off + 1 + U(local.off) = a + b + 5
    <3>1. a \in Nat /\ b \in Nat /\ local.off = a + b + 3
      BY <1>1, <1>3
    <3>2. (a + b + 3) + 1 + 1 = a + b + 5
      BY <3>1
    <3> QED BY <2>3, <3>1, <3>2
  <2>5. IF a + b + 5 > m THEN Return("err")
        ELSE /\ local' = [local EXCEPT !.at = "extensions", !.off = a + b + 5]
             /\ UNCHANGED <<call, out, status>>
    BY <1>3, <1>4, <1>6, <2>4 DEF Vector
  <2>6. CASE a + b + 5 > m
    <3>1. status' = "err"
      BY <2>5, <2>6 DEF Return
    <3>2. m < a + b + 5
      BY <1>1, <2>6
    <3> QED BY <3>1, <3>2 DEF HelloProgress
  <2>7. CASE ~(a + b + 5 > m)
    <3>1. local' = [local EXCEPT !.at = "extensions", !.off = a + b + 5] /\ out' = out /\ status' = "run"
      BY <1>2, <2>5, <2>7
    <3>2. a + b + 5 \in Nat /\ a + b + 5 <= m
      BY <1>1, <2>7
    <3>3. local' \in HelloLocals /\ local'.at = "extensions" /\ local'.hs = hs /\ local'.off = a + b + 5
      BY <1>3, <3>1, <3>2 DEF HelloLocals
    <3> QED BY <1>3, <3>1, <3>2, <3>3 DEF HelloProgress, ReadingHello
  <2> QED BY <2>6, <2>7
<1> QED BY <1>5, <1>6

LEMMA LengthProgress ==
  ASSUME NEW hs, NEW m, NEW a, NEW b, NEW s, NEW t, NEW g, NEW e,
         Wire(hs, m, a, b, s, t, g, e),
         HelloProgress(local, out, status, hs, m, a, b, s, t, g, e), ExtensionLength
  PROVE  HelloProgress(local', out', status', hs, m, a, b, s, t, g, e)
<1>1. hs \in Seq(Nat) /\ m = Len(hs) /\ m \in Nat /\ a \in Nat /\ b \in Nat
  BY DEF Wire
<1>2. status = "run" /\ local.at = "extensions"
  BY DEF ExtensionLength, Running
<1>3. /\ local \in HelloLocals /\ local.hs = hs /\ m >= 4 /\ local.off = a + b + 5 /\ a + b + 5 <= m
      /\ AtExtension(out, 0, m, a, b, s, t, g, e)
  BY <1>2 DEF HelloProgress, ReadingHello
<1>4. Length = m
  BY <1>1, <1>3 DEF Length
<1>5. PICK n : n = e[Len(t)]
  OBVIOUS
<1>6. n \in Nat /\ e[0] = 0 /\ m <= a + b + 6 + n
  <2>1. e \in [0..Len(t) -> Nat] /\ t \in Seq(Nat) /\ e[0] = 0 /\ m <= a + b + 6 + e[Len(t)]
    BY DEF Wire
  <2>2. Len(t) \in 0..Len(t)
    BY <2>1
  <2> QED BY <1>5, <2>1, <2>2
<1>7. CASE a + b + 5 >= m
  <2>1. Return("ok")
    BY <1>3, <1>4, <1>7 DEF ExtensionLength
  <2>2. status' = "ok" /\ out' = out
    BY <2>1 DEF Return
  <2>3. m # a + b + 6 + n
    BY <1>1, <1>6, <1>7
  <2>4. HelloResult(out, m, a, b, s, t, g, e)
    BY <1>3, <1>5, <2>3 DEF HelloResult
  <2> QED BY <2>2, <2>4 DEF HelloProgress
<1>8. CASE ~(a + b + 5 >= m)
  <2>1. a + b + 6 <= m /\ (a + b + 5) + 1 = a + b + 6 /\ a + b + 6 \in Nat
    BY <1>1, <1>8
  <2>2. hs[a + b + 6] = n
    BY <1>5, <2>1 DEF Wire
  <2>3. U(local.off) = n
    BY <1>3, <2>1, <2>2 DEF U
  <2>4. Shortest(local.off + 1 + U(local.off), Length) = m
    <3>1. Shortest((a + b + 6) + n, m) = m
      BY <1>1, <1>6, <2>1 DEF Shortest
    <3> QED BY <1>3, <1>4, <2>1, <2>3, <3>1
  <2>5. /\ local' = [local EXCEPT !.at = "loop", !.off = a + b + 6, !.end = m]
        /\ out' = out /\ status' = "run"
    <3>1. ~(local.off >= Length)
      BY <1>3, <1>4, <1>8
    <3>2. local.off + 1 = a + b + 6
      BY <1>3, <2>1
    <3> QED BY <1>2, <2>4, <3>1, <3>2 DEF ExtensionLength
  <2>6. /\ local' \in HelloLocals /\ local'.at = "loop" /\ local'.hs = hs /\ local'.off = a + b + 6
        /\ local'.end = m
    <3>1. m \in Int
      BY <1>1
    <3> QED BY <1>3, <2>1, <2>5, <3>1 DEF HelloLocals
  <2>7. a + b + 6 = a + b + 6 + e[0]
    BY <1>6, <2>1
  <2> QED BY <1>3, <2>1, <2>5, <2>6, <2>7 DEF HelloProgress, ReadingHello
<1> QED BY <1>7, <1>8

LEMMA ExtensionProgress ==
  ASSUME NEW hs, NEW m, NEW a, NEW b, NEW s, NEW t, NEW g, NEW e,
         Wire(hs, m, a, b, s, t, g, e),
         HelloProgress(local, out, status, hs, m, a, b, s, t, g, e), Extension
  PROVE  HelloProgress(local', out', status', hs, m, a, b, s, t, g, e)
<1>1. hs \in Seq(Nat) /\ m = Len(hs) /\ m \in Nat /\ a \in Nat /\ b \in Nat
  BY DEF Wire
<1>2. status = "run" /\ local.at = "loop"
  BY DEF Extension, Running
<1>3. local \in HelloLocals /\ local.hs = hs /\ m >= 4 /\ local.end = m /\ a + b + 6 <= m
  BY <1>2 DEF HelloProgress, ReadingHello
<1>4. PICK i : local.off = a + b + 6 + e[i] /\ AtExtension(out, i, m, a, b, s, t, g, e)
  BY <1>2 DEF HelloProgress, ReadingHello
<1>5. Length = m
  BY <1>1, <1>3 DEF Length
<1>6. /\ s \in Seq(Nat) /\ t \in Seq(Nat) /\ g \in Seq(Nat) /\ e \in [0..Len(t) -> Nat]
      /\ m <= a + b + 6 + e[Len(t)]
      /\ \A j \in 1..Len(t) :
           /\ e[j] = e[j - 1] + 2 + Len(Body(t[j], g)) /\ e[j] <= e[Len(t)]
           /\ ExtensionAt(hs, m, a + b + 6 + e[j - 1], Body(t[j], g), t[j])
  BY DEF Wire
<1>7. i \in 0..Len(t) /\ Gathered(out, i, a + b + 6 + e[i] <= m, s, t, g)
  BY <1>4 DEF AtExtension
<1>8. PICK c, p, f, n : c = Len(t) /\ p = a + b + 6 + f /\ f = e[i] /\ n = e[c]
  OBVIOUS
<1>9. c \in Nat /\ i \in Nat /\ i <= c
  <2>1. c \in Nat
    BY <1>6, <1>8
  <2> QED BY <1>7, <1>8, <2>1
<1>10. f \in Nat /\ n \in Nat
  <2>1. c \in 0..c /\ i \in 0..c
    BY <1>9
  <2> QED BY <1>6, <1>8, <2>1
<1>11. p = a + b + 6 + f /\ local.off = p /\ p \in Nat /\ m <= a + b + 6 + n
  <2>1. p = a + b + 6 + f /\ local.off = p /\ m <= a + b + 6 + n
    BY <1>4, <1>6, <1>8
  <2> QED BY <1>1, <1>10, <2>1
<1>12. ASSUME i < c
       PROVE  \E body : /\ body = Body(t[i + 1], g) /\ body \in Seq(Nat) /\ e[i + 1] = f + 2 + Len(body)
                        /\ f + 2 + Len(body) <= n /\ ExtensionAt(hs, m, p, body, t[i + 1])
  <2>1. i + 1 \in 1..Len(t) /\ (i + 1) - 1 = i
    BY <1>8, <1>9, <1>12
  <2>2. PICK body : body = Body(t[i + 1], g)
    OBVIOUS
  <2>3. t[i + 1] \in Nat
    BY <1>6, <2>1
  <2>4. body \in Seq(Nat)
    BY <1>6, <2>2, <2>3, BodyType
  <2>5. /\ e[i + 1] = e[i] + 2 + Len(body) /\ e[i + 1] <= e[Len(t)]
        /\ ExtensionAt(hs, m, a + b + 6 + e[i], body, t[i + 1])
    BY <1>6, <2>1, <2>2
  <2> QED BY <1>8, <2>2, <2>4, <2>5
<1>13. CASE p + 2 > m
  <2>1. Return("ok")
    BY <1>3, <1>11, <1>13 DEF Extension
  <2>2. status' = "ok" /\ out' = out
    BY <2>1 DEF Return
  <2>3. ASSUME m = a + b + 6 + e[Len(t)] PROVE i = Len(t)
    <3>1. m = a + b + 6 + n
      BY <1>8, <2>3
    <3>2. ASSUME i < c PROVE FALSE
      <4>1. PICK k \in Nat : f + 2 + k <= n
        <5>1. PICK body : body \in Seq(Nat) /\ f + 2 + Len(body) <= n
          BY <1>12, <3>2
        <5>2. Len(body) \in Nat
          BY <5>1
        <5> QED BY <5>1, <5>2
      <4> QED BY <1>1, <1>10, <1>11, <1>13, <3>1, <4>1
    <3> QED BY <1>8, <1>9, <3>2
  <2>4. a + b + 5 <= m
    BY <1>1, <1>3
  <2>5. HelloResult(out, m, a, b, s, t, g, e)
    BY <1>4, <2>3, <2>4 DEF HelloResult
  <2> QED BY <2>2, <2>5 DEF HelloProgress
<1>14. CASE ~(p + 2 > m)
  <2>1. i < c
    <3>1. ASSUME i = c PROVE FALSE
      <4>1. f = n
        BY <1>8, <3>1
      <4> QED BY <1>1, <1>10, <1>11, <1>14, <4>1
    <3> QED BY <1>9, <3>1
  <2>2. PICK body : /\ body = Body(t[i + 1], g) /\ body \in Seq(Nat) /\ e[i + 1] = f + 2 + Len(body)
                    /\ f + 2 + Len(body) <= n /\ ExtensionAt(hs, m, p, body, t[i + 1])
    BY <1>12, <2>1
  <2>3. PICK type, k : type = t[i + 1] /\ k = Len(body)
    OBVIOUS
  <2>4. k \in Nat
    BY <2>2, <2>3
  <2>5. p + 2 <= m /\ p + 1 <= m
    BY <1>1, <1>11, <1>14
  <2>6. /\ hs[p + 1] = type /\ hs[p + 2] = k
        /\ \A j \in 1..k : p + 2 + j <= m => hs[p + 2 + j] = body[j]
    BY <2>2, <2>3, <2>5 DEF ExtensionAt
  <2>7. U(local.off) = type /\ U(local.off + 1) = k /\ local.off + 2 = p + 2
    <3>1. (p + 1) + 1 = p + 2
      BY <1>11
    <3> QED BY <1>3, <1>11, <2>6, <3>1 DEF U
  <2>8. PICK data : data = Slice(hs, p + 2, k)
    OBVIOUS
  <2>9. /\ out' = NextOut(out, type, data) /\ local' = [local EXCEPT !.off = p + 2 + k]
        /\ status' = "run"
    <3>1. ~(local.off + 2 > local.end) /\ ~(local.off + 1 >= Length)
      BY <1>1, <1>3, <1>5, <1>11, <1>14
    <3>2. data = Slice(local.hs, local.off + 2, U(local.off + 1))
      BY <1>3, <2>7, <2>8
    <3> QED BY <1>2, <1>11, <2>7, <3>1, <3>2 DEF Extension, NextOut
  <2>10. /\ data \in Seq(Nat) /\ Len(data) = (IF k < m - (p + 2) THEN k ELSE m - (p + 2))
         /\ \A j \in 1..Len(data) : data[j] = hs[p + 2 + j]
    <3>1. PICK q \in Nat : q = p + 2
      BY <1>11
    <3>2. q <= Len(hs)
      BY <1>1, <2>5, <3>1
    <3>3. /\ Slice(hs, q, k) \in Seq(Nat)
          /\ Len(Slice(hs, q, k)) = IF k < Len(hs) - q THEN k ELSE Len(hs) - q
          /\ \A j \in 1..Len(Slice(hs, q, k)) : Slice(hs, q, k)[j] = hs[q + j]
      BY <1>1, <2>4, <3>2, SliceAt
    <3> QED BY <1>1, <2>8, <3>1, <3>3
  <2>11. PICK d \in Nat : d = Len(data)
    BY <2>10
  <2>12. d <= k /\ p + 2 + d <= m /\ (p + 2 + k <= m => d = k)
    <3>1. d = IF k < m - (p + 2) THEN k ELSE m - (p + 2)
      BY <2>10, <2>11
    <3> QED BY <1>1, <1>11, <2>4, <2>5, <3>1, SMTT(30)
  <2>13. ASSUME NEW j \in 1..d PROVE data[j] = body[j]
    <3>1. j \in 1..k /\ p + 2 + j <= m
      BY <1>1, <1>11, <2>4, <2>12
    <3> QED BY <2>6, <2>10, <2>11, <3>1
  <2>14. IsPrefix(data, body)
    BY <2>2, <2>3, <2>10, <2>11, <2>12, <2>13, PrefixSame
  <2>15. p + 2 + k <= m => data = body
    BY <2>2, <2>3, <2>10, <2>11, <2>12, <2>13, SameSeq
  <2>16. a + b + 6 + e[i + 1] = p + 2 + k /\ p + 2 + k \in Nat
    <3>1. e[i + 1] = f + 2 + k
      BY <2>2, <2>3
    <3> QED BY <1>1, <1>10, <1>11, <2>4, <3>1
  <2>17. Gathered(out', i + 1, p + 2 + k <= m, s, t, g)
    <3>1. PICK w1, w2 : w1 = (p <= m) /\ w2 = (p + 2 + k <= m)
      OBVIOUS
    <3>2. w2 => w1 /\ data = Body(type, g)
      <4>1. p <= m
        BY <1>1, <1>11, <2>5
      <4> QED BY <2>2, <2>3, <2>15, <3>1, <4>1
    <3>3. Gathered(out, i, w1, s, t, g)
      BY <1>7, <1>8, <1>11, <3>1
    <3>4. i < Len(t) /\ i \in Nat /\ IsPrefix(data, Body(type, g)) /\ type = t[i + 1]
      BY <1>8, <1>9, <2>1, <2>2, <2>3, <2>14
    <3>5. Gathered(NextOut(out, type, data), i + 1, w2, s, t, g)
      BY <1>6, <2>10, <3>2, <3>3, <3>4, GatheredNext
    <3> QED BY <2>9, <3>1, <3>5
  <2>18. i + 1 \in 0..Len(t)
    BY <1>8, <1>9, <2>1
  <2>19. AtExtension(out', i + 1, m, a, b, s, t, g, e)
    BY <2>16, <2>17, <2>18 DEF AtExtension
  <2>20. /\ local' \in HelloLocals /\ local'.at = "loop" /\ local'.hs = hs
         /\ local'.off = a + b + 6 + e[i + 1] /\ local'.end = m
    BY <1>2, <1>3, <2>9, <2>16 DEF HelloLocals
  <2> QED BY <1>3, <2>9, <2>19, <2>20 DEF HelloProgress, ReadingHello
<1> QED BY <1>13, <1>14

Sliced(v, s, i, n) ==
  /\ v \in Seq(Nat) /\ Len(v) = IF n < Len(s) - i THEN n ELSE Len(s) - i
  /\ \A k \in 1..Len(v) : v[k] = s[i + k]

LEMMA SliceTaken ==
  ASSUME NEW s \in Seq(Nat), NEW i \in Nat, NEW n \in Nat, i <= Len(s)
  PROVE  Sliced(Slice(s, i, n), s, i, n)
BY SliceAt DEF Sliced

(* Parse finds the hello behind the two headers, as much of it as there is *)
(* in the chunk and the record.                                            *)
LEMMA RecordRead ==
  ASSUME NEW h \in Seq(Nat), NEW kept \in Nat, kept <= Len(h), NEW record,
         record = RecordOf(22, 1, h, kept),
         NEW n \in Nat, n >= 4, n <= Len(record), NEW more \in Seq(Nat), n < Len(record) => more = <<>>,
         NEW data, data = ChunkOf(record, n, more), NEW payload, payload = PayloadOf(data)
  PROVE  n - 4 \in Nat /\ n - 4 <= Len(h) /\ Headed(data, payload, SubSeq(h, 1, n - 4))
<1>1. PICK c \in Nat : c = Len(h)
  OBVIOUS
<1>2. PICK x : x = SubSeq(h, 1, kept)
  OBVIOUS
<1>3. x \in Seq(Nat) /\ Len(x) = kept /\ \A k \in 1..kept : x[k] = h[k]
  <2>1. x \in Seq(Nat)
    BY <1>2, PrefixType
  <2>2. Len(x) = kept /\ \A k \in 1..kept : x[k] = h[k]
    BY <1>2
  <2> QED BY <2>1, <2>2
<1>4. PICK y : y = <<1, c>> \o x
  OBVIOUS
<1>5. y \in Seq(Nat) /\ Len(y) = kept + 2 /\ y[1] = 1 /\ y[2] = c /\ \A k \in 1..kept : y[2 + k] = h[k]
  <2>1. PICK z : z = <<1, c>>
    OBVIOUS
  <2>2. z \in Seq(Nat) /\ Len(z) = 2 /\ z[1] = 1 /\ z[2] = c
    BY <2>1
  <2>3. /\ y \in Seq(Nat) /\ Len(y) = Len(z) + Len(x) /\ \A k \in 1..Len(z) : y[k] = z[k]
        /\ \A k \in 1..Len(x) : y[Len(z) + k] = x[k]
    BY <1>3, <1>4, <2>1, <2>2, JoinedAt
  <2>4. 1 \in 1..Len(z) /\ 2 \in 1..Len(z)
    BY <2>2
  <2>5. y[1] = 1 /\ y[2] = c
    BY <2>2, <2>3, <2>4
  <2>6. \A k \in 1..kept : y[2 + k] = h[k]
    BY <1>3, <2>2, <2>3
  <2>7. Len(y) = kept + 2
    <3>1. Len(z) = 2 /\ Len(x) = kept /\ Len(y) = Len(z) + Len(x)
      BY <1>3, <2>2, <2>3
    <3> QED BY <3>1
  <2> QED BY <2>3, <2>5, <2>6, <2>7
<1>6. PICK r : r = Prefixed(y)
  OBVIOUS
<1>7. r \in Seq(Nat) /\ Len(r) = kept + 3 /\ r[1] = kept + 2 /\ \A k \in 1..kept + 2 : r[k + 1] = y[k]
  <2>1. r \in Seq(Nat) /\ Len(r) = Len(y) + 1 /\ r[1] = Len(y) /\ \A k \in 1..Len(y) : r[k + 1] = y[k]
    BY <1>5, <1>6, PrefixedAt
  <2>2. Len(y) = kept + 2
    BY <1>5
  <2> QED BY <2>1, <2>2
<1>8. record = <<22>> \o r
  BY <1>1, <1>2, <1>4, <1>6 DEF RecordOf
<1>9. /\ record \in Seq(Nat) /\ Len(record) = kept + 4 /\ record[1] = 22 /\ record[2] = kept + 2
      /\ \A k \in 1..kept + 2 : record[2 + k] = y[k]
  <2>1. PICK z : z = <<22>>
    OBVIOUS
  <2>2. z \in Seq(Nat) /\ Len(z) = 1 /\ z[1] = 22
    BY <2>1
  <2>3. /\ record \in Seq(Nat) /\ Len(record) = Len(z) + Len(r) /\ \A k \in 1..Len(z) : record[k] = z[k]
        /\ \A k \in 1..Len(r) : record[Len(z) + k] = r[k]
    <3>1. z \in Seq(Nat) /\ r \in Seq(Nat)
      BY <1>7, <2>2
    <3>2. /\ z \o r \in Seq(Nat) /\ Len(z \o r) = Len(z) + Len(r)
          /\ \A k \in 1..Len(z) : (z \o r)[k] = z[k]
          /\ \A k \in 1..Len(r) : (z \o r)[Len(z) + k] = r[k]
      BY <3>1, JoinedAt
    <3>3. record = z \o r
      BY <1>8, <2>1
    <3> QED BY <3>2, <3>3
  <2>4. Len(z) = 1 /\ Len(r) = kept + 3
    BY <1>7, <2>2
  <2>5. 1 \in 1..1 /\ 1 \in 1..kept + 3 /\ 1 + 1 = 2
    OBVIOUS
  <2>6. record[1] = 22 /\ record[2] = kept + 2
    <3>1. record[1] = z[1] /\ record[1 + 1] = r[1]
      BY <2>3, <2>4, <2>5
    <3>2. z[1] = 22 /\ r[1] = kept + 2
      BY <1>7, <2>2
    <3> QED BY <2>5, <3>1, <3>2
  <2>7. ASSUME NEW k \in 1..kept + 2 PROVE record[2 + k] = y[k]
    <3>1. k + 1 \in 1..kept + 3 /\ 1 + (k + 1) = 2 + k
      OBVIOUS
    <3>2. record[1 + (k + 1)] = r[k + 1]
      BY <2>3, <2>4, <3>1
    <3>3. r[k + 1] = y[k]
      BY <1>7
    <3> QED BY <3>1, <3>2, <3>3
  <2>8. Len(record) = kept + 4
    <3>1. Len(record) = 1 + (kept + 3)
      BY <2>3, <2>4
    <3> QED BY <3>1
  <2> QED BY <2>3, <2>6, <2>7, <2>8
<1>10. n <= kept + 4 /\ (n < kept + 4 => more = <<>>)
  <2>1. Len(record) = kept + 4
    BY <1>9
  <2> QED BY <2>1
<1>11. PICK d \in Nat : d = Len(more)
  OBVIOUS
<1>12. n < kept + 4 => d = 0
  BY <1>10, <1>11
<1>13. data \in Seq(Nat) /\ Len(data) = n + d /\ \A k \in 1..n : data[k] = record[k]
  <2>1. PICK z : z = SubSeq(record, 1, n)
    OBVIOUS
  <2>2. record \in Seq(Nat) /\ n \in Int /\ n <= Len(record)
    BY <1>9
  <2>3. z \in Seq(Nat)
    BY <2>1, <2>2, PrefixType
  <2>4. Len(z) = n /\ \A k \in 1..n : z[k] = record[k]
    BY <2>1, <2>2
  <2>5. /\ data \in Seq(Nat) /\ Len(data) = Len(z) + Len(more)
        /\ \A k \in 1..Len(z) : data[k] = z[k]
    <3>1. data = z \o more
      BY <2>1 DEF ChunkOf
    <3>2. /\ z \o more \in Seq(Nat) /\ Len(z \o more) = Len(z) + Len(more)
          /\ \A k \in 1..Len(z) : (z \o more)[k] = z[k]
      BY <2>3, JoinedAt
    <3> QED BY <3>1, <3>2
  <2> QED BY <1>11, <2>4, <2>5
<1>14. data[1] = 22 /\ data[2] = kept + 2
  <2>1. 1 \in 1..n /\ 2 \in 1..n
    OBVIOUS
  <2> QED BY <1>9, <1>13, <2>1
<1>15. /\ payload \in Seq(Nat) /\ Len(payload) = n - 2 /\ \A k \in 1..n - 2 : payload[k] = y[k]
  <2>1. PICK i, l \in Nat : i = 2 /\ l = kept + 2
    OBVIOUS
  <2>2. i <= Len(data) /\ (IF l < Len(data) - i THEN l ELSE Len(data) - i) = n - 2
    <3>1. Len(data) = n + d
      BY <1>13
    <3>2. 2 <= n + d /\ (IF kept + 2 < (n + d) - 2 THEN kept + 2 ELSE (n + d) - 2) = n - 2
      BY <1>10, <1>12
    <3> QED BY <2>1, <3>1, <3>2
  <2>3. /\ Slice(data, i, l) \in Seq(Nat)
        /\ Len(Slice(data, i, l)) = IF l < Len(data) - i THEN l ELSE Len(data) - i
        /\ \A k \in 1..Len(Slice(data, i, l)) : Slice(data, i, l)[k] = data[i + k]
    <3>1. i <= Len(data)
      BY <2>2
    <3>2. data \in Seq(Nat)
      BY <1>13
    <3>3. Sliced(Slice(data, i, l), data, i, l)
      BY <3>1, <3>2, SliceTaken
    <3> QED BY <3>3 DEF Sliced
  <2>4. payload = Slice(data, i, l)
    BY <1>14, <2>1 DEF PayloadOf
  <2>5. payload \in Seq(Nat) /\ Len(payload) = n - 2 /\ \A k \in 1..n - 2 : payload[k] = data[2 + k]
    BY <2>1, <2>2, <2>3, <2>4
  <2>6. ASSUME NEW k \in 1..n - 2 PROVE payload[k] = y[k]
    <3>1. 2 + k \in 1..n /\ k \in 1..kept + 2
      BY <1>10
    <3> QED BY <1>9, <1>13, <2>5, <3>1
  <2> QED BY <2>5, <2>6
<1>16. payload[1] = 1 /\ payload[2] = c /\ Len(payload) >= 2
  <2>1. 1 \in 1..n - 2 /\ 2 \in 1..n - 2
    OBVIOUS
  <2>2. Len(payload) = n - 2
    BY <1>15
  <2> QED BY <1>5, <1>15, <2>1, <2>2
<1>17. n - 4 \in Nat /\ n - 4 <= kept /\ n - 4 <= c
  BY <1>1, <1>10
<1>18. PICK w : w = SubSeq(h, 1, n - 4)
  OBVIOUS
<1>19. w \in Seq(Nat) /\ Len(w) = n - 4 /\ \A k \in 1..n - 4 : w[k] = h[k]
  <2>1. n - 4 \in Int /\ n - 4 <= Len(h)
    BY <1>1, <1>17
  <2>2. w \in Seq(Nat)
    BY <1>18, <2>1, PrefixType
  <2>3. Len(w) = n - 4 /\ \A k \in 1..n - 4 : w[k] = h[k]
    BY <1>17, <1>18, <2>1
  <2> QED BY <2>2, <2>3
<1>20. Slice(payload, 2, payload[2]) = w
  <2>1. PICK i \in Nat : i = 2
    OBVIOUS
  <2>2. i <= Len(payload) /\ (IF c < Len(payload) - i THEN c ELSE Len(payload) - i) = n - 4
    <3>1. Len(payload) = n - 2
      BY <1>15
    <3>2. 2 <= n - 2 /\ (IF c < (n - 2) - 2 THEN c ELSE (n - 2) - 2) = n - 4
      BY <1>17
    <3> QED BY <2>1, <3>1, <3>2
  <2>3. PICK v : v = Slice(payload, i, c)
    OBVIOUS
  <2>4. /\ Slice(payload, i, c) \in Seq(Nat)
        /\ Len(Slice(payload, i, c)) = IF c < Len(payload) - i THEN c ELSE Len(payload) - i
        /\ \A k \in 1..Len(Slice(payload, i, c)) : Slice(payload, i, c)[k] = payload[i + k]
    <3>1. i <= Len(payload)
      BY <2>2
    <3>2. payload \in Seq(Nat)
      BY <1>15
    <3>3. Sliced(Slice(payload, i, c), payload, i, c)
      BY <3>1, <3>2, SliceTaken
    <3> QED BY <3>3 DEF Sliced
  <2>5. v \in Seq(Nat) /\ Len(v) = n - 4 /\ \A k \in 1..n - 4 : v[k] = payload[2 + k]
    BY <2>1, <2>2, <2>3, <2>4, ZenonT(40)
  <2>6. ASSUME NEW k \in 1..n - 4 PROVE v[k] = w[k]
    <3>1. 2 + k \in 1..n - 2 /\ k \in 1..kept
      BY <1>17
    <3>2. payload[2 + k] = y[2 + k]
      BY <1>15, <3>1
    <3> QED BY <1>5, <1>19, <2>5, <3>1, <3>2
  <2>7. v = w
    BY <1>19, <2>5, <2>6, SameSeq
  <2> QED BY <1>16, <2>1, <2>3, <2>7
<1>21. Len(data) >= 2
  <2>1. Len(data) = n + d
    BY <1>13
  <2> QED BY <2>1
<1>22. Headed(data, payload, w)
  <2>1. payload = Slice(data, 2, data[2])
    BY DEF PayloadOf
  <2> QED BY <1>13, <1>14, <1>15, <1>16, <1>20, <1>21, <2>1 DEF Headed
<1> QED BY <1>1, <1>17, <1>18, <1>22

(* The parts of the hello the call is made with.                           *)
HelloSent(c, m, a, b, s, t, g, e) ==
  /\ c.types \in Seq(Nat) /\ g \in Seq(Nat) /\ g = c.grease
  /\ \A k \in 1..Len(g) : IsGREASE(g[k])
  /\ s = g \o Suites /\ t = g \o c.types /\ m = c.units
  /\ Mandatory(c.sid, c.grease) = a + b + 5
  /\ Len(Hello(c.sid, c.types, c.grease)) = a + b + 6 + e[Len(t)]

HelloRead(c, l, o, st, hs, m, a, b, s, t, g, e, payload) ==
  /\ Wire(hs, m, a, b, s, t, g, e) /\ HelloSent(c, m, a, b, s, t, g, e)
  /\ Headed(c.data, payload, hs) /\ HelloProgress(l, o, st, hs, m, a, b, s, t, g, e)

HelloInv ==
  call.parser = "tls" /\ call.hello =>
    \E hs, m, a, b, s, t, g, e, payload :
      HelloRead(call, local, out, status, hs, m, a, b, s, t, g, e, payload)

LEMMA HelloSays == HelloInv => HelloAsSent
<1> SUFFICES ASSUME HelloInv, call.parser = "tls", call.hello, status # "run"
             PROVE  /\ status = "err" <=> call.units < Mandatory(call.sid, call.grease)
                    /\ status = "ok" =>
                         /\ \A i \in 1..4 : IsPrefix(JA3(out)[i], JA3(Expected)[i])
                         /\ out.name \in {<<>>, Expected.name} /\ IsPrefix(out.alpn, Expected.alpn)
                         /\ call.units = Len(Hello(call.sid, call.types, call.grease)) =>
                              /\ JA3(out) = JA3(Expected) /\ out.name = Expected.name
                              /\ out.alpn = Expected.alpn
  BY DEF HelloAsSent
<1>1. PICK hs, m, a, b, s, t, g, e, payload :
        HelloRead(call, local, out, status, hs, m, a, b, s, t, g, e, payload)
  BY DEF HelloInv
<1>2. /\ Wire(hs, m, a, b, s, t, g, e) /\ HelloSent(call, m, a, b, s, t, g, e)
      /\ HelloProgress(local, out, status, hs, m, a, b, s, t, g, e)
  BY <1>1 DEF HelloRead
<1>3. m \in Nat /\ a \in Nat /\ b \in Nat
  BY <1>2 DEF Wire
<1>4. m = call.units /\ Mandatory(call.sid, call.grease) = a + b + 5
  BY <1>2 DEF HelloSent
<1>5. status = "err" \/ status = "ok"
  BY <1>2 DEF HelloProgress
<1>6. CASE status = "err"
  <2>1. m < a + b + 5
    BY <1>2, <1>6 DEF HelloProgress
  <2> QED BY <1>4, <1>6, <2>1
<1>7. CASE status = "ok"
  <2>1. HelloResult(out, m, a, b, s, t, g, e)
    BY <1>2, <1>7 DEF HelloProgress
  <2>2. ~(m < a + b + 5)
    BY <1>3, <2>1 DEF HelloResult
  <2>3. PICK i : AtExtension(out, i, m, a, b, s, t, g, e) /\ (m = a + b + 6 + e[Len(t)] => i = Len(t))
    BY <2>1 DEF HelloResult
  <2>4. PICK types, entire, w :
          /\ types = call.types /\ entire = (m = a + b + 6 + e[Len(t)]) /\ w = (a + b + 6 + e[i] <= m)
    OBVIOUS
  <2>5. i \in 0..Len(t) /\ Gathered(out, i, w, s, t, g)
    BY <2>3, <2>4 DEF AtExtension
  <2>6. /\ types \in Seq(Nat) /\ g \in Seq(Nat) /\ s = g \o Suites /\ t = g \o types
        /\ \A k \in 1..Len(g) : IsGREASE(g[k])
    BY <1>2, <2>4 DEF HelloSent
  <2>7. entire \in BOOLEAN /\ (entire => i = Len(t) /\ w)
    <3>1. ASSUME m = a + b + 6 + e[Len(t)] PROVE a + b + 6 + e[i] <= m
      <4>1. i = Len(t)
        BY <2>3, <3>1
      <4>2. a + b + 6 + e[i] = m
        BY <3>1, <4>1
      <4> QED BY <1>3, <4>2
    <3> QED BY <2>3, <2>4, <3>1
  <2>8. w \in BOOLEAN
    <3>1. e[i] \in Nat
      BY <1>2, <2>5 DEF Wire
    <3> QED BY <1>3, <2>4, <3>1
  <2>9. AsSent(out, Whole(types), entire)
    BY <2>5, <2>6, <2>7, <2>8, GatheredSent
  <2>10. Whole(types) = Expected
    BY <2>4 DEF Whole, Expected, Has
  <2>11. entire <=> call.units = Len(Hello(call.sid, call.types, call.grease))
    <3>1. Len(Hello(call.sid, call.types, call.grease)) = a + b + 6 + e[Len(t)]
      BY <1>2 DEF HelloSent
    <3> QED BY <1>4, <2>4, <3>1
  <2>12. /\ \A k \in 1..4 : IsPrefix(JA3(out)[k], JA3(Expected)[k])
         /\ out.name \in {<<>>, Expected.name} /\ IsPrefix(out.alpn, Expected.alpn)
         /\ entire => JA3(out) = JA3(Expected) /\ out.name = Expected.name /\ out.alpn = Expected.alpn
    BY <2>9, <2>10, Zenon DEF AsSent
  <2> QED BY <1>4, <1>7, <2>2, <2>11, <2>12, Zenon
<1> QED BY <1>5, <1>6, <1>7

LEMMA HelloStart == MCInit => HelloInv
<1> SUFFICES ASSUME MCInit, call.parser = "tls", call.hello PROVE HelloInv
  BY DEF HelloInv
<1>1. HelloInit
  <2>1. ~NoCall
    BY DEF NoCall
  <2>2. ~DnsInit
    BY DEF DnsInit
  <2>3. ~LinesInit
    BY Apart, LinesCall
  <2>4. ~FramingInit
    BY Apart, FramingCall
  <2>5. ~RespInit
    BY DEF RespInit, Aligned, Stray
  <2> QED BY <2>1, <2>2, <2>3, <2>4, <2>5 DEF MCInit
<1>2. PICK sid, types, g, ct, type, h, kept, record, n, more :
        HelloMade(sid, types, g, ct, type, h, kept, record, n, more)
  BY <1>1, HelloParts
<1>3. /\ sid \in Seq(Nat) /\ types \in Seq(Nat) /\ g \in Seq(Nat)
      /\ \A k \in 1..Len(g) : IsGREASE(g[k])
      /\ h = Hello(sid, types, g) /\ kept \in Nat /\ kept <= Len(h)
      /\ record = RecordOf(ct, type, h, kept) /\ record \in Seq(Nat)
      /\ n \in 0..Len(record) /\ more \in Seq(Nat) /\ (n < Len(record) => more = <<>>)
  BY <1>2 DEF HelloMade
<1>4. /\ call.sid = sid /\ call.types = types /\ call.grease = g /\ call.units = n - 4
      /\ call.data = ChunkOf(record, n, more) /\ ct = 22 /\ type = 1 /\ n > 3
  BY <1>2 DEF HelloMade
<1>5. PICK m, payload, hs, a, s, b, t, e :
        /\ m = n - 4 /\ payload = PayloadOf(call.data) /\ hs = SubSeq(h, 1, n - 4) /\ a = Len(sid)
        /\ s = g \o Suites /\ b = Len(s) /\ t = g \o types /\ e = ExtEnds(t, g)
  OBVIOUS
<1>6. h \in Seq(Nat)
  BY <1>3, HelloType
<1>7. n \in Nat /\ n >= 4 /\ n <= Len(record)
  <2>1. Len(record) \in Nat /\ n \in 0..Len(record) /\ n > 3
    BY <1>3, <1>4
  <2> QED BY <2>1
<1>8. m \in Nat /\ m <= Len(h) /\ Headed(call.data, payload, hs)
  <2>1. n - 4 \in Nat /\ n - 4 <= Len(h) /\ Headed(call.data, payload, SubSeq(h, 1, n - 4))
    <3>1. record = RecordOf(22, 1, h, kept) /\ call.data = ChunkOf(record, n, more)
      BY <1>3, <1>4
    <3>2. PICK data : data = call.data
      OBVIOUS
    <3>3. n - 4 \in Nat /\ n - 4 <= Len(h) /\ Headed(data, payload, SubSeq(h, 1, n - 4))
      <4>1. data = ChunkOf(record, n, more) /\ payload = PayloadOf(data)
        BY <1>5, <3>1, <3>2
      <4>2. kept \in Nat /\ kept <= Len(h) /\ more \in Seq(Nat) /\ (n < Len(record) => more = <<>>)
        BY <1>3
      <4> QED BY <1>6, <1>7, <3>1, <4>1, <4>2, RecordRead
    <3> QED BY <3>2, <3>3
  <2> QED BY <1>5, <2>1
<1>9. Wire(hs, m, a, b, s, t, g, e) /\ Len(h) = a + b + 6 + e[Len(t)] /\ Mandatory(sid, g) = a + b + 5
  <2>1. hs = SubSeq(h, 1, m)
    BY <1>5
  <2>2. sid \in Seq(Nat) /\ types \in Seq(Nat) /\ g \in Seq(Nat) /\ h = Hello(sid, types, g)
    BY <1>3
  <2>3. a = Len(sid) /\ s = g \o Suites /\ b = Len(s) /\ t = g \o types /\ e = ExtEnds(t, g)
    BY <1>5
  <2>4. m \in Nat /\ m <= Len(h)
    BY <1>8
  <2>5. Wired(h, sid, m, a, b, s, t, g, e)
    BY <2>2, <2>3, <2>4, WireMade
  <2> QED BY <2>1, <2>5 DEF Wired
<1>10. HelloSent(call, m, a, b, s, t, g, e)
  BY <1>3, <1>4, <1>5, <1>9 DEF HelloSent
<1>11. HelloProgress(local, out, status, hs, m, a, b, s, t, g, e)
  <2>1. /\ local = [at |-> "record", hs |-> <<>>, off |-> 0, end |-> 0] /\ out = NoneYet
        /\ status = "run"
    BY <1>1 DEF HelloInit, NoneYet
  <2>2. local \in HelloLocals /\ local.at = "record"
    BY <2>1 DEF HelloLocals
  <2> QED BY <2>1, <2>2 DEF HelloProgress, ReadingHello
<1>12. HelloRead(call, local, out, status, hs, m, a, b, s, t, g, e, payload)
  BY <1>8, <1>9, <1>10, <1>11 DEF HelloRead
<1> QED BY <1>12 DEF HelloInv

LEMMA HelloTurn ==
  ASSUME HelloInv, HelloNext
  PROVE  HelloInv'
<1>1. call' = call
  BY DEF HelloNext, Record, Vector, CipherSuites, ExtensionLength, Extension, Running, Return, Panic
<1> SUFFICES ASSUME call.parser = "tls", call.hello PROVE HelloInv'
  BY <1>1 DEF HelloInv
<1>2. PICK hs, m, a, b, s, t, g, e, payload :
        HelloRead(call, local, out, status, hs, m, a, b, s, t, g, e, payload)
  BY DEF HelloInv
<1>3. /\ Wire(hs, m, a, b, s, t, g, e) /\ Headed(call.data, payload, hs)
      /\ HelloProgress(local, out, status, hs, m, a, b, s, t, g, e)
      /\ HelloSent(call, m, a, b, s, t, g, e)
  BY <1>2 DEF HelloRead
<1>4. HelloProgress(local', out', status', hs, m, a, b, s, t, g, e)
  BY <1>3, RecordProgress, SidProgress, SuitesProgress, CompressionProgress, LengthProgress,
     ExtensionProgress DEF HelloNext
<1>5. HelloRead(call, local', out', status', hs, m, a, b, s, t, g, e, payload)
  BY <1>3, <1>4 DEF HelloRead
<1>6. \E hs2, m2, a2, b2, s2, t2, g2, e2, payload2 :
        HelloRead(call, local', out', status', hs2, m2, a2, b2, s2, t2, g2, e2, payload2)
  BY <1>5
<1> QED BY <1>1, <1>6 DEF HelloInv

LEMMA HelloKeeps == HelloInv /\ [MCNext]_<<vars, callVars>> => HelloInv'
<1> SUFFICES ASSUME HelloInv, [MCNext]_<<vars, callVars>> PROVE HelloInv'
  OBVIOUS
<1>1. CASE UNCHANGED callVars
  BY <1>1 DEF callVars, HelloInv
<1>2. ASSUME call' = call, call.parser # "tls" PROVE HelloInv'
  BY <1>2 DEF HelloInv
<1>3. CASE DnsNext
  BY <1>2, <1>3
     DEF DnsNext, Section, NameStep, FormatRData, TxtStep, InName, Running, Return, NameFails,
         NameEnds, Follow, Label, Panic, DecodeName
<1>4. CASE RespStep
  BY <1>2, <1>4 DEF RespStep, Running, Return, Panic
<1>5. CASE FramingNext
  BY <1>2, <1>5, Apart DEF FramingNext, Enter, FrameStep, Framing, Running, Return, Panic
<1>6. CASE HelloNext
  BY <1>6, HelloTurn
<1>7. CASE PieceStep
  BY <1>2, <1>7, Apart DEF PieceStep, Running, Return
<1> QED BY <1>1, <1>3, <1>4, <1>5, <1>6, <1>7 DEF MCNext, ParseStep, callVars

(* tls/parser.go, Parse: the fingerprint of a ClientHello does not depend  *)
(* on GREASE values, the server name not on the extensions around it, and  *)
(* of one that is cut off the lists are prefixes of the client's and the   *)
(* name is whole or missing -- for any cipher suites, groups, GREASE       *)
(* values and server name, cut anywhere.                                   *)
THEOREM FingerprintAsSent == MCSpec => []HelloAsSent
<1> QED BY HelloSays, HelloStart, HelloKeeps, PTL DEF MCSpec
=============================================================================
