------------------------------ MODULE Registry ------------------------------
(***************************************************************************)
(* The parser registry as it is built, parser after parser                 *)
(* (internal/protocol/registry.go, buildRegistry in cmd/netcap/main.go),   *)
(* and what it answers at every point.                                     *)
(***************************************************************************)
EXTENDS Detection, FiniteSets

CONSTANTS
  Registered,   \* names of the parsers that may be registered
  MaxParsers,   \* bound: parsers registered in one behaviour
  PortSet       \* ports that connections use

ASSUME RegisteredAssumption == Registered \subseteq Names

VARIABLES
  all,     \* the parsers, in the order of registration
  byPort   \* the parsers of each port, in the order of registration

vars == <<all, byPort>>

Init == all = <<>> /\ byPort = [q \in PortSet |-> <<>>]

(* Mutant of Indexed: a second owner of a port replaces the first.         *)
IndexedOnce(p) == [q \in PortSet |-> IF q \in Ports(p) THEN <<p>> ELSE byPort[q]]

(* byPort with p appended under every port it declares.                    *)
Indexed(p) == [q \in PortSet |-> IF q \in Ports(p) THEN Append(byPort[q], p) ELSE byPort[q]]

(* Register(p), once for each parser.                                      *)
Register(p) ==
  /\ p \notin Range(all) /\ Len(all) < MaxParsers
  /\ all' = Append(all, p)
  /\ byPort' = Indexed(p)

Next == \E p \in Registered : Register(p)

Spec == Init /\ [][Next]_vars

-----------------------------------------------------------------------------
(* What the registry built so far answers.                                 *)
Answer(srcPort, dstPort, s, c) == Resolve(byPort, all, srcPort, dstPort, s, c)

-----------------------------------------------------------------------------
(* unknown/parser.go:20-21: the fallback "is only used when no other       *)
(* parser matches", whatever the order of registration (main.go:201 asks   *)
(* for it to be last).                                                     *)
FallbackLast ==
  "unknown" \in Range(all) =>
    \A src, dst \in PortSet, s \in Samples, c \in BOOLEAN :
      Answer(src, dst, s, c) = "unknown" =>
        \A p \in Range(all) \ {"unknown"} : Probe(p, s, c) = 0

(* registry.go:27-37, as a reference computed from the parsers alone,      *)
(* whatever the order of registration ("Order does not matter",            *)
(* main.go:185-186): a single candidate by port is the answer; else the    *)
(* answer is a candidate with the highest confidence, and nil only if all  *)
(* have none.  The candidates are the owners of the destination port, else *)
(* those of the source port (the inline comment at registry.go:46; the doc *)
(* comment, at 34-35, leaves them out), else everyone.  Which of several   *)
(* candidates with the same confidence wins does depend on the order, and  *)
(* nothing is claimed of it here.                                          *)
BestConfidence ==
  all # <<>> =>
    \A src, dst \in PortSet, s \in Samples, c \in BOOLEAN :
      LET owners(q) == {i \in 1..Len(all) : q \in Ports(all[i])}
          owned     == owners(dst) \cup owners(src) # {}
          cand      == IF owners(dst) # {} THEN owners(dst)
                       ELSE IF owned THEN owners(src) ELSE 1..Len(all)
          a         == Answer(src, dst, s, c)
          at(i)     == Probe(all[i], s, c)
          best(i)   == at(i) > 0 /\ \A j \in cand : at(j) <= at(i)
      IN  IF owned /\ \E i \in cand : cand = {i}
          THEN \E i \in cand : a = all[i]
          ELSE \/ a = NoParser /\ \A i \in cand : at(i) = 0
               \/ \E i \in cand : a = all[i] /\ best(i)

(* Once the fallback is registered, a payload between two ports nobody     *)
(* owns is parsed by someone: it is never dropped for want of a parser.    *)
NeverUnclaimed ==
  "unknown" \in Range(all) =>
    \A src, dst \in PortSet, s \in Samples \ {"empty"}, c \in BOOLEAN :
      (\A p \in Range(all) : {src, dst} \cap Ports(p) = {})
        => Answer(src, dst, s, c) # NoParser
=============================================================================
