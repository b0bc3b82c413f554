------------------------------ MODULE Delivery ------------------------------
(***************************************************************************)
(* What netcap promises of the packets on the wire, whatever its stages    *)
(* do: a packet enters at most once and leaves at most once, into Kafka or *)
(* lost; nothing is brought back; and no packet reaches Kafka once the     *)
(* writers are closed.  Pipeline implements this specification.            *)
(***************************************************************************)
CONSTANT Packets

VARIABLES
  place,  \* place[p]: "wire", "inside", "published" or "lost"
  open    \* the Kafka writers can still write

dvars == <<place, open>>

Init == place = [p \in Packets |-> "wire"] /\ open = TRUE

(* The packets ps go from one place to another.                            *)
Move(ps, from, to) ==
  /\ \A p \in ps : place[p] = from
  /\ place' = [p \in Packets |-> IF p \in ps THEN to ELSE place[p]]

Enter == \E p \in Packets : Move({p}, "wire", "inside") /\ UNCHANGED open

Publish == open /\ (\E p \in Packets : Move({p}, "inside", "published")) /\ UNCHANGED open

(* A whole chunk may be lost in one step.                                  *)
Lose == (\E ps \in (SUBSET Packets) \ {{}} : Move(ps, "inside", "lost")) /\ UNCHANGED open

Close == open /\ open' = FALSE /\ UNCHANGED place

Next == Enter \/ Publish \/ Lose \/ Close

Spec == Init /\ [][Next]_dvars
=============================================================================
