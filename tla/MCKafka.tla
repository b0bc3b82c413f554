------------------------------- MODULE MCKafka -------------------------------
(* An instance of Kafka for TLC. *)
EXTENDS Kafka

(* Two events of one flow and one in the other direction. *)
TwoWays == LET out == [src |-> "a", dst |-> "b"]
               back == [src |-> "b", dst |-> "a"]
           IN  <<out, out, back>>

(* The two directions fall into different partitions.                      *)
BySource == [key \in Endpoints \X Endpoints |-> IF key[1] = "a" THEN 1 ELSE 2]
=============================================================================
