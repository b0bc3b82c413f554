----------------------------- MODULE MCPipeline -----------------------------
(* Instances of Pipeline for TLC. *)
EXTENDS Pipeline, TLC

(* The order in which main.go adds the stages (metrics enabled).           *)
MainOrder == <<"decoder", "splitter", "reassembler", "kafka", "dispatcher", "metrics">>

(* The reverse data-flow order, for which stopInReverse stops the source   *)
(* of the data first.                                                      *)
UpstreamFirst == <<"metrics", "kafka", "dispatcher", "reassembler", "splitter", "decoder">>

(* metrics.enabled: false.                                                 *)
NoMetrics == <<"decoder", "splitter", "reassembler", "kafka", "dispatcher">>

WorkerSymmetry == Permutations(DecodeWorkers) \cup Permutations(KafkaWorkers)
=============================================================================
