------------------------ MODULE MCBenchmarkConsensus ------------------------
(* A leader and two other nodes.                                            *)
EXTENDS BenchmarkConsensus

CONSTANTS n1, n2, n3, b1, b2

Nodes == {n1, n2, n3}
Blocks == {b1, b2}
=============================================================================
