--------------------------- MODULE MCSolverBeacon ---------------------------
\* Two shards for the Solver pipeline.
EXTENDS SolverBeacon, TLC

CONSTANTS s0, s1

MCShards == {s0, s1}
=============================================================================
