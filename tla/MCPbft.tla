------------------------------- MODULE MCPbft -------------------------------
(* Shards of consensus nodes for TLC.                                      *)
EXTENDS Pbft

CONSTANTS n0, n1, n2, n3

MCTwo == {n0, n1}
MCThree == {n0, n1, n2}
MCFour == {n0, n1, n2, n3}
MCNone == {}
MCStopFollower == {n1}
=============================================================================
