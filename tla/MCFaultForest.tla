---------------------------- MODULE MCFaultForest ----------------------------
(* FaultForest on five faults: pairs that build groups of every size in    *)
(* many orders, one that may follow from two others, and one of a fault    *)
(* with itself.                                                            *)
EXTENDS FaultForest

MCPairs == {<<0, 1>>, <<1, 2>>, <<2, 0>>, <<3, 4>>, <<4, 1>>, <<2, 2>>}
=============================================================================
