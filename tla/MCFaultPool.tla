---------------------------- MODULE MCFaultPool ----------------------------
(* Instances of FaultPool for TLC. *)
EXTENDS FaultPool

\* Every kind of failure, and which faults have cube text to save.
AllFailures == FailureKinds
SaveSecond == {1}
SaveFirstTwo == {0, 1}
=============================================================================
