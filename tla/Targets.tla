------------------------------ MODULE Targets ------------------------------
(***************************************************************************)
(* The ordered target faults of a run (InitTargetOrder, CopyTargetOrder)   *)
(* and the lines of its CSV.  Fault f is faults[f] of the C arrays; the    *)
(* text of a row is abstracted to the fault it describes.                  *)
(***************************************************************************)
EXTENDS Integers, Sequences

CONSTANT FaultCount  \* number of target faults, analysed in the order 0, 1, ...

Faults == 0 .. FaultCount - 1

ASSUME FaultCountAssumption == FaultCount \in Nat

\* The first line of the CSV; every other line is a fault number.
Header == -1
=============================================================================
