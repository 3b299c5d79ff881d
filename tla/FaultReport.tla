----------------------------- MODULE FaultReport -----------------------------
(***************************************************************************)
(* What one analysis run promises about its output, whoever does the work: *)
(* the CSV is the header followed by one row per fault in the target       *)
(* order, the cube file of a fault follows its row and precedes the next   *)
(* one, and a run that reports success has written everything.  A run that *)
(* fails or is killed leaves a prefix of that output, its last row         *)
(* possibly torn.                                                          *)
(*                                                                         *)
(* Both ways of running the analysis implement this module: the serial     *)
(* loop (AnalysisRun) and the pool of worker processes (FaultPool).        *)
(***************************************************************************)
EXTENDS Targets

VARIABLES
  due,        \* faults whose cube text is not empty in this run
  csv,        \* lines of the CSV: Header, then fault numbers
  torn,       \* the last row was only partly written
  cubeFiles,  \* faults whose cube file of this run exists, whole
  outcome     \* "running", "ok" or "failed"

vars == <<due, csv, torn, cubeFiles, outcome>>

\* Rows written so far; also the fault whose row comes next.
NextFault == Len(csv) - 1

\* Every written row is followed by its cube file where one is due.
Settled == \A f \in due : f < NextFault => f \in cubeFiles

Init ==
  /\ due \subseteq Faults
  /\ csv = <<Header>>
  /\ torn = FALSE
  /\ cubeFiles = {}
  /\ outcome = "running"

WriteRow ==
  /\ outcome = "running"
  /\ ~torn
  /\ Settled
  /\ NextFault < FaultCount
  /\ csv' = Append(csv, NextFault)
  /\ torn' \in BOOLEAN
  /\ UNCHANGED <<due, cubeFiles, outcome>>

WriteCubes ==
  /\ outcome = "running"
  /\ ~torn
  /\ NextFault - 1 \in due \ cubeFiles
  /\ cubeFiles' = cubeFiles \union {NextFault - 1}
  /\ UNCHANGED <<due, csv, torn, outcome>>

Succeed ==
  /\ outcome = "running"
  /\ ~torn
  /\ Settled
  /\ NextFault = FaultCount
  /\ outcome' = "ok"
  /\ UNCHANGED <<due, csv, torn, cubeFiles>>

\* What was still buffered may be lost with the run.
Fail ==
  /\ outcome = "running"
  /\ \E n \in 0 .. Len(csv) : csv' = SubSeq(csv, 1, n)
  /\ torn' \in BOOLEAN
  /\ outcome' = "failed"
  /\ UNCHANGED <<due, cubeFiles>>

\* The next run starts from scratch.
Restart ==
  /\ outcome # "running"
  /\ due' \in SUBSET Faults
  /\ csv' = <<Header>>
  /\ torn' = FALSE
  /\ cubeFiles' = {}
  /\ outcome' = "running"

Next == WriteRow \/ WriteCubes \/ Succeed \/ Fail \/ Restart

Spec == Init /\ [][Next]_vars
=============================================================================
