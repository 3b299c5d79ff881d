---------------------------- MODULE MCAnalysisRun ----------------------------
(* Instance of AnalysisRun for TLC. *)
EXTENDS AnalysisRun

CONSTANTS old, note

OneOldCube == {old}
OneUserFile == {note}
=============================================================================
