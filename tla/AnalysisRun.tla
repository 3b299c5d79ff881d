----------------------------- MODULE AnalysisRun -----------------------------
(***************************************************************************)
(* The serial analysis run (AnalyzeFaultDensity with jobs = 1, analysis.c) *)
(* and the directory of cube files it owns (cube_text.c), over several     *)
(* runs of the program with the same files.  Any call of a run may fail,   *)
(* and the process may be killed between any two steps; the next run then  *)
(* finds what the last one left.                                           *)
(*                                                                         *)
(* A file is abstracted to the run that wrote it.  How much of the CSV     *)
(* has left the stdio buffer is settled when the process ends.             *)
(***************************************************************************)
EXTENDS Targets

CONSTANTS
  OtherCubes,  \* reserved names that are no target of these runs
  UserFiles,   \* names the program does not reserve
  MaxRuns      \* bound: runs after the leftovers of run 0

ASSUME MaxRunsAssumption == MaxRuns \in Nat \ {0}
ASSUME NamesAssumption ==
  Faults \intersect UserFiles = {} /\ OtherCubes \intersect UserFiles = {}
  /\ Faults \intersect OtherCubes = {}

CubeNames == Faults \union OtherCubes
Names == CubeNames \union UserFiles

\* Mutants: only the targets of this run are reserved; every name is.
OnlyTargetsReserved(name) == name \in Faults
EveryNameReserved(name) == TRUE

\* CubeFilename gives every fault a name of its own; here, its number.
IsCubeFilename(name) == name \in CubeNames

Absent == -1   \* no such file
Invalid == -2  \* a marker without the magic line

VARIABLES
  \* the directory
  files,       \* for each name, the run that wrote the file, or Absent
  tornFiles,   \* names whose file is only partly written
  marker,      \* the run whose header the marker holds, Absent or Invalid
  \* the CSV
  csv,         \* lines written by the current run
  torn,        \* the last row is only partly written
  \* the process
  run,         \* number of the current run
  step,        \* where it is; "none" between two runs
  withCubes,   \* -cube was given
  due,         \* faults whose cube text is not empty
  owned,       \* the marker was valid
  entries,     \* directory entries not yet read
  succeeded,   \* no call has failed so far
  outcome      \* of the last run: "running", "ok" or "failed"

directory == <<files, tornFiles, marker>>
csvFile == <<csv, torn>>
options == <<run, withCubes, due>>
vars == <<files, tornFiles, marker, csv, torn, run, step, withCubes, due, owned, entries,
          succeeded, outcome>>

Steps == {"prepare", "openDir", "readDir", "openMarker", "writeMarker",
          "row", "openCube", "writeCube", "dropCube", "close"}

NextFault == Len(csv) - 1        \* the fault whose row comes next
LastFault == NextFault - 1       \* the fault whose row was written last

ValidMarker == marker \notin {Absent, Invalid}
Entries == {n \in Names : files[n] # Absent}

\* The state in which a run finds itself after opening the CSV.
Started ==
  /\ csv' = <<Header>>
  /\ torn' = FALSE
  /\ withCubes' \in BOOLEAN
  /\ due' \in (IF withCubes' THEN SUBSET Faults ELSE {{}})
  /\ owned' = FALSE
  /\ entries' = {}
  /\ succeeded' = TRUE
  /\ outcome' = "running"
  /\ step' = "prepare"

Init ==
  /\ files \in [Names -> {Absent, 0}]
  /\ tornFiles = {}
  /\ marker \in {Absent, Invalid, 0}
  /\ csv = <<Header>>
  /\ torn = FALSE
  /\ run = 1
  /\ withCubes \in BOOLEAN
  /\ due \in (IF withCubes THEN SUBSET Faults ELSE {{}})
  /\ owned = FALSE
  /\ entries = {}
  /\ succeeded = TRUE
  /\ outcome = "running"
  /\ step = "prepare"

Start ==
  /\ step = "none"
  /\ run < MaxRuns
  /\ run' = run + 1
  /\ Started
  /\ UNCHANGED directory

\* A call of the step fails before it has changed anything.
Fail ==
  /\ step \notin {"none", "writeCube", "dropCube", "close"}
  /\ succeeded' = FALSE
  /\ step' = "close"
  /\ UNCHANGED <<directory, csvFile, options, owned, entries, outcome>>

Goto(place) ==
  /\ step' = place
  /\ UNCHANGED <<csvFile, options, outcome>>

\* InitGlobalVars, ReadFault, CreateConsGC, InitTargetOrder.
Prepare ==
  /\ step = "prepare"
  /\ Goto(IF withCubes THEN "openDir" ELSE "row")
  /\ UNCHANGED <<directory, owned, entries, succeeded>>

\* opendir and the check of the marker.
OpenDir ==
  /\ step = "openDir"
  /\ owned' = ValidMarker
  /\ entries' = Entries
  /\ succeeded' = (marker # Invalid)
  /\ Goto(IF succeeded' THEN "readDir" ELSE "close")
  /\ UNCHANGED directory

\* One entry: without a marker it refuses the directory, with one the file is
\* removed if its name is reserved.
ReadEntry ==
  /\ step = "readDir"
  /\ \E name \in entries :
       /\ entries' = entries \ {name}
       /\ succeeded' = owned
       /\ Goto(IF owned THEN "readDir" ELSE "close")
       /\ IF owned /\ IsCubeFilename(name)
            THEN /\ files' = [files EXCEPT ![name] = Absent]
                 /\ tornFiles' = tornFiles \ {name}
            ELSE UNCHANGED <<files, tornFiles>>
  /\ UNCHANGED <<marker, owned>>

EndOfDir ==
  /\ step = "readDir"
  /\ entries = {}
  /\ Goto("openMarker")
  /\ UNCHANGED <<directory, owned, entries, succeeded>>

\* fopen with "w" empties the old marker.
OpenMarker ==
  /\ step = "openMarker"
  /\ marker' = Invalid
  /\ Goto("writeMarker")
  /\ UNCHANGED <<files, tornFiles, owned, entries, succeeded>>

\* The magic line may get through even when the write fails.
WriteMarker ==
  /\ step = "writeMarker"
  /\ succeeded' \in BOOLEAN
  /\ marker' \in (IF succeeded' THEN {run} ELSE {Invalid, run})
  /\ Goto(IF succeeded' THEN "row" ELSE "close")
  /\ UNCHANGED <<files, tornFiles, owned, entries>>

\* Mutant: the cube file is forgotten.
WriteRowOnly ==
  /\ step = "row"
  /\ NextFault < FaultCount
  /\ csv' = Append(csv, NextFault)
  /\ torn' \in BOOLEAN
  /\ succeeded' \in (IF torn' THEN {FALSE} ELSE BOOLEAN)
  /\ step' = IF succeeded' THEN "row" ELSE "close"
  /\ UNCHANGED <<directory, options, owned, entries, outcome>>

\* AnalyzeOneFault writes the row; an error of the stream, or of the stream
\* that holds the cube text, ends the run.
WriteRow ==
  /\ step = "row"
  /\ NextFault < FaultCount
  /\ csv' = Append(csv, NextFault)
  /\ torn' \in BOOLEAN
  /\ succeeded' \in (IF torn' THEN {FALSE} ELSE BOOLEAN)
  /\ step' = IF ~succeeded' THEN "close"
           ELSE IF NextFault \in due THEN "openCube" ELSE "row"
  /\ UNCHANGED <<directory, options, owned, entries, outcome>>

\* WriteCubeFile: an empty file until its text is written.
OpenCube ==
  /\ step = "openCube"
  /\ files' = [files EXCEPT ![LastFault] = run]
  /\ tornFiles' = tornFiles \union {LastFault}
  /\ Goto("writeCube")
  /\ UNCHANGED <<marker, owned, entries, succeeded>>

\* Mutant: the result of the write is ignored.
WriteCubeUnchecked ==
  /\ step = "writeCube"
  /\ \/ tornFiles' = tornFiles \ {LastFault}
     \/ UNCHANGED tornFiles
  /\ Goto("row")
  /\ UNCHANGED <<files, marker, owned, entries, succeeded>>

WriteCube ==
  /\ step = "writeCube"
  /\ \/ /\ tornFiles' = tornFiles \ {LastFault}
        /\ Goto("row")
     \/ /\ Goto("dropCube")
        /\ UNCHANGED tornFiles
  /\ UNCHANGED <<files, marker, owned, entries, succeeded>>

\* A partly written file is removed; nobody looks whether unlink succeeds.
DropCube ==
  /\ step = "dropCube"
  /\ succeeded' = FALSE
  /\ \/ /\ files' = [files EXCEPT ![LastFault] = Absent]
        /\ tornFiles' = tornFiles \ {LastFault}
     \/ UNCHANGED <<files, tornFiles>>
  /\ Goto("close")
  /\ UNCHANGED <<marker, owned, entries>>

\* The loop over the faults is done.
LastRow ==
  /\ step = "row"
  /\ NextFault = FaultCount
  /\ Goto("close")
  /\ UNCHANGED <<directory, owned, entries, succeeded>>

\* The lines still buffered when the run ends early may be lost.
LosingLines ==
  /\ \E n \in 0 .. Len(csv) : csv' = SubSeq(csv, 1, n)
  /\ torn' \in BOOLEAN

\* fclose, and the result of AnalyzeFaultDensity.
Close ==
  /\ step = "close"
  /\ step' = "none"
  /\ \/ /\ outcome' = IF succeeded THEN "ok" ELSE "failed"
        /\ UNCHANGED csvFile
     \/ /\ outcome' = "failed"
        /\ LosingLines
  /\ UNCHANGED <<directory, options, owned, entries, succeeded>>

Kill ==
  /\ step # "none"
  /\ step' = "none"
  /\ outcome' = "failed"
  /\ LosingLines
  /\ UNCHANGED <<directory, options, owned, entries, succeeded>>

Step ==
  \/ Start \/ Prepare \/ OpenDir \/ ReadEntry \/ EndOfDir \/ OpenMarker \/ WriteMarker
  \/ WriteRow \/ OpenCube \/ WriteCube \/ DropCube \/ LastRow \/ Close

\* The bound on the runs is reached.
Finished ==
  /\ step = "none"
  /\ run = MaxRuns
  /\ UNCHANGED vars

Next == Step \/ Fail \/ Kill \/ Finished

Spec == Init /\ [][Next]_vars

(***************************************************************************)
(* Properties                                                              *)
(***************************************************************************)

TypeOK ==
  /\ run \in 1 .. MaxRuns
  /\ files \in [Names -> 0 .. run \union {Absent}]
  /\ tornFiles \subseteq CubeNames
  /\ marker \in 0 .. run \union {Absent, Invalid}
  /\ csv \in Seq(Faults \union {Header})
  /\ torn \in BOOLEAN
  /\ step \in Steps \union {"none"}
  /\ withCubes \in BOOLEAN
  /\ due \subseteq Faults
  /\ owned \in BOOLEAN
  /\ entries \subseteq Names
  /\ succeeded \in BOOLEAN
  /\ outcome \in {"running", "ok", "failed"}

\* Wherever runs have failed or been killed, a valid marker describes every
\* cube file beside it: no file of an earlier run, computed with other
\* options, survives under the header of a later one (PrepareDirectory
\* clears the directory before it rewrites the marker).
FilesMatchMarker ==
  ValidMarker => \A n \in CubeNames : files[n] \in {Absent, marker}

\* A user's own files are never touched: names outside the reserved ones are
\* neither removed nor written, nothing changes in a directory without a
\* valid marker, and a directory that is in use never gets one
\* (PrepareDirectory).
UserFilesKept ==
  [][ /\ \A n \in UserFiles : files'[n] = files[n]
      /\ files' # files => ValidMarker
      /\ marker = Absent /\ Entries # {} => marker' = Absent ]_vars

\* A run that reports success has written every row and left a directory that
\* holds its own cube files, whole, and no other, whatever it found there.
SuccessIsWhole ==
  outcome = "ok" =>
    /\ Len(csv) = FaultCount + 1
    /\ ~torn
    /\ withCubes => /\ marker = run
                /\ tornFiles = {}
                /\ \A n \in CubeNames :
                     files[n] = IF n \in due THEN run ELSE Absent

\* The serial loop implements the report that the worker pool implements too.
Report == INSTANCE FaultReport WITH
  cubeFiles <- {f \in Faults : files[f] = run /\ f \notin tornFiles}

ImplementsReport == Report!Spec
=============================================================================
