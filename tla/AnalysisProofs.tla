--------------------------- MODULE AnalysisProofs ---------------------------
(***************************************************************************)
(* Proofs about the analysis: the run over all faults with its cube        *)
(* directory (AnalysisRun), the outputs of the whole program (Coverage),   *)
(* and the enumeration of the cubes of one fault (CubeEnumeration).  The   *)
(* three specifications share no names.                                    *)
(***************************************************************************)
EXTENDS AnalysisRun, Coverage, CubeEnumeration,
        FiniteSetTheorems, FunctionTheorems, SequenceTheorems, TLAPS

-----------------------------------------------------------------------------
(***************************************************************************)
(* Proofs about the analysis run and its cube directory, for any number of *)
(* faults, any names in the directory and any number of runs.              *)
(*                                                                         *)
(* The argument follows a run through three phases.  Until the marker is   *)
(* rewritten every file belongs to an earlier run, and the entries still   *)
(* to be read bound the reserved names that are left (Preparing,           *)
(* Clearing).  While rows are written the reserved names that exist are    *)
(* exactly the cube files due so far (Writing).  A run that has failed     *)
(* promises nothing more than the match of files and marker.               *)
(***************************************************************************)

PreparingSteps == {"prepare", "openDir", "readDir", "openMarker", "writeMarker"}
WritingSteps == {"row", "openCube", "writeCube"}

\* Nothing of this run is in the files yet.
Preparing ==
  step \in PreparingSteps =>
    /\ csv = <<Header>> /\ ~torn /\ succeeded
    /\ \A n \in Names : files[n] # run
    /\ step # "prepare" => withCubes

\* Reserved names that are left are still to be read; without a marker
\* every name is.
Clearing ==
  /\ step = "readDir" =>
       /\ \A n \in CubeNames : files[n] # Absent => n \in entries
       /\ owned => ValidMarker
       /\ ~owned => marker = Absent /\ \A n \in Names : files[n] # Absent => n \in entries
  /\ step \in {"openMarker", "writeMarker"} =>
       /\ \A n \in CubeNames : files[n] = Absent
       /\ marker = Absent => \A n \in Names : files[n] = Absent
  /\ step = "writeMarker" => marker = Invalid

\* The cube files that are due by now.
CubesDue == {f \in due : f < NextFault /\ (step = "openCube" => f # LastFault)}

FilesOfRun ==
  IF withCubes
    THEN /\ marker = run
         /\ \A n \in CubeNames : files[n] = IF n \in CubesDue THEN run ELSE Absent
    ELSE due = {} /\ \A n \in Names : files[n] # run

Writing ==
  /\ step \in WritingSteps \/ (step = "close" /\ succeeded) =>
       /\ ~torn /\ succeeded
       /\ FilesOfRun
       /\ withCubes => tornFiles = (IF step = "writeCube" THEN {LastFault} ELSE {})
  /\ step \in {"openCube", "writeCube", "dropCube"} =>
       withCubes /\ LastFault \in due /\ marker = run
  /\ step = "dropCube" => LastFault \in tornFiles
  /\ step = "close" /\ succeeded => NextFault = FaultCount
  /\ step \in WritingSteps => NextFault \in 0 .. FaultCount

Ending ==
  /\ \A n \in tornFiles : files[n] # Absent
  /\ step = "none" <=> outcome # "running"
  /\ ~withCubes => due = {}

RunInv ==
  /\ TypeOK
  /\ FilesMatchMarker
  /\ Preparing
  /\ Clearing
  /\ Writing
  /\ Ending
  /\ SuccessIsWhole

-----------------------------------------------------------------------------

LEMMA Constants ==
  /\ FaultCount \in Nat
  /\ Faults \subseteq CubeNames /\ CubeNames \subseteq Names /\ UserFiles \subseteq Names
  /\ CubeNames \intersect UserFiles = {}
  /\ Faults \subseteq Int
BY FaultCountAssumption, NamesAssumption DEF CubeNames, Names, Faults

LEMMA LinesType ==
  ASSUME TypeOK
  PROVE  /\ Len(csv) \in Nat
         /\ LosingLines => csv' \in Seq(Faults \union {Header}) /\ torn' \in BOOLEAN
<1>1. csv \in Seq(Faults \union {Header})
  BY DEF TypeOK
<1>2. ASSUME NEW n \in 0 .. Len(csv) PROVE SubSeq(csv, 1, n) \in Seq(Faults \union {Header})
  BY <1>1, <1>2, SubSeqProperties
<1> QED
  BY <1>1, <1>2 DEF LosingLines

LEMMA InitRun == Init => RunInv
<1> SUFFICES ASSUME Init PROVE RunInv
  OBVIOUS
<1>1. <<Header>> \in Seq(Faults \union {Header}) /\ Len(<<Header>>) = 1
  OBVIOUS
<1>2. TypeOK
  <2>1. run \in 1 .. MaxRuns /\ run = 1
    BY MaxRunsAssumption DEF Init
  <2>2. files \in [Names -> 0 .. run \union {Absent}]
    BY <2>1 DEF Init
  <2>3. marker \in 0 .. run \union {Absent, Invalid} /\ due \subseteq Faults
    BY <2>1 DEF Init
  <2>4. csv \in Seq(Faults \union {Header})
    BY <1>1 DEF Init
  <2> QED
    BY <2>1, <2>2, <2>3, <2>4 DEF Init, TypeOK, Steps
<1>3. FilesMatchMarker
  BY Constants DEF Init, FilesMatchMarker, ValidMarker
<1>4. Preparing
  BY <1>1 DEF Init, Preparing, PreparingSteps, Absent
<1>5. Clearing /\ Writing
  BY DEF Init, Clearing, Writing, WritingSteps
<1>6. Ending /\ SuccessIsWhole
  BY DEF Init, Ending, SuccessIsWhole
<1> QED
  BY <1>2, <1>3, <1>4, <1>5, <1>6 DEF RunInv

\* The type invariant, action by action.
LEMMA NextType == TypeOK /\ Writing /\ [Next]_vars => TypeOK'
<1> SUFFICES ASSUME TypeOK, Writing, [Next]_vars PROVE TypeOK'
  OBVIOUS
<1> USE DEF TypeOK
<1>1. CASE Start
  <2>1. run' \in 1 .. MaxRuns /\ 0 .. run \subseteq 0 .. run'
    BY <1>1, MaxRunsAssumption DEF Start
  <2>2. files' \in [Names -> 0 .. run' \union {Absent}]
    BY <1>1, <2>1 DEF Start, directory
  <2>3. marker' \in 0 .. run' \union {Absent, Invalid}
    BY <1>1, <2>1 DEF Start, directory
  <2>4. csv' \in Seq(Faults \union {Header}) /\ due' \subseteq Faults
    BY <1>1 DEF Start, Started
  <2> QED
    BY <1>1, <2>1, <2>2, <2>3, <2>4 DEF Start, Started, directory, Steps
<1>2. CASE Prepare \/ OpenDir \/ EndOfDir \/ LastRow
  BY <1>2 DEF Prepare, OpenDir, EndOfDir, LastRow, Goto, directory, csvFile, options, Steps,
    Entries, ValidMarker
<1>3. CASE ReadEntry
  BY <1>3 DEF ReadEntry, Goto, csvFile, options, Steps
<1>4. CASE OpenMarker \/ WriteMarker
  <2>1. run \in 0 .. run
    OBVIOUS
  <2> QED
    BY <1>4, <2>1 DEF OpenMarker, WriteMarker, Goto, csvFile, options, Steps
<1>5. CASE WriteRow
  <2>1. NextFault \in Faults \union {Header}
    BY <1>5, LinesType, Constants DEF WriteRow, NextFault, Faults, Header
  <2>2. csv' \in Seq(Faults \union {Header})
    BY <1>5, <2>1, AppendProperties DEF WriteRow
  <2> QED
    BY <1>5, <2>2 DEF WriteRow, directory, options, Steps
<1>6. CASE WriteCube \/ DropCube \/ OpenCube
  <2>1. CASE OpenCube
    <3>1. LastFault \in CubeNames
      BY <2>1, Constants DEF OpenCube, Writing
    <3>2. run \in 0 .. run
      OBVIOUS
    <3>3. files' \in [Names -> 0 .. run' \union {Absent}]
      BY <2>1, <3>2 DEF OpenCube, Goto, options
    <3> QED
      BY <2>1, <3>1, <3>3 DEF OpenCube, Goto, csvFile, options, Steps
  <2>2. CASE WriteCube
    BY <2>2 DEF WriteCube, Goto, csvFile, options, Steps
  <2>3. CASE DropCube
    BY <2>3 DEF DropCube, Goto, csvFile, options, Steps
  <2> QED
    BY <1>6, <2>1, <2>2, <2>3
<1>7. CASE Close \/ Kill
  <2>1. csv' \in Seq(Faults \union {Header}) /\ torn' \in BOOLEAN
    BY <1>7, LinesType DEF Close, Kill, csvFile
  <2> QED
    BY <1>7, <2>1 DEF Close, Kill, directory, options
<1>8. CASE Fail
  BY <1>8 DEF Fail, directory, csvFile, options, Steps
<1>9. CASE Finished \/ UNCHANGED vars
  BY <1>9 DEF Finished, vars
<1> QED
  BY <1>1, <1>2, <1>3, <1>4, <1>5, <1>6, <1>7, <1>8, <1>9 DEF Next, Step

\* While a run prepares, nothing of it is in the files.
LEMMA NextPreparing == TypeOK /\ Preparing /\ [Next]_vars => Preparing'
<1> SUFFICES ASSUME TypeOK, Preparing, [Next]_vars, step' \in PreparingSteps
             PROVE  Preparing'
  BY DEF Preparing
<1> USE DEF Preparing, PreparingSteps
<1>1. CASE Start
  <2>1. \A n \in Names : files[n] # run'
    BY <1>1 DEF Start, TypeOK, Absent
  <2> QED
    BY <1>1, <2>1 DEF Start, Started, directory
<1>2. CASE Prepare \/ OpenDir \/ EndOfDir \/ OpenMarker \/ WriteMarker
  BY <1>2 DEF Prepare, OpenDir, EndOfDir, OpenMarker, WriteMarker, Goto, directory, csvFile, options
<1>3. CASE ReadEntry
  <2>1. \A n \in Names : files'[n] \in {files[n], Absent}
    BY <1>3 DEF ReadEntry, TypeOK
  <2>2. \A n \in Names : files'[n] # run
    BY <1>3, <2>1 DEF ReadEntry, TypeOK, Absent
  <2> QED
    BY <1>3, <2>2 DEF ReadEntry, Goto, csvFile, options
<1>4. CASE WriteRow \/ OpenCube \/ WriteCube \/ DropCube \/ LastRow \/ Close \/ Fail \/ Kill
  BY <1>4 DEF WriteRow, OpenCube, WriteCube, DropCube, LastRow, Close, Fail, Kill, Goto
<1>5. CASE Finished \/ UNCHANGED vars
  BY <1>5 DEF Finished, vars
<1> QED
  BY <1>1, <1>2, <1>3, <1>4, <1>5 DEF Next, Step

\* The entries still to be read bound what is left of the old files.
LEMMA NextClearing == TypeOK /\ Clearing /\ [Next]_vars => Clearing'
<1> SUFFICES ASSUME TypeOK, Clearing, [Next]_vars,
                    step' \in {"readDir", "openMarker", "writeMarker"}
             PROVE  Clearing'
  BY DEF Clearing
<1> USE DEF Clearing
<1>1. CASE OpenDir
  BY <1>1, Constants DEF OpenDir, Goto, Entries, ValidMarker, directory
<1>2. CASE ReadEntry
  <2>1. step' = "readDir" /\ owned /\ owned' /\ marker' = marker
    BY <1>2 DEF ReadEntry, Goto
  <2>2. ASSUME NEW n \in CubeNames, files'[n] # Absent PROVE n \in entries'
    <3>1. PICK name \in entries :
            /\ entries' = entries \ {name}
            /\ IF IsCubeFilename(name) THEN files' = [files EXCEPT ![name] = Absent]
                                      ELSE files' = files
      BY <1>2, <2>1 DEF ReadEntry
    <3>2. n \in Names /\ name \in Names
      BY Constants DEF TypeOK
    <3>3. n # name /\ files[n] # Absent
      BY <2>2, <3>1, <3>2 DEF TypeOK, IsCubeFilename
    <3> QED
      BY <1>2, <3>1, <3>3 DEF ReadEntry
  <2> QED
    BY <1>2, <2>1, <2>2 DEF ReadEntry, ValidMarker
<1>3. CASE EndOfDir
  BY <1>3 DEF EndOfDir, Goto, directory, ValidMarker
<1>4. CASE OpenMarker
  BY <1>4 DEF OpenMarker, Goto, Absent, Invalid
<1>5. CASE Start \/ Prepare \/ WriteMarker \/ Fail
  BY <1>5 DEF Start, Started, Prepare, WriteMarker, Fail, Goto
<1>6. CASE WriteRow \/ OpenCube \/ WriteCube \/ DropCube \/ LastRow \/ Close \/ Kill
  BY <1>6 DEF WriteRow, OpenCube, WriteCube, DropCube, LastRow, Close, Kill, Goto
<1>7. CASE Finished \/ UNCHANGED vars
  BY <1>7 DEF Finished, vars, ValidMarker
<1> QED
  BY <1>1, <1>2, <1>3, <1>4, <1>5, <1>6, <1>7 DEF Next, Step

\* A valid marker keeps describing every cube file.
LEMMA NextFiles ==
  TypeOK /\ FilesMatchMarker /\ Clearing /\ Writing /\ [Next]_vars => FilesMatchMarker'
<1> SUFFICES ASSUME TypeOK, FilesMatchMarker, Clearing, Writing, [Next]_vars
             PROVE  FilesMatchMarker'
  OBVIOUS
<1> USE DEF FilesMatchMarker, ValidMarker
<1>1. CASE ReadEntry
  <2>1. \A n \in Names : files'[n] \in {files[n], Absent}
    BY <1>1 DEF ReadEntry, TypeOK
  <2> QED
    BY <1>1, <2>1, Constants DEF ReadEntry
<1>2. CASE OpenMarker
  BY <1>2 DEF OpenMarker
<1>3. CASE WriteMarker
  BY <1>3 DEF WriteMarker, Clearing
<1>4. CASE OpenCube
  <2>1. marker = run /\ marker' = run /\ \A n \in Names : files'[n] \in {files[n], run}
    BY <1>4 DEF OpenCube, Writing, TypeOK
  <2> QED
    BY <2>1, Constants
<1>5. CASE DropCube
  <2>1. marker' = marker /\ \A n \in Names : files'[n] \in {files[n], Absent}
    BY <1>5 DEF DropCube, TypeOK
  <2> QED
    BY <2>1, Constants
<1>6. CASE UNCHANGED <<files, marker>>
  BY <1>6
<1> QED
  BY <1>1, <1>2, <1>3, <1>4, <1>5, <1>6
  DEF Next, Step, Start, Prepare, OpenDir, EndOfDir, WriteRow, WriteCube, LastRow, Close,
    Fail, Kill, Finished, directory, vars

LEMMA NextEnding ==
  TypeOK /\ Writing /\ Ending /\ [Next]_vars => Ending'
<1> SUFFICES ASSUME TypeOK, Writing, Ending, [Next]_vars PROVE Ending'
  OBVIOUS
<1>1. (step = "none" <=> outcome # "running")'
  BY DEF Ending, Next, Step, Start, Started, Prepare, OpenDir, ReadEntry, EndOfDir, OpenMarker,
    WriteMarker, WriteRow, OpenCube, WriteCube, DropCube, LastRow, Close, Fail, Kill, Finished,
    Goto, vars, TypeOK
<1>2. (~withCubes => due = {})'
  BY DEF Ending, Next, Step, Start, Started, Prepare, OpenDir, ReadEntry, EndOfDir, OpenMarker,
    WriteMarker, WriteRow, OpenCube, WriteCube, DropCube, LastRow, Close, Fail, Kill, Finished,
    Goto, options, vars, TypeOK
<1>3. (\A n \in tornFiles : files[n] # Absent)'
  <2> USE DEF Ending
  <2>1. CASE ReadEntry
    BY <2>1 DEF ReadEntry, TypeOK, CubeNames, Names
  <2>2. CASE OpenCube
    BY <2>2, Constants DEF OpenCube, Writing, TypeOK, Absent
  <2>3. CASE WriteCube
    BY <2>3 DEF WriteCube
  <2>4. CASE DropCube
    BY <2>4, Constants DEF DropCube, TypeOK
  <2>5. CASE UNCHANGED <<files, tornFiles>>
    BY <2>5
  <2> QED
    BY <2>1, <2>2, <2>3, <2>4, <2>5
    DEF Next, Step, Start, Prepare, OpenDir, EndOfDir, OpenMarker, WriteMarker, WriteRow,
      LastRow, Close, Fail, Kill, Finished, directory, vars
<1> QED
  BY <1>1, <1>2, <1>3 DEF Ending

\* What holds while the rows are written.
LEMMA NextFilesOfRun ==
  ASSUME TypeOK, Preparing, Clearing, Writing, Ending, [Next]_vars,
         step' \in WritingSteps \/ (step' = "close" /\ succeeded')
  PROVE  /\ (~torn /\ succeeded)'
         /\ FilesOfRun'
         /\ (withCubes => tornFiles = (IF step = "writeCube" THEN {LastFault} ELSE {}))'
<1> USE DEF WritingSteps
<1>1. CASE Prepare
  <2>1. step = "prepare" /\ step' = "row" /\ ~withCubes /\ withCubes' = withCubes
    BY <1>1 DEF Prepare, Goto, options
  <2>2. FilesOfRun'
    BY <1>1, <2>1 DEF FilesOfRun, Prepare, Goto, options, directory, Preparing, PreparingSteps,
      Ending
  <2> QED
    BY <1>1, <2>1, <2>2 DEF Prepare, Goto, csvFile, options, Preparing, PreparingSteps
<1>2. CASE WriteMarker
  <2>1. /\ step' = "row" /\ withCubes /\ withCubes' = withCubes /\ marker' = run /\ run' = run
        /\ due' = due /\ files' = files /\ tornFiles' = tornFiles /\ csv' = csv
    BY <1>2 DEF WriteMarker, Goto, csvFile, options, Preparing, PreparingSteps
  <2>2. /\ csv = <<Header>> /\ NextFault' = 0
    BY <1>2, <2>1 DEF WriteMarker, Preparing, PreparingSteps, NextFault
  <2>3. \A n \in CubeNames : n \notin CubesDue'
    <3>1. \A f \in due' : ~(f < 0)
      BY <2>1, Constants DEF TypeOK, Faults
    <3> QED
      BY <2>2, <3>1 DEF CubesDue
  <2>4. \A n \in CubeNames : files[n] = Absent
    BY <1>2 DEF WriteMarker, Clearing
  <2>5. tornFiles = {}
    BY <2>4 DEF Ending, TypeOK
  <2> QED
    BY <1>2, <2>1, <2>3, <2>4, <2>5
    DEF FilesOfRun, WriteMarker, Goto, csvFile, Preparing, PreparingSteps
<1>3. CASE WriteRow
  <2>1. /\ step = "row" /\ ~torn' /\ succeeded' /\ Len(csv') = Len(csv) + 1
        /\ UNCHANGED <<directory, options>>
    <3>1. NextFault \in Faults \union {Header} /\ csv \in Seq(Faults \union {Header})
      BY <1>3, LinesType, Constants DEF WriteRow, NextFault, Faults, Header, TypeOK
    <3>2. Len(csv') = Len(csv) + 1
      BY <1>3, <3>1, AppendProperties DEF WriteRow
    <3>3. step = "row" /\ torn' \in BOOLEAN /\ succeeded'
      BY <1>3 DEF WriteRow
    <3>4. ~torn'
      BY <1>3, <3>3 DEF WriteRow
    <3> QED
      BY <1>3, <3>2, <3>3, <3>4 DEF WriteRow
  <2>2. NextFault' = NextFault + 1 /\ LastFault' = NextFault
    BY <2>1, LinesType DEF NextFault, LastFault
  <2>3. CubesDue' = CubesDue
    <3>1. step' = "openCube" <=> NextFault \in due
      BY <1>3, <2>1 DEF WriteRow
    <3>2. NextFault \in Int /\ due' = due /\ due \subseteq Int
      BY <2>1, LinesType, Constants DEF NextFault, options, TypeOK
    <3> QED
      <4>1. \A f \in due : f \in CubesDue' <=>
                           f < NextFault + 1 /\ (NextFault \in due => f # NextFault)
        BY <2>2, <3>1, <3>2 DEF CubesDue
      <4>2. \A f \in due : f \in CubesDue <=> f < NextFault
        BY <2>1 DEF CubesDue
      <4>3. \A f \in due : f \in CubesDue' <=> f \in CubesDue
        BY <3>2, <4>1, <4>2
      <4>4. CubesDue' \subseteq due /\ CubesDue \subseteq due
        BY <3>2 DEF CubesDue
      <4> QED
        BY <4>3, <4>4
  <2>4. step' # "writeCube"
    BY <1>3 DEF WriteRow
  <2> QED
    BY <2>1, <2>3, <2>4 DEF Writing, FilesOfRun, directory, options
<1>4. CASE OpenCube
  <2>1. /\ step = "openCube" /\ step' = "writeCube" /\ withCubes /\ LastFault \in due /\ marker = run
        /\ UNCHANGED <<csvFile, options, marker, succeeded>>
    BY <1>4 DEF OpenCube, Goto, Writing
  <2>2. CubesDue' = CubesDue \union {LastFault}
    <3>1. LastFault < NextFault
      BY LinesType DEF LastFault, NextFault
    <3> QED
      BY <2>1, <3>1 DEF CubesDue, LastFault, NextFault, csvFile, options
  <2>3. \A n \in CubeNames : files'[n] = IF n = LastFault THEN run ELSE files[n]
    BY <1>4, Constants DEF OpenCube, TypeOK
  <2>4. FilesOfRun'
    BY <2>1, <2>2, <2>3 DEF FilesOfRun, Writing, options
  <2>5. tornFiles' = {LastFault} /\ LastFault' = LastFault
    BY <1>4, <2>1 DEF OpenCube, Writing, LastFault, NextFault, csvFile
  <2> QED
    BY <2>1, <2>4, <2>5 DEF Writing, csvFile
<1>5. CASE WriteCube
  <2>1. /\ step = "writeCube" /\ step' = "row" /\ withCubes /\ tornFiles' = tornFiles \ {LastFault}
        /\ UNCHANGED <<csvFile, options, files, marker, succeeded>>
    BY <1>5 DEF WriteCube, Goto, Writing
  <2>2. CubesDue' = CubesDue
    BY <2>1 DEF CubesDue, LastFault, NextFault, csvFile, options
  <2> QED
    BY <2>1, <2>2 DEF FilesOfRun, Writing, csvFile, options
<1>6. CASE LastRow
  <2>1. step = "row" /\ step' = "close" /\ UNCHANGED <<csvFile, options, directory, succeeded>>
    BY <1>6 DEF LastRow, Goto
  <2>2. CubesDue' = CubesDue
    BY <2>1 DEF CubesDue, LastFault, NextFault, csvFile, options
  <2> QED
    BY <2>1, <2>2 DEF FilesOfRun, Writing, csvFile, options, directory
<1>7. CASE Start \/ OpenDir \/ ReadEntry \/ EndOfDir \/ OpenMarker \/ DropCube \/ Close \/ Fail \/ Kill
  BY <1>7 DEF Start, Started, OpenDir, ReadEntry, EndOfDir, OpenMarker, DropCube, Close, Fail,
    Kill, Goto
<1>8. CASE Finished \/ UNCHANGED vars
  BY <1>8 DEF Finished, vars, FilesOfRun, Writing, CubesDue, NextFault, LastFault
<1> QED
  BY <1>1, <1>2, <1>3, <1>4, <1>5, <1>6, <1>7, <1>8 DEF Next, Step

\* How far the rows have come, and which cube file is at hand.
LEMMA NextProgress ==
  ASSUME TypeOK, Preparing, Writing, Ending, [Next]_vars
  PROVE  /\ (step \in {"openCube", "writeCube", "dropCube"} =>
               withCubes /\ LastFault \in due /\ marker = run)'
         /\ (step = "dropCube" => LastFault \in tornFiles)'
         /\ (step = "close" /\ succeeded => NextFault = FaultCount)'
         /\ (step \in WritingSteps => NextFault \in 0 .. FaultCount)'
<1> USE DEF Writing, WritingSteps
<1>1. CASE WriteRow
  <2>1. NextFault \in 0 .. FaultCount - 1
    BY <1>1, Constants DEF WriteRow
  <2>2. Len(csv') = Len(csv) + 1
    <3>1. NextFault \in Faults \union {Header} /\ csv \in Seq(Faults \union {Header})
      BY <2>1 DEF Faults, TypeOK
    <3> QED
      BY <1>1, <3>1, AppendProperties DEF WriteRow
  <2>3. NextFault' = NextFault + 1 /\ LastFault' = NextFault
    BY <2>2, LinesType DEF NextFault, LastFault
  <2>4. NextFault' \in 0 .. FaultCount
    BY <2>1, <2>3, Constants
  <2>5. step' = "openCube" => withCubes' /\ LastFault' \in due' /\ marker' = run'
    BY <1>1, <2>3 DEF WriteRow, Ending, FilesOfRun, directory, options
  <2> QED
    BY <1>1, <2>4, <2>5 DEF WriteRow
<1>2. CASE WriteMarker \/ Prepare
  <2>1. csv' = <<Header>>
    BY <1>2 DEF WriteMarker, Prepare, Goto, csvFile, Preparing, PreparingSteps
  <2>2. NextFault' = 0 /\ 0 \in 0 .. FaultCount
    BY <2>1, Constants DEF NextFault
  <2> QED
    BY <1>2, <2>2 DEF WriteMarker, Prepare, Goto
<1>3. CASE OpenCube \/ WriteCube \/ LastRow
  <2>1. NextFault' = NextFault /\ LastFault' = LastFault
    BY <1>3 DEF OpenCube, WriteCube, LastRow, Goto, csvFile, NextFault, LastFault
  <2>2. step' = "dropCube" => LastFault \in tornFiles'
    BY <1>3 DEF OpenCube, WriteCube, LastRow, Goto
  <2> QED
    BY <1>3, <2>1, <2>2 DEF OpenCube, WriteCube, LastRow, Goto, options, directory
<1>4. CASE Start \/ OpenDir \/ ReadEntry \/ EndOfDir \/ OpenMarker \/ DropCube \/ Close \/ Fail \/ Kill
  BY <1>4 DEF Start, Started, OpenDir, ReadEntry, EndOfDir, OpenMarker, DropCube, Close, Fail,
    Kill, Goto
<1>5. CASE Finished \/ UNCHANGED vars
  BY <1>5 DEF Finished, vars, NextFault, LastFault
<1> QED
  BY <1>1, <1>2, <1>3, <1>4, <1>5 DEF Next, Step

LEMMA NextWriting ==
  TypeOK /\ Preparing /\ Clearing /\ Writing /\ Ending /\ [Next]_vars => Writing'
BY NextFilesOfRun, NextProgress DEF Writing

\* At the end of a successful run every cube file is due.
LEMMA NextSuccess ==
  TypeOK /\ Writing /\ Ending /\ SuccessIsWhole /\ [Next]_vars => SuccessIsWhole'
<1> SUFFICES ASSUME TypeOK, Writing, Ending, SuccessIsWhole, [Next]_vars, outcome' = "ok"
             PROVE  SuccessIsWhole'
  BY DEF SuccessIsWhole
<1>1. CASE Close
  <2>1. step = "close" /\ succeeded /\ UNCHANGED <<csvFile, directory, options>>
    BY <1>1 DEF Close
  <2>2. Len(csv) = FaultCount + 1 /\ ~torn
    BY <2>1, LinesType, Constants DEF Writing, NextFault
  <2>3. withCubes => tornFiles = {}
    BY <2>1 DEF Writing
  <2>4. CubesDue = due
    <3>1. \A f \in due : f < FaultCount
      BY Constants DEF TypeOK, Faults
    <3> QED
      BY <2>1, <3>1 DEF CubesDue, Writing
  <2>5. withCubes => marker = run /\ \A n \in CubeNames : files[n] = IF n \in due THEN run ELSE Absent
    BY <2>1, <2>4 DEF Writing, FilesOfRun
  <2> QED
    BY <2>1, <2>2, <2>3, <2>5 DEF SuccessIsWhole, csvFile, directory, options
<1>2. CASE ~Close
  <2>1. outcome' = outcome /\ step = "none"
    BY <1>2 DEF Next, Step, Start, Started, Prepare, OpenDir, ReadEntry, EndOfDir, OpenMarker,
      WriteMarker, WriteRow, OpenCube, WriteCube, DropCube, LastRow, Fail, Kill, Finished,
      Goto, vars, Ending
  <2>2. UNCHANGED vars
    BY <1>2, <2>1 DEF Next, Step, Start, Started, Prepare, OpenDir, ReadEntry, EndOfDir,
      OpenMarker, WriteMarker, WriteRow, OpenCube, WriteCube, DropCube, LastRow, Fail, Kill,
      Finished
  <2> QED
    BY <2>2 DEF vars, SuccessIsWhole
<1> QED
  BY <1>1, <1>2

\* The three phases hold in every state of every run.
THEOREM RunInvCorrect == Spec => []RunInv
<1>1. Init => RunInv
  BY InitRun
<1>2. RunInv /\ [Next]_vars => RunInv'
  BY NextType, NextPreparing, NextClearing, NextFiles, NextEnding, NextWriting, NextSuccess
  DEF RunInv
<1> QED
  BY <1>1, <1>2, PTL DEF Spec

-----------------------------------------------------------------------------

\* A valid marker describes every cube file beside it (PrepareDirectory).
THEOREM FilesCorrect == Spec => []FilesMatchMarker
<1>1. RunInv => FilesMatchMarker
  BY DEF RunInv
<1> QED
  BY <1>1, RunInvCorrect, PTL

\* A run that reports success is whole (AnalyzeFaultDensity, WriteCubeFile).
THEOREM SuccessCorrect == Spec => []SuccessIsWhole
<1>1. RunInv => SuccessIsWhole
  BY DEF RunInv
<1> QED
  BY <1>1, RunInvCorrect, PTL

\* No step touches a user's file or a directory that is not the program's
\* (PrepareDirectory, WriteCubeFile).
THEOREM UserFilesCorrect == Spec => UserFilesKept
<1> DEFINE UserKept ==
      /\ \A n \in UserFiles : files'[n] = files[n]
      /\ files' # files => ValidMarker
      /\ marker = Absent /\ Entries # {} => marker' = Absent
<1>1. RunInv /\ [Next]_vars => [UserKept]_vars
  <2> SUFFICES ASSUME RunInv, [Next]_vars PROVE UserKept
    OBVIOUS
  <2> USE DEF RunInv, ValidMarker
  <2>1. CASE ReadEntry
    <3>1. \A n \in UserFiles : files'[n] = files[n]
      BY <2>1, Constants DEF ReadEntry, IsCubeFilename, TypeOK
    <3>2. files' # files => owned
      BY <2>1 DEF ReadEntry
    <3>3. marker' = marker /\ step = "readDir"
      BY <2>1 DEF ReadEntry
    <3> QED
      BY <3>1, <3>2, <3>3 DEF Clearing
  <2>2. CASE OpenCube \/ DropCube
    <3>1. marker = run /\ marker' = marker /\ LastFault \in CubeNames
      BY <2>2, Constants DEF OpenCube, DropCube, Writing, TypeOK
    <3>2. \A n \in UserFiles : files'[n] = files[n]
      BY <2>2, <3>1, Constants DEF OpenCube, DropCube, TypeOK
    <3>3. ValidMarker
      BY <3>1 DEF TypeOK, Absent, Invalid
    <3> QED
      BY <3>1, <3>2, <3>3
  <2>3. CASE OpenMarker \/ WriteMarker
    <3>1. files' = files
      BY <2>3 DEF OpenMarker, WriteMarker
    <3>2. marker = Absent => Entries = {}
      BY <2>3 DEF OpenMarker, WriteMarker, Clearing, Entries
    <3> QED
      BY <3>1, <3>2
  <2>4. CASE UNCHANGED <<files, marker>>
    BY <2>4
  <2> QED
    BY <2>1, <2>2, <2>3, <2>4
    DEF Next, Step, Start, Prepare, OpenDir, EndOfDir, WriteRow, WriteCube, LastRow, Close,
      Fail, Kill, Finished, directory, vars
<1> QED
  BY <1>1, RunInvCorrect, PTL DEF Spec, UserFilesKept

-----------------------------------------------------------------------------
(***************************************************************************)
(* The run implements FaultReport                                          *)
(***************************************************************************)

\* The cube files of the report: those of this run that are whole.
WholeFiles == {f \in Faults : files[f] = run /\ f \notin tornFiles}

LEMMA InitReport == Init => Report!Init
<1> SUFFICES ASSUME Init PROVE Report!Init
  OBVIOUS
<1>1. due \subseteq Faults
  BY DEF Init
<1>2. {f \in Faults : files[f] = run /\ f \notin tornFiles} = {}
  <2>1. \A f \in Faults : files[f] \in {Absent, 0}
    BY Constants DEF Init
  <2>2. \A f \in Faults : files[f] # run
    BY <2>1 DEF Init, Absent
  <2> QED
    BY <2>2
<1> QED
  BY <1>1, <1>2 DEF Init, Report!Init, Report!Header, Header, Report!Faults, Faults

\* While the rows are written, the cube files of the report are those due.
LEMMA WritingReport ==
  ASSUME RunInv, step \in WritingSteps \/ (step = "close" /\ succeeded)
  PROVE  WholeFiles = {f \in CubesDue : step = "writeCube" => f # LastFault}
<1>1. CASE withCubes
  <2>1. \A f \in Faults : files[f] = run <=> f \in CubesDue
    BY <1>1, Constants DEF RunInv, TypeOK, Writing, FilesOfRun, Absent
  <2>2. \A f : f \in tornFiles <=> step = "writeCube" /\ f = LastFault
    BY <1>1 DEF RunInv, Writing
  <2>3. CubesDue \subseteq Faults
    BY DEF RunInv, TypeOK, CubesDue
  <2> QED
    BY <2>1, <2>2, <2>3 DEF WholeFiles
<1>2. CASE ~withCubes
  <2>1. due = {} /\ \A n \in Names : files[n] # run
    BY <1>2 DEF RunInv, Writing, FilesOfRun
  <2> QED
    BY <2>1, Constants DEF WholeFiles, CubesDue
<1> QED
  BY <1>1, <1>2 DEF RunInv, TypeOK

LEMMA SettledReport ==
  ASSUME RunInv, step = "row" \/ (step = "close" /\ succeeded)
  PROVE  Report!Settled
<1>1. WholeFiles = {f \in due : f < NextFault}
  BY WritingReport DEF CubesDue, WritingSteps
<1>2. Report!NextFault = NextFault
  BY DEF Report!NextFault, NextFault
<1>3. \A f \in due : f < NextFault => f \in WholeFiles
  BY <1>1
<1> QED
  BY <1>2, <1>3 DEF Report!Settled, WholeFiles

\* Only Start, WriteRow, WriteCube and the end of the run are steps of the report.
LEMMA QuietStep ==
  ASSUME RunInv, [Next]_vars, ~Start, ~WriteRow, ~WriteCube, ~Close, ~Kill
  PROVE  UNCHANGED <<due, csv, torn, outcome>> /\ WholeFiles' = WholeFiles
<1>1. UNCHANGED <<due, csv, torn, outcome, run>>
  BY DEF Next, Step, Prepare, OpenDir, ReadEntry, EndOfDir, OpenMarker, WriteMarker, OpenCube,
    DropCube, LastRow, Fail, Finished, Goto, csvFile, options, vars
<1>2. CASE ReadEntry
  <2>1. \A f \in Faults : files[f] # run
    BY <1>2, Constants DEF ReadEntry, RunInv, Preparing, PreparingSteps
  <2>2. \A f \in Faults : files'[f] \in {files[f], Absent}
    BY <1>2, Constants DEF ReadEntry, RunInv, TypeOK
  <2>3. \A f \in Faults : files'[f] # run
    BY <2>1, <2>2 DEF RunInv, TypeOK, Absent
  <2> QED
    BY <1>1, <2>1, <2>3 DEF WholeFiles
<1>3. CASE OpenCube \/ DropCube
  <2>1. LastFault \in Faults /\ LastFault \notin WholeFiles
    <3>1. CASE OpenCube
      <4>1. WholeFiles = CubesDue /\ LastFault \notin CubesDue
        BY <3>1, WritingReport DEF OpenCube, WritingSteps, CubesDue
      <4> QED
        BY <3>1, <4>1 DEF OpenCube, RunInv, Writing, TypeOK
    <3>2. CASE DropCube
      BY <3>2 DEF DropCube, WholeFiles, RunInv, Writing, TypeOK
    <3> QED
      BY <1>3, <3>1, <3>2
  <2>2. LastFault \notin WholeFiles'
    BY <1>1, <1>3, <2>1, Constants DEF OpenCube, DropCube, WholeFiles, RunInv, Writing, TypeOK, Absent
  <2>3. \A f \in Faults : f # LastFault =>
           files'[f] = files[f] /\ (f \in tornFiles' <=> f \in tornFiles)
    BY <1>3, Constants DEF OpenCube, DropCube, RunInv, TypeOK
  <2> QED
    BY <1>1, <2>1, <2>2, <2>3 DEF WholeFiles
<1>4. CASE UNCHANGED <<files, tornFiles>>
  BY <1>1, <1>4 DEF WholeFiles
<1> QED
  BY <1>2, <1>3, <1>4 DEF Next, Step, Prepare, OpenDir, EndOfDir, OpenMarker, WriteMarker,
    LastRow, Fail, Finished, directory, vars

LEMMA NextReport == RunInv /\ [Next]_vars => [Report!Next]_(Report!vars)
<1> SUFFICES ASSUME RunInv, [Next]_vars PROVE [Report!Next]_(Report!vars)
  OBVIOUS
<1>a. Report!NextFault = NextFault
  BY DEF Report!NextFault, NextFault
<1>1. CASE Start
  <2>1. outcome # "running" /\ outcome' = "running" /\ csv' = <<Header>> /\ torn' = FALSE
    BY <1>1 DEF Start, Started, RunInv, Ending
  <2>2. due' \in SUBSET Faults
    BY <1>1 DEF Start, Started
  <2>3. WholeFiles' = {}
    <3>1. \A f \in Faults : files[f] \in 0 .. run \union {Absent}
      BY Constants DEF RunInv, TypeOK
    <3>2. files' = files /\ run' = run + 1 /\ run \in Nat
      BY <1>1 DEF Start, directory, RunInv, TypeOK
    <3>3. \A f \in Faults : files'[f] # run'
      BY <3>1, <3>2 DEF Absent
    <3> QED
      BY <3>3 DEF WholeFiles
  <2>4. Report!Restart
    BY <2>1, <2>2, <2>3
    DEF Report!Restart, WholeFiles, Report!Faults, Faults, Report!Header, Header
  <2> QED
    BY <2>4 DEF Report!Next
<1>2. CASE WriteRow
  <2>1. step = "row" /\ ~torn /\ outcome = "running" /\ Report!Settled
    BY <1>2, SettledReport DEF WriteRow, RunInv, Ending, Writing, WritingSteps
  <2>2. WholeFiles' = WholeFiles /\ UNCHANGED <<due, outcome>> /\ torn' \in BOOLEAN
    BY <1>2 DEF WriteRow, directory, options, WholeFiles
  <2>3. Report!WriteRow
    BY <1>2, <1>a, <2>1, <2>2 DEF WriteRow, Report!WriteRow, WholeFiles
  <2> QED
    BY <2>3 DEF Report!Next
<1>3. CASE WriteCube
  <2>1. /\ step = "writeCube" /\ ~torn /\ outcome = "running" /\ LastFault \in due
        /\ UNCHANGED <<due, csv, torn, outcome, files, run>>
    BY <1>3 DEF WriteCube, RunInv, Ending, Writing, WritingSteps, Goto, csvFile, options
  <2>2. CASE UNCHANGED tornFiles
    BY <2>1, <2>2 DEF Report!vars
  <2>3. CASE tornFiles' = tornFiles \ {LastFault}
    <3>1. LastFault \in Faults /\ files[LastFault] = run
      <4>1. LastFault < NextFault
        BY LinesType DEF RunInv, LastFault, NextFault
      <4>2. LastFault \in CubesDue
        BY <2>1, <4>1 DEF CubesDue
      <4> QED
        BY <2>1, <4>2, Constants DEF RunInv, Writing, WritingSteps, FilesOfRun, TypeOK
    <3>2. LastFault \notin WholeFiles
      BY <2>1, WritingReport DEF WritingSteps
    <3>3. WholeFiles' = WholeFiles \union {LastFault}
      BY <2>1, <2>3, <3>1 DEF WholeFiles
    <3>4. Report!WriteCubes
      BY <1>a, <2>1, <3>2, <3>3 DEF Report!WriteCubes, WholeFiles, LastFault
    <3> QED
      BY <3>4 DEF Report!Next
  <2> QED
    BY <1>3, <2>2, <2>3 DEF WriteCube
<1>4. CASE Close /\ outcome' = "ok"
  <2>1. /\ step = "close" /\ succeeded /\ outcome = "running"
        /\ UNCHANGED <<due, csv, torn, files, tornFiles, run>>
    BY <1>4 DEF Close, RunInv, Ending, csvFile, options, directory
  <2>2. ~torn /\ NextFault = FaultCount /\ Report!Settled
    BY <2>1, SettledReport DEF RunInv, Writing
  <2>3. Report!Succeed
    BY <1>4, <1>a, <2>1, <2>2 DEF Report!Succeed
  <2> QED
    BY <2>3 DEF Report!Next
<1>5. CASE Kill \/ (Close /\ outcome' # "ok")
  <2>1. /\ outcome = "running" /\ outcome' = "failed"
        /\ UNCHANGED <<due, files, tornFiles, run>>
    BY <1>5 DEF Kill, Close, RunInv, Ending, options, directory
  <2>2. (\E n \in 0 .. Len(csv) : csv' = SubSeq(csv, 1, n)) /\ torn' \in BOOLEAN
    <3>1. CASE LosingLines
      BY <3>1 DEF LosingLines
    <3>2. CASE UNCHANGED csvFile
      <4>1. Len(csv) \in 0 .. Len(csv) /\ SubSeq(csv, 1, Len(csv)) = csv
        BY LinesType, SubSeqFull DEF RunInv, TypeOK
      <4>2. csv' = csv /\ torn' \in BOOLEAN
        BY <3>2 DEF csvFile, RunInv, TypeOK
      <4> DEFINE n == Len(csv)
      <4>3. n \in 0 .. n /\ csv' = SubSeq(csv, 1, n)
        BY <4>1, <4>2
      <4> HIDE DEF n
      <4>4. n \in 0 .. Len(csv)
        BY <4>3 DEF n
      <4> QED
        BY <4>2, <4>3, <4>4
    <3> QED
      BY <1>5, <3>1, <3>2 DEF Kill, Close
  <2>3. Report!Fail
    BY <2>1, <2>2 DEF Report!Fail
  <2> QED
    BY <2>3 DEF Report!Next
<1>6. CASE ~Start /\ ~WriteRow /\ ~WriteCube /\ ~Close /\ ~Kill
  BY <1>6, QuietStep DEF Report!vars, WholeFiles
<1> QED
  BY <1>1, <1>2, <1>3, <1>4, <1>5, <1>6

\* The serial run, with every failure, kill and rerun, implements the report
\* that the worker pool implements too (AnalyzeIndependentFaults).
THEOREM RunImplementsReport == Spec => ImplementsReport
<1> QED
  BY RunInvCorrect, InitReport, NextReport, PTL DEF Spec, ImplementsReport, Report!Spec

-----------------------------------------------------------------------------
(***************************************************************************)
(* The outputs of a run: once the options have been checked their paths    *)
(* are apart, so that whatever is written stays.                           *)
(***************************************************************************)
OptionNames == PathOptions \union ValueOptions \union {"-calc_f", "model"}

\* Of the outputs only the log and the CSV may share a path.
PathsApart ==
  /\ Given("-fdp") /\ Given("-log")
  /\ Given("-cube") => opt["-cube"] # opt["-fdp"] /\ opt["-cube"] # opt["-log"]
  /\ Enabled => \A other \in {"-fdp", "-log", "-cube"} : opt[other] # opt["-calc_f_out"]

\* The file of an output, and what it holds.
Holds(option, content) ==
  opt[option] \in DOMAIN written /\ written[opt[option]] = content

AnalysisWritten ==
  /\ opt["-fdp"] \in DOMAIN written
  /\ ~Same("-fdp", "-log") => Holds("-fdp", "rows")
  /\ Given("-cube") => Holds("-cube", "cubes")
LogWritten == logOkay => Holds("-log", "log")

OutputsInv ==
  /\ DOMAIN opt = OptionNames
  /\ pc \notin {"options", "failed"} => PathsApart
  /\ pc = "log" => AnalysisWritten
  /\ pc \in {"open", "read", "report", "exit", "ok"} => AnalysisWritten /\ LogWritten
  /\ pc \in {"read", "report"} => Holds("-fdp", "rows")
  /\ pc \in {"exit", "ok"} =>
       (Enabled => Holds("-fdp", "rows") /\ Holds("-calc_f_out", "report"))
  /\ pc \in {"open", "read", "report"} => Enabled
  /\ pc = "ok" => logOkay

LEMMA OutputsInvInit == MainInit => OutputsInv
BY DEF MainInit, OptionsInit, OutputsInv, OptionNames, Unset, PathOptions, ValueOptions

\* What is written stands; what other files hold stays.
LEMMA Overwritten ==
  ASSUME NEW contents, NEW option, NEW content
  PROVE  LET f == Overwrite(contents, option, content)
         IN /\ opt[option] \in DOMAIN f /\ f[opt[option]] = content
            /\ \A path \in DOMAIN contents :
                 path \in DOMAIN f /\ (path # opt[option] => f[path] = contents[path])
BY DEF Overwrite

\* Reading the options ends with the paths apart.
LEMMA ReadingKeepsOutputs ==
  ASSUME OutputsInv, SetOptions
  PROVE  OutputsInv'
<1>1. /\ pc = "options" /\ pc' \in {"options", "failed", "circuit"}
      /\ DOMAIN opt' = DOMAIN opt
  <2>1. CASE ReadArgument \/ ReadLine
    <3>1. \A s : Take(s) => DOMAIN opt' = DOMAIN opt /\ pc' \in {pc, "failed"}
      BY DEF Take, Store, Stop
    <3>2. pc = "options" /\ DOMAIN opt' = DOMAIN opt /\ pc' \in {pc, "failed"}
      BY <2>1, <3>1 DEF ReadArgument, ReadLine
    <3> QED BY <3>2
  <2>2. CASE CheckOptions
    BY <2>2 DEF CheckOptions, Stop
  <2> QED BY <2>1, <2>2 DEF SetOptions, ReadOptions
<1>2. ASSUME pc' = "circuit" PROVE PathsApart'
  <2>1. CheckOptions /\ Consistent
    <3>1. \A s : Take(s) => pc' \in {pc, "failed"}
      BY DEF Take, Stop
    <3>2. ReadArgument \/ ReadLine => pc' \in {pc, "failed"}
      BY <3>1 DEF ReadArgument, ReadLine
    <3>3. CheckOptions
      BY <1>1, <1>2, <3>2 DEF SetOptions, ReadOptions
    <3> QED BY <1>2, <3>3 DEF CheckOptions, Stop
  <2>2. "-calc_f_out" \in DOMAIN opt
    BY DEF OutputsInv, OptionNames, ValueOptions
  <2>3. \A name \in OptionNames : name # "-calc_f_out" => opt'[name] = opt[name]
    BY <2>1 DEF CheckOptions, OutputsInv
  <2>4. Given("-fdp") /\ Given("-log")
    BY <2>1 DEF Consistent
  <2>5. Given("-cube") => opt["-cube"] # opt["-fdp"] /\ opt["-cube"] # opt["-log"]
    BY <2>1 DEF Consistent, Same
  <2>6. Enabled => \A other \in {"-fdp", "-log", "-cube"} : opt[other] # opt'["-calc_f_out"]
    BY <2>1, <2>2 DEF CheckOptions, Consistent, ReportApart
  <2>7. {"-fdp", "-log", "-cube", "-calc_f"} \subseteq OptionNames
    BY DEF OptionNames, PathOptions
  <2> QED BY <2>3, <2>4, <2>5, <2>6, <2>7 DEF PathsApart, Given, Enabled
<1> QED BY <1>1, <1>2 DEF OutputsInv

\* Steps that write nothing.
LEMMA OthersKeepOutputs ==
  ASSUME OutputsInv,
         PrepareCircuit \/ OpenRows \/ ReadRow \/ EndRows \/ LoseRows \/ TearRow \/ Exit \/ Ended
  PROVE  OutputsInv'
<1>1. opt' = opt /\ written' = written /\ logOkay' = logOkay
  BY DEF PrepareCircuit, OpenRows, ReadRow, EndRows, LoseRows, TearRow, Exit, Ended, Untouched,
         mainVars
<1>2. \/ pc' = pc
      \/ pc' = "failed"
      \/ pc = "circuit" /\ pc' = "analyse"
      \/ pc = "open" /\ pc' = "read" /\ written[opt["-fdp"]] = "rows"
      \/ pc = "read" /\ pc' = "report"
      \/ pc = "exit" /\ pc' = "ok" /\ logOkay
  BY DEF PrepareCircuit, OpenRows, ReadRow, EndRows, EndReading, LoseRows, TearRow, Exit, Ended,
         Untouched, mainVars, Stop
<1>3. pc = "open" /\ written[opt["-fdp"]] = "rows" => Holds("-fdp", "rows")
  BY DEF OutputsInv, AnalysisWritten, Holds
<1>4. /\ PathsApart' = PathsApart /\ AnalysisWritten' = AnalysisWritten /\ LogWritten' = LogWritten
      /\ Enabled' = Enabled /\ Holds("-calc_f_out", "report")' = Holds("-calc_f_out", "report")
      /\ Holds("-fdp", "rows")' = Holds("-fdp", "rows")
  BY <1>1 DEF PathsApart, AnalysisWritten, LogWritten, Given, Enabled, Same, Holds
<1> QED BY <1>1, <1>2, <1>3, <1>4 DEF OutputsInv

LEMMA AnalyseKeepsOutputs ==
  ASSUME OutputsInv, Analyse
  PROVE  OutputsInv'
<1>1. opt' = opt /\ pc = "analyse" /\ PathsApart
  BY DEF Analyse, Untouched, OutputsInv
<1>2. PathsApart'
  BY <1>1 DEF PathsApart, Given, Enabled
<1>3. CASE pc' = "failed"
  BY <1>1, <1>3 DEF OutputsInv
<1>4. CASE pc' # "failed"
  <2> DEFINE w == IF Given("-cube") THEN Overwrite(written, "-cube", "cubes") ELSE written
  <2>1. pc' = "log" /\ written' = Overwrite(w, "-fdp", "rows")
    BY <1>4 DEF Analyse, Stop
  <2>2. Given("-cube") => opt["-cube"] \in DOMAIN w /\ w[opt["-cube"]] = "cubes"
    BY Overwritten
  <2> HIDE DEF w
  <2>3. /\ opt["-fdp"] \in DOMAIN written' /\ written'[opt["-fdp"]] = "rows"
        /\ \A path \in DOMAIN w :
             path \in DOMAIN written' /\ (path # opt["-fdp"] => written'[path] = w[path])
    BY <2>1, Overwritten
  <2>4. Given("-cube") => opt["-cube"] # opt["-fdp"]
    BY <1>1 DEF PathsApart
  <2>5. AnalysisWritten'
    BY <1>1, <2>2, <2>3, <2>4 DEF AnalysisWritten, Holds, Given, Same
  <2> QED BY <1>1, <1>2, <2>1, <2>5 DEF OutputsInv
<1> QED BY <1>3, <1>4

LEMMA LogKeepsOutputs ==
  ASSUME OutputsInv, WriteLog
  PROVE  OutputsInv'
<1>1. opt' = opt /\ pc = "log" /\ PathsApart /\ AnalysisWritten
  BY DEF WriteLog, Untouched, OutputsInv
<1>2. PathsApart'
  BY <1>1 DEF PathsApart, Given, Enabled
<1>3. CASE pc' = "failed"
  BY <1>1, <1>3 DEF OutputsInv
<1>4. CASE pc' # "failed"
  <2>1. PICK content : /\ pc' = IF Enabled THEN "open" ELSE "exit"
                       /\ written' = Overwrite(written, "-log", content)
                       /\ logOkay' => content = "log"
    BY <1>4 DEF WriteLog, Stop, Write
  <2>2. /\ opt["-log"] \in DOMAIN written' /\ written'[opt["-log"]] = content
        /\ \A path \in DOMAIN written :
             path \in DOMAIN written' /\ (path # opt["-log"] => written'[path] = written[path])
    BY <2>1, Overwritten
  <2>3. LogWritten'
    BY <1>1, <2>1, <2>2 DEF LogWritten, Holds
  <2>4. ~Same("-fdp", "-log") => opt["-fdp"] # opt["-log"]
    BY <1>1 DEF PathsApart, Same
  <2>5. Given("-cube") => opt["-cube"] # opt["-log"]
    BY <1>1 DEF PathsApart
  <2>6. AnalysisWritten'
    BY <1>1, <2>2, <2>4, <2>5 DEF AnalysisWritten, Holds, Given, Same
  <2> QED BY <1>1, <1>2, <2>1, <2>3, <2>6 DEF OutputsInv, Enabled, Given
<1> QED BY <1>3, <1>4

LEMMA ReportKeepsOutputs ==
  ASSUME OutputsInv, WriteReport
  PROVE  OutputsInv'
<1>1. opt' = opt /\ pc = "report" /\ PathsApart /\ AnalysisWritten /\ LogWritten /\ logOkay' = logOkay
  BY DEF WriteReport, Untouched, OutputsInv
<1>2. PathsApart'
  BY <1>1 DEF PathsApart, Given, Enabled
<1>3. CASE pc' = "failed"
  BY <1>1, <1>3 DEF OutputsInv
<1>4. CASE pc' # "failed"
  <2>1. pc' = "exit" /\ written' = Overwrite(written, "-calc_f_out", "report")
    BY <1>4 DEF WriteReport, Stop, Write
  <2>2. /\ opt["-calc_f_out"] \in DOMAIN written' /\ written'[opt["-calc_f_out"]] = "report"
        /\ \A path \in DOMAIN written :
             path \in DOMAIN written' /\ (path # opt["-calc_f_out"] => written'[path] = written[path])
    BY <2>1, Overwritten
  <2>3. Enabled => \A other \in {"-fdp", "-log", "-cube"} : opt[other] # opt["-calc_f_out"]
    BY <1>1 DEF PathsApart
  <2>4. Holds("-calc_f_out", "report")'
    BY <1>1, <2>2 DEF Holds
  <2>5. Enabled
    BY <1>1 DEF OutputsInv
  <2>6. AnalysisWritten' /\ LogWritten'
    BY <1>1, <2>2, <2>3, <2>5 DEF AnalysisWritten, LogWritten, Holds, Same, Given
  <2>7. Holds("-fdp", "rows")'
    <3>1. Holds("-fdp", "rows")
      BY <1>1 DEF OutputsInv
    <3> QED BY <1>1, <2>2, <2>3, <2>5, <3>1 DEF Holds
  <2> QED BY <1>1, <1>2, <2>1, <2>4, <2>6, <2>7 DEF OutputsInv
<1> QED BY <1>3, <1>4

\* A run that reports success has left every output it was asked for, whatever
\* the options, the circuit and the failures, but for one case: a -log that
\* names the CSV leaves the log in its place when no -calc_f reads the rows
\* back.  All other paths were apart when writing began, and each is written
\* once; with -calc_f the rows had to be there after the log was written.
THEOREM OutputsCorrect == MainSpec => []SuccessKeepsOutputs
<1>1. OutputsInv /\ [MainNext]_mainVars => OutputsInv'
  <2> SUFFICES ASSUME OutputsInv, [MainNext]_mainVars PROVE OutputsInv'
    OBVIOUS
  <2>1. CASE UNCHANGED mainVars
    <3>1. opt' = opt /\ written' = written /\ logOkay' = logOkay /\ pc' = pc
      BY <2>1 DEF mainVars
    <3> QED BY <3>1 DEF OutputsInv, PathsApart, AnalysisWritten, LogWritten, Given, Enabled, Same, Holds
  <2>2. CASE MainNext
    BY <2>2, ReadingKeepsOutputs, OthersKeepOutputs, AnalyseKeepsOutputs, LogKeepsOutputs,
       ReportKeepsOutputs DEF MainNext
  <2> QED BY <2>1, <2>2
<1>2. OutputsInv => SuccessKeepsOutputs
  BY DEF OutputsInv, SuccessKeepsOutputs, AnalysisWritten, LogWritten, Holds
<1> QED BY <1>1, <1>2, OutputsInvInit, PTL DEF MainSpec

-----------------------------------------------------------------------------
(***************************************************************************)
(* For any number of inputs, any fault and any behaviour of the solver and *)
(* of the don't-care identification, a complete row is exact and an        *)
(* incomplete one a strict lower bound.  The argument: the blocking clause *)
(* of a cube excludes exactly the patterns the BDD of the cube counts, so  *)
(* what is left for the solver is what the cubes do not cover yet.         *)
(***************************************************************************)
USE InputCountAssumption, LimitsAssumption, DensityCapsAssumption DEF Inputs

-----------------------------------------------------------------------------
(***************************************************************************)
(* Patterns, cubes and clauses                                             *)
(***************************************************************************)

\* There are finitely many input patterns: a pattern is determined by the
\* inputs that are 1.
LEMMA PatternsFinite == IsFiniteSet(Patterns)
<1> DEFINE Ones(p) == {i \in Inputs : p[i] = 1}
<1> DEFINE F == [p \in Patterns |-> Ones(p)]
<1>1. IsFiniteSet(Inputs)
  BY FS_Interval
<1>2. IsFiniteSet(SUBSET Inputs)
  BY <1>1, FS_SUBSET
<1>3. F \in [Patterns -> SUBSET Inputs]
  OBVIOUS
<1>4. ASSUME NEW p \in Patterns, NEW q \in Patterns, F[p] = F[q]
      PROVE  p = q
  <2>1. Ones(p) = Ones(q)
    BY <1>4
  <2>2. \A i \in Inputs : p[i] = q[i]
    <3> TAKE i \in Inputs
    <3>1. p[i] \in {0, 1} /\ q[i] \in {0, 1}
      BY DEF Patterns
    <3>2. (i \in Ones(p)) <=> (i \in Ones(q))
      BY <2>1
    <3> QED BY <3>1, <3>2
  <2> QED BY <2>2 DEF Patterns
<1>5. F \in Injection(Patterns, SUBSET Inputs)
  BY <1>3, <1>4 DEF Injection, IsInjective
<1> QED BY <1>2, <1>5, FS_Injection

\* A pattern satisfies the blocking clause of a cube exactly when the BDD of
\* the cube does not count it.
LEMMA BlockingIsExact ==
  ASSUME NEW cube \in Cubes, NEW p \in Patterns
  PROVE  Satisfies(p, BlockingClause(cube)) <=> p \notin Covers(cube)
<1>1. ASSUME NEW i \in Inputs
      PROVE  cube[i] \in {Digit(p[i]), "X"} <=> cube[i] # Digit(1 - p[i])
  <2>1. cube[i] \in {"0", "1", "X"} /\ p[i] \in {0, 1}
    BY DEF Cubes, Patterns
  <2> QED BY <2>1 DEF Digit
<1>2. p \notin Covers(cube) <=> \E i \in Inputs : cube[i] = Digit(1 - p[i])
  BY <1>1 DEF Covers
<1>3. ASSUME NEW l \in BlockingClause(cube), p[l.input] = l.value
      PROVE  \E i \in Inputs : cube[i] = Digit(1 - p[i])
  BY <1>3 DEF BlockingClause, Literals
<1>4. ASSUME NEW i \in Inputs, cube[i] = Digit(1 - p[i])
      PROVE  Satisfies(p, BlockingClause(cube))
  <2> DEFINE l == [input |-> i, value |-> p[i]]
  <2>1. l \in Literals
    BY DEF Literals, Patterns
  <2>2. l \in BlockingClause(cube) /\ p[l.input] = l.value
    BY <1>4, <2>1 DEF BlockingClause
  <2> QED BY <2>2 DEF Satisfies
<1> QED BY <1>2, <1>3, <1>4 DEF Satisfies

\* One more cube covers what it covers in addition.
LEMMA CoveredByAppend ==
  ASSUME NEW s \in Seq(Cubes), NEW cube \in Cubes
  PROVE  CoveredBy(Append(s, cube)) = CoveredBy(s) \union Covers(cube)
<1> DEFINE t == Append(s, cube)
<1>1. /\ Len(s) \in Nat
      /\ Len(t) = Len(s) + 1
      /\ t[Len(s) + 1] = cube
      /\ \A k \in 1 .. Len(s) : t[k] = s[k]
  BY AppendProperties, LenProperties
<1>2. ASSUME NEW p \in CoveredBy(t)
      PROVE  p \in CoveredBy(s) \union Covers(cube)
  <2>1. PICK k \in 1 .. Len(t) : p \in Covers(t[k])
    BY DEF CoveredBy
  <2> QED BY <1>1, <2>1 DEF CoveredBy
<1>3. ASSUME NEW p \in CoveredBy(s) \union Covers(cube)
      PROVE  p \in CoveredBy(t)
  <2>1. CASE p \in Covers(cube)
    <3>1. Len(s) + 1 \in 1 .. Len(t) /\ p \in Covers(t[Len(s) + 1])
      BY <1>1, <2>1
    <3> HIDE DEF t
    <3> QED BY <3>1 DEF CoveredBy
  <2>2. CASE p \in CoveredBy(s)
    <3>1. PICK k \in 1 .. Len(s) : p \in Covers(s[k])
      BY <2>2 DEF CoveredBy
    <3>2. k \in 1 .. Len(t) /\ p \in Covers(t[k])
      BY <1>1, <3>1
    <3> HIDE DEF t
    <3> QED BY <3>2 DEF CoveredBy
  <2> QED BY <1>3, <2>1, <2>2
<1> QED BY <1>2, <1>3

\* Cubes cover patterns.
LEMMA CoveredArePatterns ==
  ASSUME NEW s
  PROVE  CoveredBy(s) \subseteq Patterns
BY DEF CoveredBy, Covers
-----------------------------------------------------------------------------
(***************************************************************************)
(* Types                                                                   *)
(***************************************************************************)

\* The number of patterns covered is a natural number.
LEMMA MintermsNat ==
  ASSUME NEW s
  PROVE  /\ IsFiniteSet(CoveredBy(s))
         /\ Cardinality(CoveredBy(s)) \in Nat
BY PatternsFinite, CoveredArePatterns, FS_Subset, FS_CardinalityType

\* Giving up changes nothing but the program counter and the result.
LEMMA GiveUpKeepsType ==
  ASSUME EnumerationTypeOK, GiveUp
  PROVE  EnumerationTypeOK'
BY DEF EnumerationTypeOK, GiveUp, request

LEMMA BuildModelKeepsType ==
  ASSUME EnumerationTypeOK, BuildModel
  PROVE  EnumerationTypeOK'
BY GiveUpKeepsType DEF EnumerationTypeOK, BuildModel, request

LEMMA SolveKeepsType ==
  ASSUME EnumerationTypeOK, Solve
  PROVE  EnumerationTypeOK'
<1>1. CASE GiveUp
  BY <1>1, GiveUpKeepsType
<1>2. CASE /\ ChooseOutcome
           /\ model' \in IF Models = {} THEN {model} ELSE Models
           /\ UNCHANGED <<request, clauses, cubes, row, text, analysed>>
  <2>1. Models \subseteq Patterns
    BY DEF Models, EnumerationTypeOK
  <2>2. model' \in Patterns \union {NoModel} /\ (phase' = "xid" => model' \in Patterns)
    BY <1>2, <2>1 DEF EnumerationTypeOK, ChooseOutcome
  <2>3. phase' \in {"emit", "xid"} /\ limitHit' \in BOOLEAN
    BY <1>2 DEF ChooseOutcome
  <2> QED BY <1>2, <2>2, <2>3 DEF EnumerationTypeOK, request
<1> QED BY <1>1, <1>2 DEF Solve

LEMMA WidenKeepsType ==
  ASSUME EnumerationTypeOK, Widen
  PROVE  EnumerationTypeOK'
<1>1. CASE GiveUp
  BY <1>1, GiveUpKeepsType
<1>2. CASE /\ phase' = "solve"
           /\ \E cube \in DontCareCubes(model) : Keep(cube)
           /\ UNCHANGED <<request, model, limitHit, row, text, analysed>>
  <2>1. PICK cube \in Cubes : Keep(cube)
    BY <1>2 DEF DontCareCubes
  <2>2. clauses' \subseteq SUBSET Literals
    BY <2>1 DEF EnumerationTypeOK, Keep, BlockingClause
  <2>3. cubes' \in Seq(Cubes)
    BY <2>1, AppendProperties DEF EnumerationTypeOK, Keep
  <2> QED BY <1>2, <2>2, <2>3 DEF EnumerationTypeOK, request
<1> QED BY <1>1, <1>2 DEF Widen

LEMMA EmitKeepsType ==
  ASSUME EnumerationTypeOK, Emit
  PROVE  EnumerationTypeOK'
<1>1. CASE GiveUp
  BY <1>1, GiveUpKeepsType
<1> DEFINE result == [cubes |-> Len(cubes), complete |-> ~limitHit, minterms |-> Minterms]
<1>2. CASE /\ phase' = "done"
           /\ row' = result
           /\ text' = IF Kept(result) THEN cubes ELSE <<>>
           /\ analysed' \in BOOLEAN
           /\ UNCHANGED <<request, clauses, cubes, model, limitHit>>
  <2>1. result \in RowType
    BY MintermsNat, LenProperties DEF EnumerationTypeOK, RowType, Minterms
  <2>2. text' \in Seq(Cubes)
    BY <1>2, EmptySeq DEF EnumerationTypeOK
  <2> QED BY <1>2, <2>1, <2>2 DEF EnumerationTypeOK, request
<1> QED BY <1>1, <1>2 DEF Emit, EnumerationTypeOK

\* Every variable keeps its type, whatever the fault, the limit and the
\* failures: a model is looked at only after the solver has given one.
THEOREM TypeCorrect == EnumerationSpec => []EnumerationTypeOK
<1>1. EnumerationInit => EnumerationTypeOK
  BY EmptySeq DEF EnumerationInit, EnumerationTypeOK
<1>2. EnumerationTypeOK /\ [EnumerationNext]_enumerationVars => EnumerationTypeOK'
  <2> SUFFICES ASSUME EnumerationTypeOK, [EnumerationNext]_enumerationVars PROVE EnumerationTypeOK'
    OBVIOUS
  <2>1. CASE UNCHANGED enumerationVars
    BY <2>1 DEF EnumerationTypeOK, enumerationVars, request
  <2>2. CASE Terminated
    BY <2>1, <2>2 DEF Terminated
  <2> QED BY <2>1, <2>2, BuildModelKeepsType, SolveKeepsType, WidenKeepsType,
             EmitKeepsType DEF EnumerationNext
<1> QED BY <1>1, <1>2, PTL DEF EnumerationSpec
-----------------------------------------------------------------------------
(***************************************************************************)
(* The enumeration                                                         *)
(***************************************************************************)

\* What the derived operators read is unchanged when the fault and the
\* cubes found so far are.
LEMMA SameFindings ==
  ASSUME UNCHANGED <<request, clauses, cubes>>
  PROVE  /\ Models' = Models
         /\ LeftIsUncovered' = LeftIsUncovered
         /\ CoveredDetect' = CoveredDetect
         /\ EachCubeIsNew' = EachCubeIsNew
         /\ Minterms' = Minterms
<1>1. /\ detecting' = detecting /\ clauses' = clauses /\ cubes' = cubes
  BY DEF request
<1>2. Models' = Models
  BY <1>1 DEF Models
<1>3. CoveredBy(cubes)' = CoveredBy(cubes)
  BY <1>1 DEF CoveredBy
<1>4. EachCubeIsNew' = EachCubeIsNew
  BY <1>1 DEF EachCubeIsNew, CoveredBy
<1> QED BY <1>1, <1>2, <1>3, <1>4 DEF LeftIsUncovered, CoveredDetect, Minterms

\* A given-up analysis keeps the findings and has no row.
LEMMA GiveUpKeepsInv ==
  ASSUME EnumerationInv, GiveUp, phase # "done"
  PROVE  EnumerationInv'
<1>1. UNCHANGED <<request, clauses, cubes>> /\ UNCHANGED <<limitHit, row, text>> /\ phase' = "done"
  BY DEF GiveUp
<1>2. row' = NoRow /\ text' = <<>>
  BY <1>1 DEF EnumerationInv, LoopOK
<1>3. EnumerationTypeOK'
  BY GiveUpKeepsType DEF EnumerationInv
<1>4. LoopOK'
  BY <1>1 DEF EnumerationInv, LoopOK, request
<1>5. RowOK'
  BY <1>2 DEF RowOK
<1> QED BY <1>1, <1>3, <1>4, <1>5, SameFindings DEF EnumerationInv

LEMMA BuildModelKeepsInv ==
  ASSUME EnumerationInv, BuildModel
  PROVE  EnumerationInv'
<1>1. CASE GiveUp
  BY <1>1, GiveUpKeepsInv DEF BuildModel
<1>2. CASE /\ phase' = "solve"
           /\ UNCHANGED <<request, clauses, cubes, model, limitHit, row, text, analysed>>
  <2>1. phase = "open"
    BY DEF BuildModel
  <2>2. EnumerationTypeOK'
    BY BuildModelKeepsType DEF EnumerationInv
  <2>3. LoopOK'
    BY <1>2, <2>1 DEF EnumerationInv, LoopOK, request
  <2>4. row' = NoRow /\ text' = <<>>
    BY <1>2, <2>1 DEF EnumerationInv, LoopOK
  <2>5. RowOK'
    BY <2>4 DEF RowOK
  <2> QED BY <1>2, <2>2, <2>3, <2>5, SameFindings DEF EnumerationInv
<1> QED BY <1>1, <1>2 DEF BuildModel

LEMMA SolveKeepsInv ==
  ASSUME EnumerationInv, Solve
  PROVE  EnumerationInv'
<1>0. phase = "solve" /\ row = NoRow /\ text = <<>>
  BY DEF Solve, EnumerationInv, LoopOK
<1>1. CASE GiveUp
  BY <1>0, <1>1, GiveUpKeepsInv
<1>2. CASE /\ ChooseOutcome
           /\ model' \in IF Models = {} THEN {model} ELSE Models
           /\ UNCHANGED <<request, clauses, cubes, row, text, analysed>>
  <2>1. EnumerationTypeOK'
    BY SolveKeepsType DEF EnumerationInv
  <2>2. /\ Models' = Models /\ limit' = limit /\ cubes' = cubes
        /\ row' = NoRow /\ text' = <<>>
    BY <1>0, <1>2, SameFindings DEF request
  <2>3. Len(cubes) \in Nat /\ limit \in Int
    BY LenProperties DEF EnumerationInv, EnumerationTypeOK
  <2>4. limit > 0 => Len(cubes) <= limit
    BY DEF EnumerationInv, LoopOK
  <2>5. CASE Models = {}
    <3>1. phase' = "emit" /\ limitHit' = FALSE
      BY <1>2, <2>5 DEF ChooseOutcome
    <3> QED BY <1>2, <2>1, <2>2, <2>4, <2>5, <3>1, SameFindings
            DEF EnumerationInv, LoopOK, RowOK, OutcomeOK
  <2>6. CASE Models # {} /\ LimitReached
    <3>1. phase' = "emit" /\ limitHit' = TRUE
      BY <1>2, <2>6 DEF ChooseOutcome
    <3>2. limit > 0 /\ Len(cubes) = limit
      BY <2>3, <2>4, <2>6 DEF LimitReached
    <3> QED BY <1>2, <2>1, <2>2, <2>4, <2>6, <3>1, <3>2, SameFindings
            DEF EnumerationInv, LoopOK, RowOK, OutcomeOK
  <2>7. CASE Models # {} /\ ~LimitReached
    <3>1. phase' = "xid" /\ model' \in Models'
      BY <1>2, <2>2, <2>7 DEF ChooseOutcome
    <3>2. limit > 0 => Len(cubes) < limit
      BY <2>3, <2>7 DEF LimitReached
    <3> QED BY <1>2, <2>1, <2>2, <2>4, <3>1, <3>2, SameFindings
            DEF EnumerationInv, LoopOK, RowOK
  <2> QED BY <2>5, <2>6, <2>7
<1> QED BY <1>1, <1>2 DEF Solve

\* Blocking and keeping a cube: the solver loses the patterns the BDD gains.
LEMMA KeepExcludesWhatItCovers ==
  ASSUME EnumerationInv, NEW cube \in Cubes, Covers(cube) \subseteq detecting,
         Keep(cube), detecting' = detecting
  PROVE  /\ CoveredBy(cubes)' = CoveredBy(cubes) \union Covers(cube)
         /\ LeftIsUncovered'
         /\ CoveredDetect'
<1>1. cubes \in Seq(Cubes) /\ cubes' = Append(cubes, cube)
  BY DEF EnumerationInv, EnumerationTypeOK, Keep
<1>2. CoveredBy(cubes') = CoveredBy(cubes) \union Covers(cube)
  BY <1>1, CoveredByAppend
<1>3. Models' = {p \in Models : Satisfies(p, BlockingClause(cube))}
  BY DEF Models, Keep
<1>4. Models \subseteq Patterns
  BY DEF Models, EnumerationInv, EnumerationTypeOK
<1>5. Models' = Models \ Covers(cube)
  BY <1>3, <1>4, BlockingIsExact
<1>6. LeftIsUncovered'
  BY <1>2, <1>5 DEF EnumerationInv, LeftIsUncovered
<1>7. CoveredDetect'
  BY <1>2 DEF EnumerationInv, CoveredDetect
<1> QED BY <1>2, <1>6, <1>7

\* A kept cube that holds an uncovered pattern is new.
LEMMA KeepIsNew ==
  ASSUME EnumerationInv, NEW cube \in Cubes, NEW p \in Covers(cube),
         p \notin CoveredBy(cubes), Keep(cube)
  PROVE  EachCubeIsNew'
<1> DEFINE t == Append(cubes, cube)
<1>1. cubes \in Seq(Cubes) /\ cubes' = t
  BY DEF EnumerationInv, EnumerationTypeOK, Keep
<1>2. /\ Len(cubes) \in Nat
      /\ Len(t) = Len(cubes) + 1
      /\ t[Len(cubes) + 1] = cube
      /\ \A k \in 1 .. Len(cubes) : t[k] = cubes[k]
      /\ t \in Seq(Cubes)
  BY <1>1, AppendProperties, LenProperties
<1>3. ASSUME NEW k \in 1 .. Len(t)
      PROVE  ~(Covers(t[k]) \subseteq CoveredBy(SubSeq(t, 1, k - 1)))
  <2> DEFINE before == SubSeq(t, 1, k - 1)
  <2>1. /\ Len(before) = k - 1
        /\ \A j \in 1 .. k - 1 : before[j] = t[j] /\ t[j] = cubes[j]
    BY <1>2, SubSeqProperties
  <2>2. SubSeq(cubes, 1, k - 1) \in Seq(Cubes)
    BY <1>1, <1>2, SubSeqProperties
  <2>3. /\ Len(SubSeq(cubes, 1, k - 1)) = k - 1
        /\ \A j \in 1 .. k - 1 : SubSeq(cubes, 1, k - 1)[j] = cubes[j]
    BY <1>1, <1>2, SubSeqProperties
  <2>4. CoveredBy(before) = CoveredBy(SubSeq(cubes, 1, k - 1))
    <3> HIDE DEF before, t
    <3> QED BY <2>1, <2>3 DEF CoveredBy
  <2>5. CoveredBy(SubSeq(cubes, 1, k - 1)) \subseteq CoveredBy(cubes)
    <3>1. \A j \in 1 .. k - 1 : j \in 1 .. Len(cubes)
      BY <1>2
    <3> QED BY <2>3, <3>1 DEF CoveredBy
  <2>6. CASE k = Len(cubes) + 1
    BY <1>2, <2>4, <2>5, <2>6
  <2>7. CASE k \in 1 .. Len(cubes)
    <3>1. ~(Covers(cubes[k]) \subseteq CoveredBy(SubSeq(cubes, 1, k - 1)))
      BY <2>7 DEF EnumerationInv, EachCubeIsNew
    <3> QED BY <1>2, <2>4, <2>7, <3>1
  <2> QED BY <1>2, <2>6, <2>7
<1> HIDE DEF t
<1> QED BY <1>1, <1>3 DEF EachCubeIsNew

LEMMA WidenKeepsInv ==
  ASSUME EnumerationInv, Widen
  PROVE  EnumerationInv'
<1>0. phase = "xid" /\ row = NoRow /\ text = <<>> /\ model \in Models
  BY DEF Widen, EnumerationInv, LoopOK
<1>1. CASE GiveUp
  BY <1>0, <1>1, GiveUpKeepsInv
<1>2. CASE /\ phase' = "solve"
           /\ \E cube \in DontCareCubes(model) : Keep(cube)
           /\ UNCHANGED <<request, model, limitHit, row, text, analysed>>
  <2>1. PICK cube \in Cubes : /\ model \in Covers(cube)
                              /\ Covers(cube) \subseteq detecting
                              /\ Keep(cube)
    BY <1>2 DEF DontCareCubes
  <2>2. EnumerationTypeOK'
    BY WidenKeepsType DEF EnumerationInv
  <2>3. model \notin CoveredBy(cubes)
    BY <1>0 DEF EnumerationInv, LeftIsUncovered
  <2>4. EachCubeIsNew'
    BY <2>1, <2>3, KeepIsNew
  <2>5. LeftIsUncovered' /\ CoveredDetect'
    BY <1>2, <2>1, KeepExcludesWhatItCovers DEF request
  <2>6. limit > 0 => Len(cubes') <= limit
    <3>1. Len(cubes') = Len(cubes) + 1 /\ Len(cubes) \in Nat /\ limit \in Int
      BY <2>1, AppendProperties, LenProperties DEF Keep, EnumerationInv, EnumerationTypeOK
    <3> QED BY <1>0, <3>1 DEF EnumerationInv, LoopOK
  <2>7. LoopOK'
    BY <1>0, <1>2, <2>6 DEF LoopOK, request
  <2>8. RowOK'
    BY <1>0, <1>2 DEF RowOK
  <2> QED BY <2>2, <2>4, <2>5, <2>7, <2>8 DEF EnumerationInv
<1> QED BY <1>1, <1>2 DEF Widen

LEMMA EmitKeepsInv ==
  ASSUME EnumerationInv, Emit
  PROVE  EnumerationInv'
<1>0. phase = "emit" /\ OutcomeOK /\ row = NoRow
  BY DEF Emit, EnumerationInv, LoopOK
<1>1. CASE GiveUp
  BY <1>0, <1>1, GiveUpKeepsInv
<1> DEFINE result == [cubes |-> Len(cubes), complete |-> ~limitHit, minterms |-> Minterms]
<1>2. CASE /\ phase' = "done"
           /\ row' = result
           /\ text' = IF Kept(result) THEN cubes ELSE <<>>
           /\ UNCHANGED <<request, clauses, cubes, model, limitHit>>
  <2>1. EnumerationTypeOK'
    BY EmitKeepsType DEF EnumerationInv
  <2>2. Models' = Models /\ Minterms' = Minterms /\ UNCHANGED <<limit, cap, keepIncomplete>>
    BY <1>2, SameFindings DEF request
  <2>3. LoopOK'
    BY <1>2, <2>2 DEF EnumerationInv, LoopOK
  <2>4. OutcomeOK'
    BY <1>0, <1>2, <2>2 DEF OutcomeOK
  <2>5. result # NoRow
    <3>1. Minterms # -1
      BY MintermsNat DEF Minterms
    <3> QED BY <3>1 DEF NoRow
  <2>6. RowOK'
    BY <1>2, <2>2, <2>4, <2>5 DEF RowOK, Kept
  <2> QED BY <1>2, <2>1, <2>3, <2>6, SameFindings DEF EnumerationInv
<1> QED BY <1>1, <1>2 DEF Emit

\* The inductive invariant: what is left for the solver is what the cubes
\* found so far do not cover, and a row is written only when the loop ended.
THEOREM EnumerationInvCorrect == EnumerationSpec => []EnumerationInv
<1>1. EnumerationInit => EnumerationInv
  <2> SUFFICES ASSUME EnumerationInit PROVE EnumerationInv
    OBVIOUS
  <2>1. EnumerationTypeOK
    BY EmptySeq DEF EnumerationInit, EnumerationTypeOK
  <2>2. Len(cubes) = 0 /\ CoveredBy(cubes) = {}
    BY EmptySeq DEF EnumerationInit, CoveredBy
  <2>3. Models = detecting
    BY DEF Models, EnumerationInit
  <2> QED BY <2>1, <2>2, <2>3 DEF EnumerationInit, EnumerationInv, LeftIsUncovered, CoveredDetect,
             LoopOK, RowOK, EachCubeIsNew
<1>2. EnumerationInv /\ [EnumerationNext]_enumerationVars => EnumerationInv'
  <2> SUFFICES ASSUME EnumerationInv, [EnumerationNext]_enumerationVars PROVE EnumerationInv'
    OBVIOUS
  <2>1. CASE UNCHANGED enumerationVars
    <3>1. UNCHANGED <<phase, request, clauses, cubes, model, limitHit, row, text, analysed>>
      BY <2>1 DEF enumerationVars
    <3>2. EnumerationTypeOK' /\ LoopOK' /\ RowOK'
      BY <3>1, SameFindings DEF EnumerationInv, EnumerationTypeOK, LoopOK, RowOK, OutcomeOK, Kept, request
    <3> QED BY <3>1, <3>2, SameFindings DEF EnumerationInv
  <2>2. CASE Terminated
    BY <2>1, <2>2 DEF Terminated
  <2> QED BY <2>1, <2>2, BuildModelKeepsInv, SolveKeepsInv, WidenKeepsInv, EmitKeepsInv DEF EnumerationNext
<1> QED BY <1>1, <1>2, PTL DEF EnumerationSpec
-----------------------------------------------------------------------------
(***************************************************************************)
(* What a row says                                                         *)
(***************************************************************************)

\* When the solver has nothing left, the cubes cover the detecting patterns.
LEMMA NothingLeft ==
  ASSUME EnumerationInv, Models = {}
  PROVE  CoveredBy(cubes) = detecting
BY DEF EnumerationInv, LeftIsUncovered, CoveredDetect

\* For any number of inputs and any fault, a row marked complete gives the
\* exact number of detecting patterns.
THEOREM CompleteCorrect == EnumerationSpec => []CompleteIsExact
<1>1. EnumerationInv => CompleteIsExact
  <2> SUFFICES ASSUME EnumerationInv, row # NoRow, row.complete
               PROVE  row.minterms = Cardinality(detecting)
    BY DEF CompleteIsExact
  <2>1. row = [cubes |-> Len(cubes), complete |-> ~limitHit, minterms |-> Minterms] /\ OutcomeOK
    BY DEF EnumerationInv, RowOK
  <2>2. ~limitHit /\ row.minterms = Cardinality(CoveredBy(cubes))
    BY <2>1 DEF Minterms
  <2>3. Models = {}
    BY <2>1, <2>2 DEF OutcomeOK
  <2> QED BY <2>2, <2>3, NothingLeft
<1> QED BY <1>1, EnumerationInvCorrect, PTL

\* For any number of inputs, any fault and any limit, a row marked
\* incomplete holds as many cubes as the limit and counts strictly fewer
\* patterns than detect the fault.
THEOREM IncompleteCorrect == EnumerationSpec => []IncompleteIsLowerBound
<1>1. EnumerationInv => IncompleteIsLowerBound
  <2> SUFFICES ASSUME EnumerationInv, row # NoRow, ~row.complete
               PROVE  row.cubes = limit /\ row.minterms < Cardinality(detecting)
    BY DEF IncompleteIsLowerBound
  <2>1. row = [cubes |-> Len(cubes), complete |-> ~limitHit, minterms |-> Minterms] /\ OutcomeOK
    BY DEF EnumerationInv, RowOK
  <2>2. row.cubes = Len(cubes) /\ limitHit /\ row.minterms = Cardinality(CoveredBy(cubes))
    BY <2>1 DEF Minterms
  <2>3. Len(cubes) = limit /\ Models # {}
    BY <2>1, <2>2 DEF OutcomeOK
  <2>4. CoveredBy(cubes) \subseteq detecting /\ CoveredBy(cubes) # detecting
    BY <2>3 DEF EnumerationInv, LeftIsUncovered, CoveredDetect
  <2>5. IsFiniteSet(detecting)
    BY PatternsFinite, FS_Subset DEF EnumerationInv, EnumerationTypeOK
  <2>6. /\ Cardinality(CoveredBy(cubes)) \in Nat /\ Cardinality(detecting) \in Nat
        /\ Cardinality(CoveredBy(cubes)) <= Cardinality(detecting)
        /\ Cardinality(CoveredBy(cubes)) # Cardinality(detecting)
    BY <2>4, <2>5, MintermsNat, FS_Subset, FS_CardinalityType
  <2> QED BY <2>2, <2>3, <2>6
<1> QED BY <1>1, EnumerationInvCorrect, PTL

\* For any number of inputs, any fault and any behaviour of InlineXID, no
\* cube repeats what earlier cubes cover.
THEOREM NewCubesCorrect == EnumerationSpec => []EachCubeIsNew
<1>1. EnumerationInv => EachCubeIsNew
  BY DEF EnumerationInv
<1> QED BY <1>1, EnumerationInvCorrect, PTL

\* The saved cubes cover what the row counts, under the conditions asked for.
THEOREM SavedCubesCorrect == EnumerationSpec => []SavedCubesMatchRow
<1>1. EnumerationInv => SavedCubesMatchRow
  <2> SUFFICES ASSUME EnumerationInv, text # <<>>
               PROVE  /\ Cardinality(CoveredBy(text)) = row.minterms
                      /\ cap # NoCap => row.minterms <= cap
                      /\ ~keepIncomplete => CoveredBy(text) = detecting
    BY DEF SavedCubesMatchRow
  <2>1. /\ text = cubes /\ row # NoRow /\ Kept(row)
        /\ row = [cubes |-> Len(cubes), complete |-> ~limitHit, minterms |-> Minterms]
        /\ OutcomeOK
    BY DEF EnumerationInv, RowOK
  <2>2. row.minterms = Cardinality(CoveredBy(text)) /\ (row.complete <=> ~limitHit)
    BY <2>1 DEF Minterms
  <2>3. CASE keepIncomplete
    BY <2>1, <2>2, <2>3 DEF Kept
  <2>4. CASE ~keepIncomplete
    <3>1. Models = {}
      BY <2>1, <2>2, <2>4 DEF Kept, OutcomeOK
    <3> QED BY <2>1, <2>2, <3>1, NothingLeft DEF Kept
  <2> QED BY <2>3, <2>4
<1> QED BY <1>1, EnumerationInvCorrect, PTL
=============================================================================
