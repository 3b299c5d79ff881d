--------------------------- MODULE CubeEnumeration ---------------------------
(***************************************************************************)
(* The analysis of one fault (AnalyzeOneFault).  A SAT solver is asked for *)
(* a pattern that detects the fault, the pattern is widened to a cube of   *)
(* detecting patterns (InlineXID), the cube is excluded by a blocking      *)
(* clause, and the loop goes on until no pattern is left or the limit on   *)
(* cubes is reached.  The BDD of the cubes then gives the detection        *)
(* probability: the number of patterns they cover over 2^InputCount.       *)
(*                                                                         *)
(* What the solver is asked is abstracted to the set of patterns that      *)
(* detect the fault, what InlineXID computes to its contract: a cube that  *)
(* holds the given pattern and only detecting ones.                        *)
(***************************************************************************)
EXTENDS Integers, Sequences, FiniteSets

CONSTANTS
  InputCount,  \* n_pi: primary inputs of the circuit
  Limits,      \* values of -limit considered; 0 or less means no limit
  DensityCaps, \* values of -cube-fdp-max considered, in patterns
  Failures     \* the kinds of failure the environment may inject

NoCap == -1    \* -cube-fdp-max was not given
FailureKinds == {"memory", "unknown", "xid", "bdd", "write"}

ASSUME InputCountAssumption == InputCount \in Nat
ASSUME LimitsAssumption == Limits \subseteq Int
ASSUME DensityCapsAssumption == DensityCaps \subseteq Nat \union {NoCap}
ASSUME FailuresAssumption == Failures \subseteq FailureKinds

Inputs == 0 .. InputCount - 1
Patterns == [Inputs -> {0, 1}]
Cubes == [Inputs -> {"0", "1", "X"}]
Literals == [input : Inputs, value : {0, 1}]

\* The character of a cube that stands for an input value.
Digit(value) == IF value = 0 THEN "0" ELSE "1"

\* The patterns of a cube, as the BDD of the cube counts them.
Covers(cube) ==
  {p \in Patterns : \A i \in Inputs : cube[i] \in {Digit(p[i]), "X"}}

CoveredBy(cubeSeq) == UNION {Covers(cubeSeq[k]) : k \in 1 .. Len(cubeSeq)}

\* Broken variant of BlockingClause: the polarity of the literals is swapped.
BlockingClauseSwapped(cube) ==
  {l \in Literals : cube[l.input] = Digit(l.value)}

\* The clause AddBlockingClauseFromCube adds: one literal for every input
\* the cube fixes, true when the input has the other value.
BlockingClause(cube) ==
  {l \in Literals : cube[l.input] = Digit(1 - l.value)}

Satisfies(p, clause) == \E l \in clause : p[l.input] = l.value

VARIABLES
  phase,      \* where AnalyzeOneFault is
  detecting,  \* the patterns that detect the fault
  limit,      \* -limit
  cap,        \* -cube-fdp-max, in patterns
  keepIncomplete, \* -cube-include-incomplete
  clauses,    \* blocking clauses added to the solver
  cubes,      \* the cubes found so far, in order
  model,      \* the pattern of the last SAT answer
  limitHit,   \* the limit ended the enumeration
  row,        \* the result row, or NoRow
  text,       \* the cubes written to the cube text
  analysed    \* what AnalyzeOneFault returns

request == <<detecting, limit, cap, keepIncomplete>>
enumerationVars == <<phase, request, clauses, cubes, model, limitHit, row, text, analysed>>

NoRow == [cubes |-> 0, complete |-> FALSE, minterms |-> -1]
NoModel == [i \in Inputs |-> -1]

May(kind) == kind \in Failures

EnumerationInit ==
  /\ phase = "open"
  /\ detecting \in SUBSET Patterns
  /\ limit \in Limits
  /\ cap \in DensityCaps
  /\ keepIncomplete \in BOOLEAN
  /\ clauses = {} /\ cubes = <<>> /\ model = NoModel
  /\ limitHit = FALSE /\ row = NoRow /\ text = <<>> /\ analysed = TRUE
-----------------------------------------------------------------------------
\* The patterns the solver can still answer with.
Models == {p \in detecting : \A clause \in clauses : Satisfies(p, clause)}

GiveUp ==
  /\ phase' = "done"
  /\ analysed' = FALSE
  /\ UNCHANGED <<request, clauses, cubes, model, limitHit, row, text>>

\* The BDD manager, the solver and the CNF of the fault (WriteTPGModel).
BuildModel ==
  /\ phase = "open"
  /\ \/ May("memory") /\ GiveUp
     \/ /\ phase' = "solve"
        /\ UNCHANGED <<request, clauses, cubes, model, limitHit, row, text, analysed>>

LimitReached == limit > 0 /\ Len(cubes) >= limit

\* Broken variant of ChooseOutcome: the limit decides before the answer.
LimitBeforeAnswer ==
  /\ phase' = IF LimitReached \/ Models = {} THEN "emit" ELSE "xid"
  /\ limitHit' = LimitReached

\* UNSAT ends the enumeration completely, even when the limit has just
\* been reached; SAT at the limit ends it incompletely.
ChooseOutcome ==
  /\ phase' = IF Models = {} \/ LimitReached THEN "emit" ELSE "xid"
  /\ limitHit' = (Models # {} /\ LimitReached)

\* ccadical_solve.  An unknown answer ends the analysis of the fault.
Solve ==
  /\ phase = "solve"
  /\ \/ May("unknown") /\ GiveUp
     \/ /\ ChooseOutcome
        /\ model' \in IF Models = {} THEN {model} ELSE Models
        /\ UNCHANGED <<request, clauses, cubes, row, text, analysed>>

\* What InlineXID may answer for a pattern that detects the fault.
DontCareCubes(p) == {cube \in Cubes : p \in Covers(cube) /\ Covers(cube) \subseteq detecting}

\* Broken variant of Keep: a cube without don't-care is dropped.
KeepIfWidened(cube) ==
  IF \E i \in Inputs : cube[i] = "X"
  THEN /\ clauses' = clauses \union {BlockingClause(cube)}
       /\ cubes' = Append(cubes, cube)
  ELSE UNCHANGED <<clauses, cubes>>

\* AddBlockingClauseFromCube and cubeset_push.
Keep(cube) ==
  /\ clauses' = clauses \union {BlockingClause(cube)}
  /\ cubes' = Append(cubes, cube)

\* InlineXID on the model, then block the cube and keep it.  Without a
\* detecting output there is no cube and the fault is given up.
Widen ==
  /\ phase = "xid"
  /\ \/ May("xid") /\ GiveUp
     \/ /\ phase' = "solve"
        /\ \E cube \in DontCareCubes(model) : Keep(cube)
        /\ UNCHANGED <<request, model, limitHit, row, text, analysed>>

\* Broken variant of Minterms: the cubes are counted as if disjoint.
SumOfCubes ==
  LET sum[k \in 0 .. Len(cubes)] ==
        IF k = 0 THEN 0 ELSE sum[k - 1] + Cardinality(Covers(cubes[k]))
  IN sum[Len(cubes)]

\* RunBDD: the minterms of the union of the cubes.
Minterms == Cardinality(CoveredBy(cubes))

\* Broken variant of Kept: neither completeness nor the cap is looked at.
KeptAlways(result) == result.minterms > 0

\* WriteFaultCubes: whether the cubes of a result go to the cube text.
Kept(result) ==
  /\ result.complete \/ keepIncomplete
  /\ result.minterms > 0
  /\ limit > 0 => result.cubes <= limit
  /\ cap # NoCap => result.minterms <= cap

\* EmitFaultResult: the probability, the row, and the cube text.
Emit ==
  /\ phase = "emit"
  /\ \/ May("bdd") /\ GiveUp
     \/ LET result == [cubes |-> Len(cubes), complete |-> ~limitHit, minterms |-> Minterms]
        IN /\ phase' = "done"
           /\ row' = result
           /\ text' = IF Kept(result) THEN cubes ELSE <<>>
           /\ \/ UNCHANGED analysed
              \/ May("write") /\ analysed' = FALSE
           /\ UNCHANGED <<request, clauses, cubes, model, limitHit>>

Terminated == phase = "done" /\ UNCHANGED enumerationVars

EnumerationNext == BuildModel \/ Solve \/ Widen \/ Emit \/ Terminated

\* The loop is sequential code and the solver answers.
Fairness == WF_enumerationVars(BuildModel \/ Solve \/ Widen \/ Emit)

EnumerationSpec == EnumerationInit /\ [][EnumerationNext]_enumerationVars /\ Fairness
-----------------------------------------------------------------------------
(***************************************************************************)
(* Properties                                                              *)
(***************************************************************************)

RowType == [cubes : Nat, complete : BOOLEAN, minterms : Nat]

\* The type invariant: what each variable of the analysis can hold.
EnumerationTypeOK ==
  /\ phase \in {"open", "solve", "xid", "emit", "done"}
  /\ detecting \subseteq Patterns
  /\ limit \in Limits /\ cap \in DensityCaps /\ keepIncomplete \in BOOLEAN
  /\ clauses \subseteq SUBSET Literals
  /\ cubes \in Seq(Cubes)
  /\ model \in Patterns \union {NoModel}
  /\ phase = "xid" => model \in Patterns
  /\ limitHit \in BOOLEAN
  /\ row \in RowType \union {NoRow}
  /\ text \in Seq(Cubes)
  /\ analysed \in BOOLEAN

\* A row marked complete gives the exact detection probability: the clauses
\* the solver was given and the cubes the BDD counts agree on which patterns
\* are done, so nothing is missed and nothing is counted twice.
CompleteIsExact ==
  (row # NoRow /\ row.complete) => row.minterms = Cardinality(detecting)

\* A row marked incomplete really stopped short: it has exactly as many
\* cubes as the limit allows and its probability is a strict lower bound
\* (the limit is looked at after the solver has answered).
IncompleteIsLowerBound ==
  (row # NoRow /\ ~row.complete) =>
    row.cubes = limit /\ row.minterms < Cardinality(detecting)

\* Every cube covers a pattern that no earlier cube covers, so there are
\* never more cubes than detecting patterns (AddBlockingClauseFromCube).
EachCubeIsNew ==
  \A k \in 1 .. Len(cubes) :
    ~(Covers(cubes[k]) \subseteq CoveredBy(SubSeq(cubes, 1, k - 1)))

\* The cube text alone tells the reader how far the probability can be
\* trusted: saved cubes cover exactly the patterns the row counts, never
\* more than the cap, and all detecting patterns unless incomplete ones
\* were asked for (WriteFaultCubes).
SavedCubesMatchRow ==
  (text # <<>>) =>
    /\ Cardinality(CoveredBy(text)) = row.minterms
    /\ cap # NoCap => row.minterms <= cap
    /\ ~keepIncomplete => CoveredBy(text) = detecting

\* How the loop ended: at the limit with patterns left, or with none left.
OutcomeOK == IF limitHit THEN Len(cubes) = limit /\ Models # {} ELSE Models = {}

\* The inductive invariant behind the properties above.  What is left for
\* the solver is what the cubes do not cover yet.
LeftIsUncovered == Models = detecting \ CoveredBy(cubes)

CoveredDetect == CoveredBy(cubes) \subseteq detecting

LoopOK ==
  /\ phase # "done" => row = NoRow /\ text = <<>>
  /\ phase = "xid" => model \in Models
  /\ limit > 0 => Len(cubes) <= limit
  /\ (limit > 0 /\ phase = "xid") => Len(cubes) < limit
  /\ phase = "emit" => OutcomeOK

RowOK ==
  /\ row # NoRow =>
       /\ row = [cubes |-> Len(cubes), complete |-> ~limitHit, minterms |-> Minterms]
       /\ OutcomeOK
  /\ text # <<>> => text = cubes /\ row # NoRow /\ Kept(row)

EnumerationInv ==
  EnumerationTypeOK /\ LeftIsUncovered /\ CoveredDetect /\ LoopOK /\ RowOK /\ EachCubeIsNew

\* The loop ends, whatever cubes InlineXID returns.
Terminates == <>(phase = "done")
=============================================================================
