------------------------------- MODULE Coverage -------------------------------
(***************************************************************************)
(* The program from its options to its exit status (main.c): the check of  *)
(* the circuit, the analysis, the log, and the estimate of the coverage    *)
(* that Np random patterns reach (coverage.c, coverage_model.c), which is  *)
(* computed from the rows of the FDP CSV alone.                            *)
(*                                                                         *)
(* What the analysis found is a sequence of groups of equivalent faults;   *)
(* of a complete group it found every detecting pattern, of an incomplete  *)
(* one some but not all (CubeEnumeration).  A density is a multiple of     *)
(* 1 / Scale: the CSV rounds it.  The multiprecision numbers are exact     *)
(* fractions.                                                              *)
(***************************************************************************)
EXTENDS Options, FiniteSetsExt

CONSTANTS
  TotalPatterns, \* 2^n_pi
  Scale,         \* the CSV holds multiples of 1 / Scale
  Results,       \* what the analysis may find: sequences of groups
  Circuits       \* kinds of circuit considered

\* The rounding is finer than the patterns, as the 11 digits of the CSV are up
\* to about 10^10 patterns (calc_f.md).  The bounds of RoundDetectingPatterns
\* are for a CSV that this program did not write: with these rows they never bind.
ASSUME ScaleAssumption ==
  TotalPatterns \in Nat \ {0} /\ Scale \in Nat /\ Scale > TotalPatterns

VARIABLES
  circuit, \* "combinational", "sequential", or "reset" flip-flops
  groups,  \* the result of this analysis
  written, \* what the run has put into each file
  logOkay, \* the log was written
  line,    \* rows of the CSV read so far
  cutShort, \* a row was cut short by a read error
  counts,  \* FaultCounts
  sums,    \* sum_with_replacement, sum_without_replacement
  report   \* the rows of the result CSV

tally == <<line, cutShort, counts, sums>>
mainVars == <<pc, reading, opt, circuit, groups, written, logOkay, tally, report>>

MainInit ==
  /\ OptionsInit
  /\ circuit \in Circuits
  /\ groups \in Results
  /\ written = <<>>
  /\ logOkay = FALSE
  /\ line = 0
  /\ cutShort = FALSE
  /\ counts = [total |-> 0, undetectable |-> 0, equivalent |-> 0, incomplete |-> 0]
  /\ sums = [with |-> <<>>, without |-> <<>>]
  /\ report = <<>>

\* OPT
SetOptions ==
  /\ ReadOptions
  /\ UNCHANGED <<circuit, groups, written, logOkay, tally, report>>

\* A file opened for writing holds the content, or part of it when the
\* write failed.
Overwrite(contents, option, content) ==
  [path \in DOMAIN contents \union {opt[option]} |->
    IF path = opt[option] THEN content ELSE contents[path]]
Write(option, content) == written' = Overwrite(written, option, content)
Untouched == UNCHANGED <<reading, opt, circuit, groups>>
-----------------------------------------------------------------------------
\* PrepareCircuitForFaultModel
PrepareCircuit ==
  /\ pc = "circuit"
  /\ IF circuit = (IF opt["model"] = <<"-saf">> THEN "combinational" ELSE "sequential")
     THEN pc' = "analyse" ELSE Stop
  /\ Untouched /\ UNCHANGED <<written, logOkay, tally, report>>

\* AnalyzeFaultDensity
Analyse ==
  /\ pc = "analyse"
  /\ \/ Stop /\ (UNCHANGED written \/ Write("-fdp", "torn"))
     \/ /\ pc' = "log"
        /\ written' = Overwrite(IF Given("-cube") THEN Overwrite(written, "-cube", "cubes") ELSE written,
                               "-fdp", "rows")
  /\ Untouched /\ UNCHANGED <<logOkay, tally, report>>

\* OutLogfile.  A log that cannot be opened ends the program, one that
\* cannot be written, or not repeated on the standard output, does not.
WriteLog ==
  /\ pc = "log"
  /\ \/ Stop /\ UNCHANGED <<written, logOkay>>
     \/ /\ pc' = IF Enabled THEN "open" ELSE "exit"
        /\ \/ logOkay' = TRUE /\ Write("-log", "log")
           \/ logOkay' = FALSE /\ (Write("-log", "torn") \/ Write("-log", "log"))
  /\ Untouched /\ UNCHANGED <<tally, report>>
-----------------------------------------------------------------------------
(***************************************************************************)
(* The rows of the CSV (WriteFaultResult): the representative with its     *)
(* cubes and whether they are all, then the other faults of its group with *)
(* the density alone.                                                      *)
(***************************************************************************)
Nearest(n, d) == (2 * n + d) \div (2 * d)

Density(patterns) == Nearest(patterns * Scale, TotalPatterns)

GroupRows(g) ==
  [k \in 1 .. g.size |->
    [density |-> Density(g.found),
     cubes |-> IF k = 1 THEN "given" ELSE "blank",
     complete |-> IF k > 1 THEN "blank" ELSE IF g.found = g.detecting THEN "1" ELSE "0"]]

Rows == FlattenSeq([k \in 1 .. Len(groups) |-> GroupRows(groups[k])])

\* Exact fractions.
Gcd[a \in Nat, b \in Nat] == IF b = 0 THEN a ELSE Gcd[b, a % b]
Fraction(n, d) == LET g == Gcd[n, d] IN [n |-> n \div g, d |-> d \div g]
Common(x, y) == x.d * (y.d \div Gcd[x.d, y.d])
Plus(x, y) ==
  Fraction(x.n * (Common(x, y) \div x.d) + y.n * (Common(x, y) \div y.d), Common(x, y))
Times(x, y) == Fraction(x.n * y.n, x.d * y.d)
Complement(x) == Fraction(x.d - x.n, x.d)
Zero == [n |-> 0, d |-> 1]
One == [n |-> 1, d |-> 1]

\* PowerUi: the square is multiplied in for every bit of the exponent.
PowerUi(base, exponent) ==
  LET loop[result, square \in [n : Nat, d : Nat \ {0}], e \in Nat] ==
        IF e = 0 THEN result
        ELSE loop[IF e % 2 = 1 THEN Times(result, square) ELSE result,
                  IF e > 1 THEN Times(square, square) ELSE square, e \div 2]
  IN loop[One, base, exponent]

Np == opt["-calc_f"]
\* The count before the i-th, already applied.
Applied(i) == IF i = 1 THEN 0 ELSE Np[i - 1]

\* Mutant: every count is applied on top of the one before.
MissedFromStart(density) ==
  LET missed[i \in 0 .. Len(Np)] ==
        IF i = 0 THEN One
        ELSE Times(missed[i - 1], PowerUi(Fraction(Scale - density, Scale), Np[i]))
  IN [i \in 1 .. Len(Np) |-> missed[i]]

\* AddWithReplacement: all_miss, carried from one count to the next.
MissedWith(density) ==
  LET missed[i \in 0 .. Len(Np)] ==
        IF i = 0 THEN One
        ELSE Times(missed[i - 1],
                   PowerUi(Fraction(Scale - density, Scale), Np[i] - Applied(i)))
  IN [i \in 1 .. Len(Np) |-> missed[i]]

\* Mutant: rounded down.
DetectingTruncated(density) ==
  Max({1, Min({(density * TotalPatterns) \div Scale, TotalPatterns})})

\* RoundDetectingPatterns
DetectingPatterns(density) ==
  Max({1, Min({Nearest(density * TotalPatterns, Scale), TotalPatterns})})

\* AddWithoutReplacement: all_miss and certain, carried from one count to the
\* next.  After k misses the next pattern is missed by chance, and never once
\* all that miss the fault are used up.
MissedWithout(density) ==
  LET missing == TotalPatterns - DetectingPatterns(density)
      draw(state, k) ==
        IF state.certain THEN state
        ELSE IF missing - k <= 0 THEN [miss |-> Zero, certain |-> TRUE]
        ELSE [state EXCEPT !.miss = Times(@, Fraction(missing - k, TotalPatterns - k))]
      after[i \in 0 .. Len(Np)] ==
        IF i = 0 THEN [miss |-> One, certain |-> FALSE]
        ELSE LET drawn[k \in Applied(i) .. Np[i]] ==
                   IF k = Applied(i) THEN after[i - 1] ELSE draw(drawn[k - 1], k - 1)
             IN drawn[Np[i]]
  IN [i \in 1 .. Len(Np) |-> after[i].miss]

Accumulated(sum, missed) == [i \in 1 .. Len(Np) |-> Plus(sum[i], Complement(missed[i]))]

\* CoverageModelAddFault
AddFault(density) ==
  sums' = [with |-> Accumulated(sums.with, MissedWith(density)),
           without |-> IF NoReplacement THEN Accumulated(sums.without, MissedWithout(density))
                       ELSE sums.without]

\* RunCoverage opens the CSV and CoverageModelInit clears the sums.  A log
\* written over the CSV has none of the columns.
OpenRows ==
  /\ pc = "open"
  /\ \/ Stop /\ UNCHANGED sums
     \/ /\ written[opt["-fdp"]] = "rows"
        /\ pc' = "read"
        /\ LET zeros == [i \in 1 .. Len(Np) |-> Zero]
           IN sums' = [with |-> zeros, without |-> IF NoReplacement THEN zeros ELSE <<>>]
  /\ Untouched /\ UNCHANGED <<written, logOkay, line, cutShort, counts, report>>

Count(row) ==
  counts' = [counts EXCEPT !.total = @ + 1,
                           !.undetectable = @ + (IF row.density = 0 THEN 1 ELSE 0),
                           !.equivalent = @ + (IF row.cubes = "blank" THEN 1 ELSE 0),
                           !.incomplete = @ + (IF row.complete = "0" THEN 1 ELSE 0)]

Add(row) ==
  /\ Count(row)
  /\ IF row.density = 0 THEN UNCHANGED sums ELSE AddFault(row.density)

\* AccumulateFaults: one row.
ReadRow ==
  /\ pc = "read" /\ line < Len(Rows)
  /\ line' = line + 1
  /\ Add(Rows[line + 1])
  /\ Untouched /\ UNCHANGED <<pc, cutShort, written, logOkay, report>>

\* A file without faults is an error.
EndReading == IF counts.total = 0 THEN Stop ELSE pc' = "report"

EndRows ==
  /\ pc = "read" /\ line = Len(Rows)
  /\ EndReading
  /\ Untouched /\ UNCHANGED <<written, logOkay, tally, report>>

\* getline fails before the last row: to the loop that is the end of the file.
LoseRows ==
  /\ pc = "read" /\ line < Len(Rows)
  /\ EndReading
  /\ Untouched /\ UNCHANGED <<written, logOkay, tally, report>>

\* The same in the middle of a row, when getline returns what it has of it.  A
\* number cut short is no number, or without some digits of its exponent, and
\* then not smaller.
TearRow ==
  /\ pc = "read" /\ line < Len(Rows)
  /\ cutShort' = TRUE
  /\ \/ Stop /\ UNCHANGED <<line, counts, sums>>
     \/ /\ pc' = "report"
        /\ line' = line + 1
        /\ LET row == Rows[line + 1]
           IN \E density \in IF row.density = 0 THEN {0} ELSE row.density .. Scale :
                Add([row EXCEPT !.density = density])
  /\ Untouched /\ UNCHANGED <<written, logOkay, report>>

Ratio(sum, count) == IF count > 0 THEN Fraction(sum.n, sum.d * count) ELSE Zero

\* WriteResultRow
ResultRow(i) ==
  LET over(count) ==
        <<Ratio(sums.with[i], count)>> \o
        (IF NoReplacement THEN <<Ratio(sums.without[i], count)>> ELSE <<>>)
  IN [np |-> Np[i], F |-> over(counts.total), E |-> over(counts.total - counts.undetectable)]

\* WriteCsvReport
WriteReport ==
  /\ pc = "report"
  /\ \/ Stop /\ (UNCHANGED written \/ Write("-calc_f_out", "torn")) /\ UNCHANGED report
     \/ /\ pc' = "exit"
        /\ Write("-calc_f_out", "report")
        /\ report' = [i \in 1 .. Len(Np) |-> ResultRow(i)]
  /\ Untouched /\ UNCHANGED <<logOkay, tally>>

Exit ==
  /\ pc = "exit"
  /\ IF logOkay THEN pc' = "ok" ELSE Stop
  /\ Untouched /\ UNCHANGED <<written, logOkay, tally, report>>

Ended == pc \in {"ok", "failed"} /\ UNCHANGED mainVars

MainNext ==
  \/ SetOptions \/ PrepareCircuit \/ Analyse \/ WriteLog
  \/ OpenRows \/ ReadRow \/ EndRows \/ LoseRows \/ TearRow \/ WriteReport \/ Exit \/ Ended

MainSpec == MainInit /\ [][MainNext]_mainVars
-----------------------------------------------------------------------------
(***************************************************************************)
(* Properties                                                              *)
(***************************************************************************)

\* The chance that np patterns detect a fault, by definition: each drawn from
\* all patterns, of which the fraction p detects it, or all different (all of
\* them, when more are asked for than there are).
HitWith(p, np) == Fraction(p.d ^ np - (p.d - p.n) ^ np, p.d ^ np)
HitWithout(detecting, np) ==
  LET drawn == Min({np, TotalPatterns})
  IN Complement(Fraction(Cardinality(kSubset(drawn, 1 .. TotalPatterns - detecting)),
                         Cardinality(kSubset(drawn, 1 .. TotalPatterns))))

AtMost(x, y) == x.n * (Common(x, y) \div x.d) <= y.n * (Common(x, y) \div y.d)

\* The faults of the rows, by their groups.
RowFaults == FlattenSeq([k \in 1 .. Len(groups) |-> [i \in 1 .. groups[k].size |-> groups[k]]])

\* The mean of f(g) over the faults of the rows in S.
MeanOver(S, f(_)) ==
  LET add(row, sum) == Plus(sum, f(RowFaults[row]))
  IN Ratio(FoldSet(add, Zero, S), Cardinality(S))

\* What the report says of each count is the mean, over all faults of the rows
\* read (F) and the detectable ones among them (E), of the chance of detection
\* that follows by definition from the number of patterns that really detect
\* each fault.
\*   Without replacement: exactly.
\*   With replacement: exactly for the density as the CSV states it, hence up
\*   to np times half a unit of its last digit for the density itself
\*   (calc_f.md, "F and E are affected by the rounding").
\*   When a row is incomplete: at most that (calc_f.md, "lower bounds").
ChancesAreTrue ==
  LET read == 1 .. line
      detectable == {row \in read : RowFaults[row].detecting > 0}
      complete == \A row \in read : RowFaults[row].found = RowFaults[row].detecting
      right(said, truth) == IF complete THEN said = truth ELSE AtMost(said, truth)
      near(said, truth, error) ==
        /\ AtMost(said, Plus(truth, error))
        /\ complete => AtMost(truth, Plus(said, error))
      rightFor(said, np, S) ==
        LET stated(g) == HitWith(Fraction(Density(g.detecting), Scale), np)
            real(g) == HitWith(Fraction(g.detecting, TotalPatterns), np)
            without(g) == HitWithout(g.detecting, np)
        IN /\ right(said[1], MeanOver(S, stated))
           /\ near(said[1], MeanOver(S, real), Fraction(np, 2 * Scale))
           /\ NoReplacement => right(said[2], MeanOver(S, without))
  IN \A i \in 1 .. Len(report) :
       rightFor(report[i].F, report[i].np, read) /\ rightFor(report[i].E, report[i].np, detectable)

\* The counts of the last -calc_f, on the command line or in a settings file.
CountsAsked ==
  LET file(s) == IF s.name = "-set" THEN s.value[1] ELSE <<s>>
      settings == FlattenSeq([i \in 1 .. Len(argv) |-> file(argv[i])])
  IN ToSet(Last(SelectSeq(settings, LAMBDA s : s.name = "-calc_f")).value)

\* Exactly one row for every count asked for, in ascending order, whatever their
\* order, however often given, and whatever an earlier -calc_f asked for
\* (calc_f.md: "in any order, duplicates allowed", "the later setting holds").
CountsAreThose ==
  /\ {report[i].np : i \in 1 .. Len(report)} = CountsAsked
  /\ \A i, j \in 1 .. Len(report) : i < j => report[i].np < report[j].np

\* The report of AccumulateFaults and the two sums has a row for exactly the
\* counts asked for, and each tells the truth about the rows read.  These are
\* all rows of the CSV unless reading it failed, which the code does not notice
\* (LoseRows); nothing is claimed when a row was cut short (TearRow).
ReportIsTrue == report # <<>> => CountsAreThose /\ (~cutShort => ChancesAreTrue)

\* A run that reports success has left every output it was asked for, each
\* whole and none written over by another.  The rows alone may be lost, and
\* only when -log names the CSV, which no check forbids, and no -calc_f reads
\* them back.  An output inside the directory of -cube is not considered.
SuccessKeepsOutputs ==
  pc = "ok" =>
    /\ written[opt["-log"]] = "log"
    /\ Given("-cube") => written[opt["-cube"]] = "cubes"
    /\ Enabled => written[opt["-calc_f_out"]] = "report"
    /\ Enabled \/ ~Same("-fdp", "-log") => written[opt["-fdp"]] = "rows"
=============================================================================
