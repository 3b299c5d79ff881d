------------------------------- MODULE Options -------------------------------
(***************************************************************************)
(* The options of a run (options.c, coverage_options.c): the arguments of  *)
(* the command line, one after the other, with the lines of a settings     *)
(* file read where -set stands, each later setting replacing the earlier   *)
(* one, and the checks that need all of them.                              *)
(*                                                                         *)
(* The value of a setting is a sequence: the pattern counts of -calc_f, or *)
(* one path, number, switch or, for -set, file (the sequence of the        *)
(* settings in it, which may be empty).  A value the option cannot take    *)
(* (missing, blank, a comment, no number, out of range, a file that cannot *)
(* be opened) is NoValue, a pattern count that is none is 0.  A path is a  *)
(* sequence of name parts, so that one can be derived from another.        *)
(***************************************************************************)
EXTENDS Integers, Sequences, FiniteSets, SequencesExt

CONSTANTS
  Commands,   \* the command lines considered: sequences of settings
  MaxCounts   \* COVERAGE_MAX_PATTERN_COUNTS

ASSUME MaxCountsAssumption == MaxCounts \in Nat \ {0}

NoValue == <<>>

PathOptions == {"-net", "-fault", "-equiv", "-log", "-fdp", "-cube"}
ValueOptions == {"-limit", "-jobs", "-progress", "-cube_fdp_max",
                 "-cube_include_incomplete", "-calc_f_nr", "-calc_f_out"}
FaultModels == {"-saf", "-tdf"}

VARIABLES
  pc,      \* where main is
  argv,    \* the command line
  pending, \* arguments not yet read
  lines,   \* lines of the settings file not yet read
  opt      \* the value of every option; the model under "model"

reading == <<argv, pending, lines>>

Unset == [name \in PathOptions \union ValueOptions \union {"-calc_f"} |-> NoValue]

OptionsInit ==
  /\ pc = "options"
  /\ argv \in Commands
  /\ pending = argv
  /\ lines = <<>>
  /\ opt = [name \in DOMAIN Unset \union {"model"} |->
             IF name = "model" THEN <<"-saf">>
             ELSE IF name = "-calc_f_nr" THEN <<"off">> ELSE NoValue]

\* main returns EXIT_FAILURE.
Stop == pc' = "failed"
-----------------------------------------------------------------------------
\* SetPatternCounts: in ascending order, each once.
PatternCounts(value) == SetToSortSeq(ToSet(value), <)

\* ParsePatternCount, for each of them.
Positive(value) == \A i \in 1 .. Len(value) : value[i] > 0

\* What a setting must satisfy: CheckOptionValue, the number parsers,
\* SetCoverageOption.
Acceptable(s) ==
  \/ s.name \in FaultModels
  \/ s.name \in PathOptions \union ValueOptions /\ s.value # NoValue
  \/ s.name = "-calc_f" /\ Len(s.value) \in 1 .. MaxCounts /\ Positive(s.value)

\* Mutant: the counts of an earlier -calc_f are not dropped.
StoreKeepingCounts(s) ==
  IF s.name \in FaultModels THEN [opt EXCEPT !["model"] = <<s.name>>]
  ELSE [opt EXCEPT ![s.name] =
         IF s.name = "-calc_f" THEN PatternCounts(opt["-calc_f"] \o s.value) ELSE s.value]

\* The options once an acceptable setting is stored.
Store(s) ==
  IF s.name \in FaultModels THEN [opt EXCEPT !["model"] = <<s.name>>]
  ELSE [opt EXCEPT ![s.name] = IF s.name = "-calc_f" THEN PatternCounts(s.value) ELSE s.value]

Take(s) ==
  IF Acceptable(s) THEN opt' = Store(s) /\ UNCHANGED pc ELSE Stop /\ UNCHANGED opt

\* OPTset: an argument of the command line; that of -set is the file to read.
ReadArgument ==
  /\ pc = "options" /\ lines = <<>> /\ pending # <<>>
  /\ pending' = Tail(pending)
  /\ LET s == Head(pending)
     IN IF s.name = "-set" /\ s.value # NoValue
        THEN lines' = s.value[1] /\ UNCHANGED <<pc, opt>>
        ELSE Take(s) /\ UNCHANGED lines
  /\ UNCHANGED argv

\* OPTread: a line of the settings file, where -set is not an option.
ReadLine ==
  /\ pc = "options" /\ lines # <<>>
  /\ lines' = Tail(lines)
  /\ Take(Head(lines))
  /\ UNCHANGED <<argv, pending>>

Given(name) == opt[name] # NoValue
Same(a, b) == Given(a) /\ opt[a] = opt[b]

Enabled == Given("-calc_f")
NoReplacement == opt["-calc_f_nr"] = <<"on">>

\* DefaultOutputPath
DefaultOutput == Append(opt["-fdp"], "F")

\* Mutant: only a path that was given is compared.
ApartIfGiven ==
  ~\E other \in {"-fdp", "-log", "-cube"} : Same("-calc_f_out", other)

\* The report of the coverage is none of the other outputs.
ReportApart ==
  LET output == IF Given("-calc_f_out") THEN opt["-calc_f_out"] ELSE DefaultOutput
  IN \A other \in {"-fdp", "-log", "-cube"} : opt[other] # output

\* OPT, OPTcheckFile and FinalizeCoverageConfig.
Consistent ==
  /\ ~Same("-cube", "-fdp") /\ ~Same("-cube", "-log")
  /\ Given("-equiv") => opt["model"] = <<"-saf">>
  /\ \A name \in {"-net", "-log", "-fdp"} : Given(name)
  /\ IF Enabled THEN ReportApart ELSE ~NoReplacement /\ ~Given("-calc_f_out")

CheckOptions ==
  /\ pc = "options" /\ lines = <<>> /\ pending = <<>>
  /\ IF Consistent
     THEN /\ pc' = "circuit"
          /\ opt' = IF Enabled /\ ~Given("-calc_f_out")
                    THEN [opt EXCEPT !["-calc_f_out"] = DefaultOutput] ELSE opt
     ELSE Stop /\ UNCHANGED opt
  /\ UNCHANGED reading

ReadOptions == ReadArgument \/ ReadLine \/ CheckOptions
=============================================================================
