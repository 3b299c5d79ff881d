----------------------- MODULE MCEssentialAssignment -----------------------
(* EssentialAssignment on all faults of the sample circuits.               *)
EXTENDS EssentialAssignment, SampleCircuits

CasesOf(c) ==
  { [circuit |-> c, site |-> s, stuck |-> v, tests |-> AllTests(c, s, v)] : s \in Sites(c), v \in Bits }

MCCases ==
  CasesOf(StuckAt(Reconvergent)) \union CasesOf(StuckAt(EarlyOutput)) \union CasesOf(StuckAt(Chain))
  \union CasesOf(Transition(Sequential))
=============================================================================
