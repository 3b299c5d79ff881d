-------------------------------- MODULE MCXid --------------------------------
(* Xid for every test of every fault of the sample circuits.               *)
EXTENDS Xid, SampleCircuits

\* The nets of the solver's scope: what the observed nets behind the fault
\* and the excitation depend on.
ScopeOf(c, s) ==
  LET reached[n \in Nets(c)] == n = s \/ \E m \in Inputs(c, n) : reached[m]
      read[n \in Nets(c)] == \/ n \in Observed(c) /\ reached[n]
                             \/ n = c.first[s]
                             \/ \E m \in Outputs(c, n) : read[m]
  IN {n \in Nets(c) : read[n]}

CasesOf(c) ==
  UNION { LET simulations == AllSimulations(c, s, v)
              case == [circuit |-> c, site |-> s, stuck |-> v, scope |-> ScopeOf(c, s), simulations |-> simulations]
          IN { [circuit |-> c, site |-> s, stuck |-> v, scope |-> case.scope, simulations |-> simulations, model |-> t] :
                 t \in {u \in simulations : IsTest(case, u.good, u.faulty)} }
        : s \in Sites(c), v \in Bits }

MCCases ==
  CasesOf(StuckAt(Reconvergent)) \union CasesOf(StuckAt(EarlyOutput)) \union CasesOf(StuckAt(Chain))
  \union CasesOf(StuckAt(Branches)) \union CasesOf(StuckAt(Diamond)) \union CasesOf(Transition(Sequential))
=============================================================================
