------------------------------- MODULE Circuit -------------------------------
(***************************************************************************)
(* Gate-level circuits as the program holds them (NLIST, netlist.h) and    *)
(* the values their nets take.  A circuit is a record of functions on its  *)
(* nets, and of the port arrays:                                           *)
(*   type, in, out     gate type, input nets, output nets                  *)
(*   level             topological level                                   *)
(*   first             the frame-1 peer of a frame-2 net (peer_1t) or None *)
(*   pi, observed      inputs, and the outputs where a fault is observed:  *)
(*                     po or ppo                                           *)
(***************************************************************************)
EXTENDS Integers, Sequences, FiniteSets

None == -1
Bits == {0, 1}

\* Gates with a controlling input value.
Controllable == {"AND", "NAND", "OR", "NOR"}
GateTypes == Controllable \union {"BUF", "FOUT", "INV", "EXOR", "EXNOR"}

NonControlling(type) == IF type \in {"AND", "NAND"} THEN 1 ELSE 0

\* The output when every input has the non-controlling value.
Uncontrolled(type) == IF type \in {"AND", "NOR"} THEN 1 ELSE 0

Nets(c) == DOMAIN c.type
Inputs(c, n) == {c.in[n][i] : i \in DOMAIN c.in[n]}
Outputs(c, n) == {c.out[n][i] : i \in DOMAIN c.out[n]}
Observed(c) == {c.observed[i] : i \in DOMAIN c.observed}

\* The place of a number among some numbers, such as a net among some nets.
Position(n, numbers) == Cardinality({m \in numbers : m <= n})

\* The output of a gate for the values v of its inputs (NormalScopeModelValues).
Eval(c, v, n) ==
  CASE c.type[n] \in Controllable ->
         IF \A m \in Inputs(c, n) : v[m] = NonControlling(c.type[n])
         THEN Uncontrolled(c.type[n]) ELSE 1 - Uncontrolled(c.type[n])
    [] c.type[n] = "INV" -> 1 - v[c.in[n][1]]
    [] c.type[n] = "EXOR" -> IF v[c.in[n][1]] = v[c.in[n][2]] THEN 0 ELSE 1
    [] c.type[n] = "EXNOR" -> IF v[c.in[n][1]] = v[c.in[n][2]] THEN 1 ELSE 0
    [] OTHER -> v[c.in[n][1]]

\* Values of all nets that agree with every gate, but for the nets in "free".
IsValuation(c, v, free) ==
  /\ v \in [Nets(c) -> Bits]
  /\ \A n \in Nets(c) \ free : c.type[n] # "IN" => v[n] = Eval(c, v, n)

\* The values that inputs p give all nets, those in the domain of "fixed" apart.
Values(c, p, fixed) ==
  LET value[n \in Nets(c)] == IF n \in DOMAIN fixed THEN fixed[n]
                              ELSE IF c.type[n] = "IN" THEN p[n]
                              ELSE Eval(c, value, n)
  IN value

\* Faults: two per net, for transitions on nets of the second frame only.
Sites(c) ==
  IF \A n \in Nets(c) : c.first[n] = None THEN Nets(c) ELSE {n \in Nets(c) : c.first[n] # None}

\* The good and the faulty values that the nets take for the same inputs.
IsSimulation(case, good, faulty) ==
  LET c == case.circuit IN
  /\ IsValuation(c, good, {})
  /\ IsValuation(c, faulty, {case.site})
  /\ \A n \in Nets(c) : c.type[n] = "IN" /\ n # case.site => faulty[n] = good[n]
  /\ faulty[case.site] = case.stuck

\* The tests of a fault among them: the fault is excited (in the first frame
\* too, for a transition fault) and seen at an observed net.
IsTest(case, good, faulty) ==
  LET c == case.circuit IN
  /\ IsSimulation(case, good, faulty)
  /\ good[case.site] = 1 - case.stuck
  /\ c.first[case.site] # None => good[c.first[case.site]] = case.stuck
  /\ \E o \in Observed(c) : faulty[o] # good[o]

\* All pairs, from every input pattern, and all tests.
FaultAt(c, s, v) == [circuit |-> c, site |-> s, stuck |-> v]
Stuck(s, v) == [n \in {s} |-> v]
InputPatterns(c) == [{c.pi[i] : i \in DOMAIN c.pi} -> Bits]
AllSimulations(c, s, v) ==
  {[ good |-> Values(c, p, <<>>), faulty |-> Values(c, p, Stuck(s, v)) ] : p \in InputPatterns(c)}
AllTests(c, s, v) == {t \in AllSimulations(c, s, v) : IsTest(FaultAt(c, s, v), t.good, t.faulty)}
TestValues(c, s, v) == {t.good : t \in AllTests(c, s, v)}

\* An input that both frames share is its own first frame: its faults are
\* never excited.
Shared(c, n) == c.type[n] = "IN" /\ c.first[n] = n

\* The input array lists every input, and each once.
InputsListed(c) ==
  /\ c.pi \in Seq(Nets(c))
  /\ \A i, j \in DOMAIN c.pi : c.pi[i] = c.pi[j] => i = j
  /\ \A n \in Nets(c) : c.type[n] = "IN" <=> \E i \in DOMAIN c.pi : c.pi[i] = n

\* What the algorithms rely on: edges recorded at both ends, levels that
\* increase along them, a branch for every output of a net that has several,
\* observed nets that lead nowhere, and a second frame that repeats the first.
WellFormed(c) ==
  /\ IsFiniteSet(Nets(c)) /\ Nets(c) \subseteq Nat
  /\ c.type \in [Nets(c) -> GateTypes \union {"IN"}]
  /\ c.in \in [Nets(c) -> Seq(Nets(c))]
  /\ c.out \in [Nets(c) -> Seq(Nets(c))]
  /\ c.level \in [Nets(c) -> Nat]
  /\ c.first \in [Nets(c) -> Nets(c) \union {None}]
  /\ Observed(c) \subseteq Nets(c)
  /\ \A n \in Nets(c) :
       /\ c.type[n] = "IN" <=> c.in[n] = <<>>
       /\ c.type[n] \in {"BUF", "FOUT", "INV"} => Len(c.in[n]) = 1
       /\ c.type[n] \in {"EXOR", "EXNOR"} => Len(c.in[n]) = 2
       /\ \A i, j \in DOMAIN c.in[n] : c.in[n][i] = c.in[n][j] => i = j
       /\ \A m \in Nets(c) : m \in Inputs(c, n) <=> n \in Outputs(c, m)
       /\ \A m \in Inputs(c, n) : c.level[m] < c.level[n]
       /\ \A m, k \in Outputs(c, n) : m # k => c.type[m] = "FOUT" \/ Shared(c, n)
       /\ c.first[n] # None /\ c.type[n] # "IN" /\ c.type[c.first[n]] # "IN" =>
            /\ c.type[c.first[n]] = c.type[n]
            /\ c.in[c.first[n]] = [i \in DOMAIN c.in[n] |-> c.first[c.in[n][i]]]
  /\ \A o \in Observed(c) : Outputs(c, o) = {} \/ Shared(c, o)
=============================================================================
