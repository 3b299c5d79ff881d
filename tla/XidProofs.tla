------------------------------ MODULE XidProofs ------------------------------
(***************************************************************************)
(* Don't-care identification is sound on every circuit: CubeDetects, and   *)
(* it never fails on a solver's model: SimulationFindsDetection.           *)
(***************************************************************************)
EXTENDS Xid, CircuitProofs, SequenceTheorems

ThreeValues == [Sides -> [Nets(circuit) -> {0, 1, X}]]

\* Each gate of the scope behind the fault agrees with the values of its inputs.
Consistent(n) ==
  n # site /\ circuit.type[n] # "IN" => two["faulty"][n] = Eval(circuit, two["faulty"], n)

CaseOK ==
  /\ WellFormed(circuit)
  /\ {circuit.pi[i] : i \in DOMAIN circuit.pi} = {n \in Nets(circuit) : circuit.type[n] = "IN"}
  /\ site \in scope /\ Excitation(fault) \subseteq scope
  /\ scope \subseteq Nets(circuit)
  /\ \A n \in scope : Inputs(circuit, n) \subseteq scope
  /\ fault.stuck \in Bits
  /\ \A t \in fault.simulations : IsSimulation(fault, t.good, t.faulty)
  /\ fault.model \in fault.simulations
  /\ IsTest(fault, fault.model.good, fault.model.faulty)
  /\ \E o \in Observed(circuit) \intersect scope : fault.model.faulty[o] # fault.model.good[o]

LEMMA CaseIsOK ==
  ASSUME fault \in Cases
  PROVE  CaseOK
BY XidAssumption DEF CaseOK, circuit, site, scope

-----------------------------------------------------------------------------
(* Required values *)

\* t agrees with the model and keeps to the scope.
Agrees(t) ==
  /\ t \in ThreeValues
  /\ \A s \in Sides, n \in Nets(circuit) : t[s][n] # X => n \in scope /\ t[s][n] = two[s][n]

\* The values of w that t does not have yet are the model's, on nets of the scope.
Suits(t, w) ==
  \A s \in Sides, n \in Nets(circuit) :
    n \in DOMAIN w[s] /\ t[s][n] = X => n \in scope /\ w[s][n] = two[s][n]

\* u has the values of t, and perhaps more.
Extends(t, u) == \A s \in Sides, n \in Nets(circuit) : t[s][n] # X => u[s][n] = t[s][n]

TwoOK == two \in [Sides -> [Nets(circuit) -> Bits]]

LEMMA RequireSuits ==
  ASSUME NEW t, NEW w, TwoOK, Agrees(t), Suits(t, w)
  PROVE  /\ Agrees(Require(t, w))
         /\ Extends(t, Require(t, w))
         /\ \A s \in Sides, n \in Nets(circuit) :
              /\ n \in DOMAIN w[s] => Require(t, w)[s][n] # X
              /\ Require(t, w)[s][n] # X /\ n \notin Changed(t, w) => t[s][n] # X
<1> DEFINE u == Require(t, w)
<1>1. ASSUME NEW s \in Sides, NEW n \in Nets(circuit)
      PROVE  u[s][n] = IF t[s][n] = X /\ n \in DOMAIN w[s] THEN w[s][n] ELSE t[s][n]
  BY DEF Require
<1>2. ASSUME NEW s \in Sides, NEW n \in Nets(circuit)
      PROVE  two[s][n] \in {0, 1} /\ two[s][n] # X
  BY DEF TwoOK, Bits, X
<1>3. ASSUME NEW s \in Sides, NEW n \in Nets(circuit)
      PROVE  u[s][n] \in {0, 1, X}
  BY <1>1, <1>2 DEF Agrees, ThreeValues, Suits
<1>4. u \in ThreeValues
  BY <1>3 DEF Require, ThreeValues
<1>5. Agrees(u)
  <2> HIDE DEF u
  <2> QED BY <1>1, <1>4 DEF Agrees, Suits
<1>6. Extends(t, u)
  BY <1>1 DEF Extends
<1>7. ASSUME NEW s \in Sides, NEW n \in Nets(circuit)
      PROVE  /\ n \in DOMAIN w[s] => u[s][n] # X
             /\ u[s][n] # X /\ n \notin Changed(t, w) => t[s][n] # X
  <2> HIDE DEF u
  <2> QED BY <1>1, <1>2 DEF Suits, Changed
<1> QED BY <1>5, <1>6, <1>7

LEMMA ExtendsTransitive ==
  ASSUME NEW t, NEW u, NEW v, Extends(t, u), Extends(u, v)
  PROVE  Extends(t, v)
BY DEF Extends

-----------------------------------------------------------------------------
(* Implied values *)

\* A value is implied only if every valuation that has the required values of
\* the inputs has it.
LEMMA ImpliedSound ==
  ASSUME CaseOK, NEW t, NEW s, NEW n \in Nets(circuit), circuit.type[n] # "IN",
         NEW v, \A m \in Inputs(circuit, n) : v[m] \in Bits /\ (t[s][m] # X => t[s][m] = v[m]),
         Implied(t, s, n) # X
  PROVE  Implied(t, s, n) = Eval(circuit, v, n)
<1>1. WellFormed(circuit)
  BY DEF CaseOK
<1>2. CASE \A i \in Inputs(circuit, n) : t[s][i] # X
  <2>1. \A i \in Inputs(circuit, n) : t[s][i] = v[i]
    BY <1>2
  <2>2. Eval(circuit, t[s], n) = Eval(circuit, v, n)
    BY <1>1, <2>1, EvalDepends
  <2> QED BY <1>2, <2>2 DEF Implied
<1>3. CASE ~ \A i \in Inputs(circuit, n) : t[s][i] # X
  <2>1. /\ circuit.type[n] \in Controllable
        /\ \E i \in Inputs(circuit, n) : t[s][i] = 1 - NonControlling(circuit.type[n])
        /\ Implied(t, s, n) = 1 - Uncontrolled(circuit.type[n])
    BY <1>3 DEF Implied
  <2>2. PICK i \in Inputs(circuit, n) : t[s][i] = 1 - NonControlling(circuit.type[n])
    BY <2>1
  <2>3. NonControlling(circuit.type[n]) \in {0, 1}
    BY UncontrolledBit DEF Bits
  <2>4. v[i] # NonControlling(circuit.type[n])
    BY <2>2, <2>3 DEF X
  <2>5. Eval(circuit, v, n) = 1 - Uncontrolled(circuit.type[n])
    BY <2>1, <2>4 DEF Eval, Controllable
  <2> QED BY <2>1, <2>5
<1> QED BY <1>2, <1>3

\* What is implied stays implied.
LEMMA ImpliedStays ==
  ASSUME CaseOK, NEW t \in ThreeValues, NEW u \in ThreeValues, Extends(t, u),
         NEW s \in Sides, NEW n \in Nets(circuit), circuit.type[n] # "IN",
         Implied(t, s, n) # X
  PROVE  Implied(u, s, n) # X
<1>1. WellFormed(circuit)
  BY DEF CaseOK
<1>2. \A i \in Inputs(circuit, n) : i \in Nets(circuit)
  BY <1>1, Edges
<1>3. CASE \A i \in Inputs(circuit, n) : u[s][i] # X
  <2>1. \A i \in Inputs(circuit, n) : u[s][i] \in Bits
    BY <1>2, <1>3 DEF ThreeValues, Bits, X
  <2>2. Eval(circuit, u[s], n) \in Bits
    BY <1>1, <2>1, EvalBit
  <2> QED BY <1>3, <2>2 DEF Implied, Bits, X
<1>4. CASE ~ \A i \in Inputs(circuit, n) : u[s][i] # X
  <2>1. ~ \A i \in Inputs(circuit, n) : t[s][i] # X
    BY <1>2, <1>4 DEF Extends
  <2>2. /\ circuit.type[n] \in Controllable
        /\ \E i \in Inputs(circuit, n) : t[s][i] = 1 - NonControlling(circuit.type[n])
    BY <2>1 DEF Implied
  <2>3. NonControlling(circuit.type[n]) \in {0, 1} /\ Uncontrolled(circuit.type[n]) \in {0, 1}
    BY UncontrolledBit DEF Bits
  <2>4. \E i \in Inputs(circuit, n) : u[s][i] = 1 - NonControlling(circuit.type[n])
    BY <1>2, <2>2, <2>3 DEF Extends, X
  <2>5. Implied(u, s, n) = 1 - Uncontrolled(circuit.type[n])
    BY <1>4, <2>2, <2>4 DEF Implied
  <2> QED BY <2>3, <2>5 DEF X
<1> QED BY <1>3, <1>4

\* A gate with an input of the controlling value, or all inputs known, is settled.
LEMMA ImpliedByInputs ==
  ASSUME CaseOK, NEW t \in ThreeValues, NEW s \in Sides, NEW n \in Nets(circuit), circuit.type[n] # "IN",
         \/ \A i \in Inputs(circuit, n) : t[s][i] # X
         \/ /\ circuit.type[n] \in Controllable
            /\ \E i \in Inputs(circuit, n) : t[s][i] = 1 - NonControlling(circuit.type[n])
  PROVE  Implied(t, s, n) # X
<1>1. WellFormed(circuit)
  BY DEF CaseOK
<1>2. \A i \in Inputs(circuit, n) : i \in Nets(circuit)
  BY <1>1, Edges
<1>3. CASE \A i \in Inputs(circuit, n) : t[s][i] # X
  <2>1. \A i \in Inputs(circuit, n) : t[s][i] \in Bits
    BY <1>2, <1>3 DEF ThreeValues, Bits, X
  <2>2. Eval(circuit, t[s], n) \in Bits
    BY <1>1, <2>1, EvalBit
  <2> QED BY <1>3, <2>2 DEF Implied, Bits, X
<1>4. CASE ~ \A i \in Inputs(circuit, n) : t[s][i] # X
  <2>1. Uncontrolled(circuit.type[n]) \in {0, 1}
    BY UncontrolledBit DEF Bits
  <2>2. Implied(t, s, n) = 1 - Uncontrolled(circuit.type[n])
    BY <1>4 DEF Implied
  <2> QED BY <2>1, <2>2 DEF X
<1> QED BY <1>3, <1>4

-----------------------------------------------------------------------------
(* The simulation of events *)

\* The invariant of xid_fsim: nets that changed were computed; only a net on
\* the stack may disagree with its inputs, and no such net is below a computed one.
SimulationInv ==
  /\ fault \in Cases
  /\ TwoOK
  /\ two["good"] = fault.model.good
  /\ two["faulty"][site] = 1 - two["good"][site]
  /\ site \in computed /\ computed \subseteq scope
  /\ \A n \in computed : n # site => circuit.type[n] # "IN"
  /\ \A n \in Nets(circuit) : Differs(n) => n \in computed
  /\ detecting # None => detecting \in Observed(circuit) \intersect scope /\ Differs(detecting)
  /\ \A o \in Observed(circuit) \intersect scope : Differs(o) => detecting # None
  /\ \A n \in scope : Consistent(n) \/ (phase = "simulate" /\ n \in levels)
  /\ phase = "simulate" =>
       /\ levels \subseteq scope \ computed
       /\ \A n \in levels : circuit.type[n] # "IN"
       /\ \A m \in computed, n \in levels : circuit.level[m] <= circuit.level[n]

\* What is known of the solver's model.
LEMMA ModelFacts ==
  ASSUME CaseOK
  PROVE  /\ fault.model.good \in [Nets(circuit) -> Bits]
         /\ fault.model.faulty \in [Nets(circuit) -> Bits]
         /\ \A n \in Nets(circuit) : circuit.type[n] # "IN" =>
              /\ fault.model.good[n] = Eval(circuit, fault.model.good, n)
              /\ n # site => fault.model.faulty[n] = Eval(circuit, fault.model.faulty, n)
         /\ \A n \in Nets(circuit) : circuit.type[n] = "IN" /\ n # site => fault.model.faulty[n] = fault.model.good[n]
         /\ fault.model.good[site] = 1 - fault.stuck
         /\ fault.model.faulty[site] = fault.stuck
         /\ circuit.first[site] # None => fault.model.good[circuit.first[site]] = fault.stuck
<1>1. IsTest(fault, fault.model.good, fault.model.faulty)
  BY DEF CaseOK
<1>2. IsValuation(circuit, fault.model.good, {}) /\ IsValuation(circuit, fault.model.faulty, {site})
  BY <1>1 DEF IsTest, IsSimulation, circuit, site
<1>3. \A n \in Nets(circuit) : circuit.type[n] = "IN" /\ n # site => fault.model.faulty[n] = fault.model.good[n]
  BY <1>1 DEF IsTest, IsSimulation, circuit, site
<1>4. /\ fault.model.good[site] = 1 - fault.stuck
      /\ fault.model.faulty[site] = fault.stuck
      /\ circuit.first[site] # None => fault.model.good[circuit.first[site]] = fault.stuck
  BY <1>1 DEF IsTest, IsSimulation, circuit, site
<1> QED BY <1>2, <1>3, <1>4 DEF IsValuation

LEMMA SimulationInit ==
  ASSUME Init
  PROVE  SimulationInv
<1>1. fault \in Cases /\ phase = "simulate" /\ CaseOK
  BY CaseIsOK DEF Init
<1>2. /\ WellFormed(circuit) /\ site \in scope /\ scope \subseteq Nets(circuit)
      /\ \A n \in Nets(circuit) : circuit.level[n] \in Nat
  BY <1>1 DEF CaseOK, WellFormed
<1>3. /\ two["good"] = fault.model.good
      /\ two["faulty"] = [fault.model.good EXCEPT ![site] = 1 - @]
      /\ two = [s \in Sides |-> two[s]]
  BY DEF Init, Sides
<1>4. fault.model.good \in [Nets(circuit) -> {0, 1}]
  BY <1>1, ModelFacts DEF Bits
<1>5. /\ two["faulty"] \in [Nets(circuit) -> {0, 1}]
      /\ two["faulty"][site] = 1 - two["good"][site]
      /\ \A n \in Nets(circuit) : n # site => two["faulty"][n] = two["good"][n]
  BY <1>2, <1>3, <1>4
<1>6. TwoOK
  BY <1>3, <1>4, <1>5 DEF TwoOK, Sides, Bits
<1>7. two["good"][site] # two["faulty"][site]
  BY <1>2, <1>3, <1>4, <1>5
<1>8. /\ levels = Outputs(circuit, site) \intersect scope
      /\ computed = {site}
      /\ detecting = IF site \in Observed(circuit) THEN site ELSE None
  BY DEF Init
<1>9. \A n \in levels : circuit.type[n] # "IN" /\ n \in Nets(circuit) /\ circuit.level[site] < circuit.level[n]
  BY <1>2, <1>8, Edges
<1>10. ASSUME NEW n \in scope PROVE Consistent(n) \/ n \in levels
  <2> SUFFICES ASSUME n # site, circuit.type[n] # "IN", n \notin levels
               PROVE  two["faulty"][n] = Eval(circuit, two["faulty"], n)
    BY DEF Consistent
  <2>1. site \notin Inputs(circuit, n)
    BY <1>2, <1>8, Edges
  <2>2. \A m \in Inputs(circuit, n) : two["faulty"][m] = two["good"][m]
    BY <1>2, <1>5, <2>1, Edges
  <2>3. Eval(circuit, two["faulty"], n) = Eval(circuit, two["good"], n)
    BY <1>2, <2>2, EvalDepends
  <2>4. two["good"][n] = Eval(circuit, two["good"], n)
    BY <1>1, <1>2, <1>3, ModelFacts
  <2> QED BY <1>2, <1>5, <2>3, <2>4
<1>11. detecting # None => detecting \in Observed(circuit) \intersect scope /\ Differs(detecting)
  BY <1>2, <1>7, <1>8 DEF Differs
<1>12. \A n \in Nets(circuit) : Differs(n) => n = site
  BY <1>5 DEF Differs
<1>13. \A o \in Observed(circuit) \intersect scope : Differs(o) => detecting # None
  <2>1. site # None
    BY <1>2 DEF WellFormed, None
  <2> QED BY <1>2, <1>8, <1>12, <2>1
<1> QED BY <1>1, <1>2, <1>3, <1>5, <1>6, <1>8, <1>9, <1>10, <1>11, <1>12, <1>13 DEF SimulationInv

LEMMA SimulationStep ==
  ASSUME SimulationInv, NEW n \in levels, Simulate(n)
  PROVE  SimulationInv'
<1>1. CaseOK /\ WellFormed(circuit) /\ site \in scope /\ scope \subseteq Nets(circuit)
  BY CaseIsOK DEF SimulationInv, CaseOK
<1>2. /\ phase = "simulate" /\ phase' = "simulate" /\ fault' = fault
      /\ computed' = computed \union {n}
      /\ circuit' = circuit /\ site' = site /\ scope' = scope
      /\ \A m \in levels : circuit.level[n] <= circuit.level[m]
  BY DEF Simulate, NextEvent, circuit, site, scope
<1>3. n \in scope /\ n \in Nets(circuit) /\ n \notin computed /\ circuit.type[n] # "IN" /\ n # site
  BY <1>1, <1>2 DEF SimulationInv
<1>4. /\ two'["good"] = two["good"]
      /\ two'["faulty"] = [two["faulty"] EXCEPT ![n] = Eval(circuit, two["faulty"], n)]
      /\ two' = [s \in Sides |-> two'[s]]
  BY DEF Simulate, SimulationInv, TwoOK, Sides
<1>5. /\ two["good"] \in [Nets(circuit) -> Bits] /\ two["faulty"] \in [Nets(circuit) -> Bits]
  BY DEF SimulationInv, TwoOK, Sides
<1>6. Eval(circuit, two["faulty"], n) \in Bits
  BY <1>1, <1>3, <1>5, EvalBit, Edges
<1>7. /\ two'["faulty"] \in [Nets(circuit) -> Bits]
      /\ two'["faulty"][n] = Eval(circuit, two["faulty"], n)
      /\ \A m \in Nets(circuit) : m # n => two'["faulty"][m] = two["faulty"][m]
  BY <1>3, <1>4, <1>5, <1>6
<1>8. TwoOK'
  BY <1>2, <1>4, <1>5, <1>7 DEF TwoOK, Sides
<1>9. \A m \in Nets(circuit) : m \notin computed => two["faulty"][m] = two["good"][m]
  BY DEF SimulationInv, Differs
<1>10. \A m \in Nets(circuit) : circuit.level[m] \in Nat
  BY <1>1 DEF WellFormed
<1>11. ASSUME two'["faulty"][n] = two'["good"][n] PROVE two' = two
  <2>1. two'["faulty"] = two["faulty"]
    BY <1>3, <1>4, <1>5, <1>7, <1>9, <1>11
  <2> QED BY <1>4, <2>1 DEF SimulationInv, TwoOK, Sides
<1>12. \A m \in Nets(circuit) : n \notin Inputs(circuit, m) /\ circuit.type[m] # "IN" =>
         Eval(circuit, two'["faulty"], m) = Eval(circuit, two["faulty"], m)
  BY <1>1, <1>7, EvalDepends, Edges
<1>13. n \notin Inputs(circuit, n)
  BY <1>1, <1>3, <1>10, Edges
<1>14. /\ fault' \in Cases
       /\ two'["good"] = fault'.model.good
       /\ two'["faulty"][site'] = 1 - two'["good"][site']
       /\ site' \in computed' /\ computed' \subseteq scope'
       /\ \A m \in computed' : m # site' => circuit'.type[m] # "IN"
  BY <1>1, <1>2, <1>3, <1>4, <1>7 DEF SimulationInv
<1>15. \A m \in Nets(circuit') : Differs(m)' => m \in computed'
  BY <1>2, <1>4, <1>7 DEF SimulationInv, Differs
<1>16. CASE two'["faulty"][n] # two'["good"][n]
  <2>1. /\ detecting' = IF detecting = None /\ n \in Observed(circuit) THEN n ELSE detecting
        /\ levels' = (levels \ {n}) \union ((Outputs(circuit, n) \intersect scope) \ computed')
    BY <1>4, <1>16 DEF Simulate
  <2>2. \A m \in Nets(circuit) : m # n => (Differs(m)' <=> Differs(m))
    BY <1>4, <1>7 DEF Differs
  <2>3. Differs(n)'
    BY <1>16 DEF Differs
  <2>4. None \notin Nets(circuit) /\ Observed(circuit) \subseteq Nets(circuit)
    BY <1>1 DEF WellFormed, None
  <2>5. detecting' # None => detecting' \in Observed(circuit) \intersect scope /\ Differs(detecting)'
    <3>1. CASE detecting = None /\ n \in Observed(circuit)
      BY <1>3, <2>1, <2>3, <3>1 DEF Differs
    <3>2. CASE ~ (detecting = None /\ n \in Observed(circuit))
      <4>1. detecting' = detecting
        BY <2>1, <3>2
      <4>2. detecting # None => Differs(detecting)'
        BY <2>2, <2>3, <2>4, <4>1 DEF SimulationInv, Differs
      <4> QED BY <4>1, <4>2 DEF SimulationInv
    <3> QED BY <3>1, <3>2
  <2>6. \A o \in Observed(circuit) \intersect scope : Differs(o)' => detecting' # None
    BY <1>3, <2>1, <2>2, <2>4 DEF SimulationInv
  <2>7. ASSUME NEW m \in scope PROVE Consistent(m)' \/ m \in levels'
    <3>1. CASE m = n
      BY <1>2, <1>3, <1>7, <1>12, <1>13, <3>1 DEF Consistent
    <3>2. CASE m # n /\ m \in Outputs(circuit, n)
      <4>1. circuit.level[n] < circuit.level[m] /\ m \in Nets(circuit)
        BY <1>1, <1>3, <3>2, Edges
      <4>2. m \notin computed
        BY <1>2, <1>3, <1>10, <4>1 DEF SimulationInv
      <4> QED BY <1>2, <2>1, <3>2, <4>2
    <3>3. CASE m # n /\ m \notin Outputs(circuit, n)
      <4>1. m \in Nets(circuit) /\ n \notin Inputs(circuit, m)
        BY <1>1, <3>3, Edges
      <4>2. Consistent(m) \/ m \in levels
        BY DEF SimulationInv
      <4>3. Consistent(m) => Consistent(m)'
        BY <1>2, <1>7, <1>12, <3>3, <4>1 DEF Consistent
      <4> QED BY <2>1, <3>3, <4>2, <4>3
    <3> QED BY <3>1, <3>2, <3>3
  <2>8. levels' \subseteq scope \ computed'
    BY <1>2, <2>1 DEF SimulationInv
  <2>9. \A m \in levels' : circuit.type[m] # "IN"
    BY <1>1, <1>2, <1>3, <2>1, Edges DEF SimulationInv
  <2>10. ASSUME NEW k \in computed', NEW m \in levels' PROVE circuit.level[k] <= circuit.level[m]
    <3>1. circuit.level[n] <= circuit.level[m] /\ m \in Nets(circuit)
      BY <1>1, <1>2, <1>3, <1>10, <2>1, Edges DEF SimulationInv
    <3>2. circuit.level[k] <= circuit.level[n] /\ k \in Nets(circuit)
      BY <1>1, <1>2, <1>3, <1>10 DEF SimulationInv
    <3> QED BY <1>3, <1>10, <3>1, <3>2
  <2> QED BY <1>2, <1>8, <1>14, <1>15, <2>5, <2>6, <2>7, <2>8, <2>9, <2>10 DEF SimulationInv
<1>17. CASE two'["faulty"][n] = two'["good"][n]
  <2>1. two' = two /\ levels' = levels \ {n} /\ detecting' = detecting
    BY <1>4, <1>11, <1>17 DEF Simulate
  <2>2. \A m : Differs(m)' <=> Differs(m)
    BY <2>1 DEF Differs
  <2>3. ASSUME NEW m \in scope PROVE Consistent(m)' \/ m \in levels'
    <3>1. Consistent(m)' <=> Consistent(m)
      BY <1>2, <2>1 DEF Consistent
    <3>2. Consistent(n)
      BY <1>2, <1>3, <1>7, <2>1 DEF Consistent
    <3> QED BY <2>1, <3>1, <3>2 DEF SimulationInv
  <2>4. \A k \in computed', m \in levels' : circuit.level[k] <= circuit.level[m]
    BY <1>2, <2>1 DEF SimulationInv
  <2>5. levels' \subseteq scope \ computed' /\ \A m \in levels' : circuit.type[m] # "IN"
    BY <1>2, <2>1 DEF SimulationInv
  <2>6. /\ detecting' # None => detecting' \in Observed(circuit) \intersect scope /\ Differs(detecting)'
        /\ \A o \in Observed(circuit) \intersect scope : Differs(o)' => detecting' # None
    BY <2>1, <2>2 DEF SimulationInv, Differs
  <2> QED BY <1>2, <1>8, <1>14, <1>15, <2>3, <2>4, <2>5, <2>6 DEF SimulationInv
<1> QED BY <1>16, <1>17

\* Once no event is left, the values are those of the faulty circuit.
LEMMA SimulationExact ==
  ASSUME SimulationInv, levels = {} \/ phase # "simulate"
  PROVE  /\ \A n \in scope : Consistent(n)
         /\ \A n \in scope : two["faulty"][n] = fault.model.faulty[n]
         /\ detecting # None
<1>1. CaseOK /\ WellFormed(circuit) /\ site \in scope /\ scope \subseteq Nets(circuit)
  BY CaseIsOK DEF SimulationInv, CaseOK
<1>2. \A n \in scope : Consistent(n)
  BY DEF SimulationInv
<1>3. ASSUME NEW n \in scope, two["faulty"][n] # fault.model.faulty[n] PROVE FALSE
  <2> DEFINE S == {m \in scope : two["faulty"][m] # fault.model.faulty[m]}
  <2>1. S \subseteq Nets(circuit) /\ S # {} /\ circuit.level \in [Nets(circuit) -> Nat]
    BY <1>1, <1>3 DEF WellFormed
  <2>2. PICK m \in S : \A k \in S : circuit.level[m] <= circuit.level[k]
    <3> HIDE DEF S
    <3> QED BY <2>1, LowestNet
  <2>3. m # site
    <3>1. two["good"][site] = 1 - fault.stuck /\ fault.model.faulty[site] = fault.stuck /\ fault.stuck \in {0, 1}
      BY <1>1, ModelFacts DEF SimulationInv, CaseOK, Bits
    <3>2. two["faulty"][site] = fault.stuck
      BY <3>1 DEF SimulationInv
    <3> QED BY <3>1, <3>2
  <2>4. circuit.type[m] # "IN"
    <3> SUFFICES ASSUME circuit.type[m] = "IN" PROVE FALSE
      OBVIOUS
    <3>1. m \notin computed
      BY <2>3 DEF SimulationInv
    <3>2. two["faulty"][m] = fault.model.good[m]
      BY <1>1, <3>1 DEF SimulationInv, Differs
    <3>3. fault.model.faulty[m] = fault.model.good[m]
      BY <1>1, <2>3, ModelFacts
    <3> QED BY <3>2, <3>3
  <2>5. \A k \in Inputs(circuit, m) : k \in scope /\ k \notin S
    <3> SUFFICES ASSUME NEW k \in Inputs(circuit, m) PROVE k \in scope /\ k \notin S
      OBVIOUS
    <3>1. k \in scope
      BY <1>1 DEF CaseOK
    <3>2. circuit.level[k] < circuit.level[m] /\ circuit.level[k] \in Nat /\ circuit.level[m] \in Nat
      BY <1>1, <2>1, <3>1, Edges
    <3> QED BY <2>2, <3>1, <3>2
  <2>6. Eval(circuit, two["faulty"], m) = Eval(circuit, fault.model.faulty, m)
    BY <1>1, <2>4, <2>5, EvalDepends
  <2>7. fault.model.faulty[m] = Eval(circuit, fault.model.faulty, m)
    BY <1>1, <2>3, <2>4, ModelFacts
  <2>8. two["faulty"][m] = Eval(circuit, two["faulty"], m)
    BY <1>2, <2>3, <2>4 DEF Consistent
  <2> QED BY <2>6, <2>7, <2>8
<1>4. detecting # None
  <2>1. PICK o \in Observed(circuit) \intersect scope : fault.model.faulty[o] # fault.model.good[o]
    BY <1>1 DEF CaseOK
  <2>2. Differs(o)
    BY <1>3, <2>1 DEF Differs, SimulationInv
  <2> QED BY <2>2 DEF SimulationInv
<1> QED BY <1>2, <1>3, <1>4

\* Where the values differ: at the site, and above it where they differ at an input.
LEMMA DifferenceAboveSite ==
  ASSUME SimulationInv, \A n \in scope : Consistent(n), NEW n \in scope, Differs(n), n # site
  PROVE  /\ circuit.type[n] # "IN"
         /\ \E m \in Inputs(circuit, n) : Differs(m)
         /\ circuit.level[site] < circuit.level[n]
<1>1. CaseOK /\ WellFormed(circuit) /\ site \in scope /\ scope \subseteq Nets(circuit)
  BY CaseIsOK DEF SimulationInv, CaseOK
<1>2. \A m \in Nets(circuit) : circuit.level[m] \in Nat
  BY <1>1 DEF WellFormed
<1>3. ASSUME NEW m \in scope, Differs(m), m # site
      PROVE  circuit.type[m] # "IN" /\ \E k \in Inputs(circuit, m) : Differs(k)
  <2>1. circuit.type[m] # "IN"
    BY <1>1, <1>3 DEF SimulationInv
  <2>2. two["faulty"][m] = Eval(circuit, two["faulty"], m)
    BY <1>3, <2>1 DEF Consistent
  <2>3. two["good"][m] = Eval(circuit, two["good"], m)
    BY <1>1, <2>1, ModelFacts DEF SimulationInv
  <2>4. ~ \A k \in Inputs(circuit, m) : two["faulty"][k] = two["good"][k]
    BY <1>1, <1>3, <2>1, <2>2, <2>3, EvalDepends DEF Differs
  <2> QED BY <2>1, <2>4 DEF Differs
<1>4. ASSUME ~ (circuit.level[site] < circuit.level[n]) PROVE FALSE
  <2> DEFINE S == {m \in scope : Differs(m) /\ m # site /\ ~ (circuit.level[site] < circuit.level[m])}
  <2>1. S \subseteq Nets(circuit) /\ S # {} /\ circuit.level \in [Nets(circuit) -> Nat]
    BY <1>1, <1>4 DEF WellFormed
  <2>2. PICK m \in S : \A k \in S : circuit.level[m] <= circuit.level[k]
    <3> HIDE DEF S
    <3> QED BY <2>1, LowestNet
  <2>3. PICK k \in Inputs(circuit, m) : Differs(k)
    BY <1>3
  <2>4. k \in scope /\ circuit.level[k] < circuit.level[m]
    BY <1>1, Edges DEF CaseOK
  <2>5. k # site
    BY <1>1, <1>2, <2>4
  <2>6. k \in S
    BY <1>1, <1>2, <2>3, <2>4, <2>5
  <2> QED BY <1>1, <1>2, <2>2, <2>4, <2>6
<1> QED BY <1>3, <1>4

\* The invariant of the simulation outlives it.
LEMMA SimulationStays ==
  ASSUME SimulationInv, phase' # "simulate", UNCHANGED <<fault, two, computed, detecting>>,
         phase # "simulate" \/ levels = {}
  PROVE  SimulationInv'
<1>1. circuit' = circuit /\ site' = site /\ scope' = scope
  BY DEF circuit, site, scope
<1>2. \A n : (Differs(n)' <=> Differs(n)) /\ (Consistent(n)' <=> Consistent(n))
  BY <1>1 DEF Differs, Consistent
<1>3. \A n \in scope : Consistent(n)
  BY DEF SimulationInv
<1>4. TwoOK'
  BY <1>1 DEF SimulationInv, TwoOK
<1>5. /\ fault' \in Cases
      /\ two'["good"] = fault'.model.good
      /\ two'["faulty"][site'] = 1 - two'["good"][site']
      /\ site' \in computed' /\ computed' \subseteq scope'
      /\ \A n \in computed' : n # site' => circuit'.type[n] # "IN"
  BY <1>1 DEF SimulationInv
<1>6. /\ \A n \in Nets(circuit') : Differs(n)' => n \in computed'
      /\ detecting' # None => detecting' \in Observed(circuit') \intersect scope' /\ Differs(detecting)'
      /\ \A o \in Observed(circuit') \intersect scope' : Differs(o)' => detecting' # None
  BY <1>1, <1>2 DEF SimulationInv, Differs
<1>7. \A n \in scope' : Consistent(n)'
  BY <1>1, <1>2, <1>3
<1> QED BY <1>4, <1>5, <1>6, <1>7 DEF SimulationInv

-----------------------------------------------------------------------------
(* Queues *)

QueueOf(q) == {q[i] : i \in DOMAIN q}

\* Any order of a finite set is a sequence of its elements.
LEMMA OrdersFacts ==
  ASSUME NEW S, IsFiniteSet(S), NEW q \in Orders(S)
  PROVE  q \in Seq(S) /\ QueueOf(q) = S
<1>1. Cardinality(S) \in Nat
  BY FS_CardinalityType
<1>2. q \in [1 .. Cardinality(S) -> S] /\ \A t \in S : \E i \in 1 .. Cardinality(S) : q[i] = t
  BY DEF Orders, Bijection, Injection, Surjection
<1>3. q \in Seq(S)
  BY <1>1, <1>2
<1> QED BY <1>2, <1>3 DEF QueueOf

\* The first of a queue is taken.
LEMMA QueueTail ==
  ASSUME NEW S, NEW q \in Seq(S), q # <<>>
  PROVE  /\ Head(q) \in S /\ Tail(q) \in Seq(S)
         /\ Head(q) \in QueueOf(q)
         /\ \A x \in QueueOf(q) : x = Head(q) \/ x \in QueueOf(Tail(q))
<1>1. Len(q) \in Nat /\ Len(q) > 0 /\ DOMAIN q = 1 .. Len(q)
  OBVIOUS
<1>2. Tail(q) \in Seq(S) /\ Len(Tail(q)) = Len(q) - 1 /\ \A i \in 1 .. Len(q) - 1 : Tail(q)[i] = q[i + 1]
  OBVIOUS
<1>3. Head(q) = q[1] /\ 1 \in DOMAIN q
  BY <1>1
<1>4. ASSUME NEW i \in DOMAIN q, i # 1 PROVE q[i] \in QueueOf(Tail(q))
  <2>1. i - 1 \in 1 .. Len(q) - 1
    BY <1>1, <1>4
  <2>2. Tail(q)[i - 1] = q[i] /\ i - 1 \in DOMAIN Tail(q)
    BY <1>1, <1>2, <2>1
  <2> QED BY <2>2 DEF QueueOf
<1> QED BY <1>1, <1>2, <1>3, <1>4 DEF QueueOf

LEMMA QueueConcat ==
  ASSUME NEW S, NEW p \in Seq(S), NEW q \in Seq(S)
  PROVE  p \o q \in Seq(S) /\ QueueOf(p \o q) = QueueOf(p) \union QueueOf(q)
<1>1. p \o q \in Seq(S) /\ Len(p \o q) = Len(p) + Len(q) /\ Len(p) \in Nat /\ Len(q) \in Nat
  OBVIOUS
<1>2. \A i \in 1 .. Len(p) : (p \o q)[i] = p[i]
  OBVIOUS
<1>3. \A i \in 1 .. Len(q) : (p \o q)[Len(p) + i] = q[i]
  OBVIOUS
<1>4. ASSUME NEW x \in QueueOf(p \o q) PROVE x \in QueueOf(p) \union QueueOf(q)
  <2>1. PICK i \in 1 .. Len(p) + Len(q) : x = (p \o q)[i]
    BY <1>1 DEF QueueOf
  <2>2. CASE i <= Len(p)
    BY <1>1, <1>2, <2>1, <2>2 DEF QueueOf
  <2>3. CASE i > Len(p)
    <3>1. i - Len(p) \in 1 .. Len(q) /\ i = Len(p) + (i - Len(p))
      BY <1>1, <2>3
    <3>2. x = q[i - Len(p)]
      BY <1>3, <2>1, <3>1
    <3> QED BY <3>1, <3>2 DEF QueueOf
  <2> QED BY <1>1, <2>2, <2>3
<1>5. ASSUME NEW x \in QueueOf(p) PROVE x \in QueueOf(p \o q)
  <2>1. PICK i \in 1 .. Len(p) : x = p[i]
    BY DEF QueueOf
  <2>2. i \in 1 .. Len(p \o q)
    BY <1>1
  <2> QED BY <1>1, <1>2, <2>1, <2>2 DEF QueueOf
<1>6. ASSUME NEW x \in QueueOf(q) PROVE x \in QueueOf(p \o q)
  <2>1. PICK i \in 1 .. Len(q) : x = q[i]
    BY DEF QueueOf
  <2>2. Len(p) + i \in 1 .. Len(p \o q)
    BY <1>1
  <2>3. (p \o q)[Len(p) + i] = x
    BY <1>3, <2>1
  <2>4. Len(p) + i \in DOMAIN (p \o q)
    BY <1>1, <2>2
  <2> QED BY <2>3, <2>4 DEF QueueOf
<1> QED BY <1>1, <1>4, <1>5, <1>6

LEMMA QueueAppend ==
  ASSUME NEW S, NEW q \in Seq(S), NEW x \in S
  PROVE  /\ Append(q, x) \in Seq(S)
         /\ QueueOf(q) \subseteq QueueOf(Append(q, x)) /\ x \in QueueOf(Append(q, x))
<1>1. Append(q, x) \in Seq(S) /\ Len(Append(q, x)) = Len(q) + 1 /\ Len(q) \in Nat
  OBVIOUS
<1>2. Append(q, x)[Len(q) + 1] = x
  OBVIOUS
<1>3. \A i \in 1 .. Len(q) : Append(q, x)[i] = q[i] /\ i \in DOMAIN Append(q, x)
  BY <1>1
<1> QED BY <1>1, <1>2, <1>3 DEF QueueOf

-----------------------------------------------------------------------------
(* The required values, while they are filled in *)

\* The value of n on side s needs no more: n is an input, it is the fault, or
\* the values of its own inputs give it.
Settled(t, s, n) ==
  \/ circuit.type[n] = "IN"
  \/ s = "faulty" /\ n = site
  \/ Implied(t, s, n) # X

\* It waits for the limited justification.
Awaited(s, n) ==
  /\ n \in QueueOf(jus)
  /\ circuit.type[n] \in Controllable
  /\ three[s][n] = 1 - Uncontrolled(circuit.type[n])

\* No requirement is lost: every required value is settled or still queued.
Justified ==
  \A s \in Sides, n \in Nets(circuit) : three[s][n] # X =>
    Settled(three, s, n) \/ n \in levels \/ n \in QueueOf(bwd) \/ Awaited(s, n)

\* What has a value from the start.
Axioms(t) ==
  /\ \A s \in Sides : t[s][site] # X /\ t[s][detecting] # X
  /\ \A n \in Excitation(fault) : t["good"][n] # X

FillInv ==
  /\ fwd \in Seq(scope) /\ bwd \in Seq(scope) /\ jus \in Seq(scope)
  /\ levels \subseteq scope
  /\ \A n \in levels : Differs(n) /\ \A s \in Sides : three[s][n] # X
  /\ levels # {} => site \in levels
  /\ Axioms(three)
  /\ Justified

Blank == \A s \in Sides, n \in Nets(circuit) : three[s][n] = X

XidInv ==
  /\ SimulationInv
  /\ Agrees(three)
  /\ phase \in {"simulate", "fill", "done"}
  /\ phase = "simulate" => Blank /\ fwd = <<>> /\ bwd = <<>> /\ jus = <<>>
  /\ phase = "fill" => FillInv
  /\ CubeDetects

\* What every step of the filling can rely on.
LEMMA Basics ==
  ASSUME SimulationInv
  PROVE  /\ CaseOK /\ WellFormed(circuit)
         /\ site \in scope /\ scope \subseteq Nets(circuit)
         /\ Excitation(fault) \subseteq scope
         /\ \A n \in scope : Inputs(circuit, n) \subseteq scope
         /\ TwoOK
BY CaseIsOK DEF SimulationInv, CaseOK

\* Both circuits' values agree with every gate, the fault apart.
LEMMA TwoEval ==
  ASSUME SimulationInv, phase # "simulate", NEW s \in Sides, NEW n \in scope,
         circuit.type[n] # "IN", ~ (s = "faulty" /\ n = site)
  PROVE  two[s][n] = Eval(circuit, two[s], n)
<1>1. CaseOK /\ scope \subseteq Nets(circuit)
  BY Basics
<1>2. CASE s = "good"
  BY <1>1, <1>2, ModelFacts DEF SimulationInv
<1>3. CASE s = "faulty"
  BY <1>3 DEF SimulationInv, Consistent
<1> QED BY <1>2, <1>3 DEF Sides

LEMMA SettledStays ==
  ASSUME CaseOK, NEW t \in ThreeValues, NEW u \in ThreeValues, Extends(t, u),
         NEW s \in Sides, NEW n \in Nets(circuit), Settled(t, s, n)
  PROVE  Settled(u, s, n)
BY ImpliedStays DEF Settled

\* What a forward implication gives is the model's, and settled.
LEMMA ForwardSuits ==
  ASSUME SimulationInv, phase # "simulate", NEW t, Agrees(t), t["faulty"][site] # X,
         NEW n \in scope
  PROVE  /\ Suits(t, Forward(t, n))
         /\ \A s \in Sides, m \in Nets(circuit) : m \in DOMAIN Forward(t, n)[s] => Settled(t, s, m)
         /\ Changed(t, Forward(t, n)) \subseteq scope
<1>1. CaseOK /\ WellFormed(circuit) /\ scope \subseteq Nets(circuit) /\ TwoOK
  BY Basics
<1>2. ASSUME NEW s \in Sides, NEW m \in DOMAIN Forward(t, n)[s]
      PROVE  /\ m \in Outputs(circuit, n) /\ m \in scope
             /\ Implied(t, s, m) # X
             /\ Forward(t, n)[s][m] = Implied(t, s, m)
  BY <1>2 DEF Forward
<1>3. ASSUME NEW s \in Sides, NEW m \in DOMAIN Forward(t, n)[s], t[s][m] = X
      PROVE  Forward(t, n)[s][m] = two[s][m]
  <2>1. m \in Nets(circuit) /\ m \in scope /\ circuit.type[m] # "IN" /\ Implied(t, s, m) # X
        /\ Forward(t, n)[s][m] = Implied(t, s, m)
    BY <1>1, <1>2, Edges
  <2>2. ~ (s = "faulty" /\ m = site)
    BY <1>3
  <2>3. \A i \in Inputs(circuit, m) : i \in Nets(circuit)
    BY <1>1, <2>1, Edges
  <2>4. \A i \in Inputs(circuit, m) : two[s][i] \in Bits /\ (t[s][i] # X => t[s][i] = two[s][i])
    BY <1>1, <2>3 DEF TwoOK, Agrees
  <2>5. Implied(t, s, m) = Eval(circuit, two[s], m)
    BY <1>1, <2>1, <2>4, ImpliedSound
  <2>6. two[s][m] = Eval(circuit, two[s], m)
    BY <2>1, <2>2, TwoEval
  <2> QED BY <2>1, <2>5, <2>6
<1>4. Suits(t, Forward(t, n))
  BY <1>2, <1>3 DEF Suits
<1>5. \A s \in Sides, m \in Nets(circuit) : m \in DOMAIN Forward(t, n)[s] => Settled(t, s, m)
  BY <1>2 DEF Settled
<1>6. Changed(t, Forward(t, n)) \subseteq scope
  BY <1>2 DEF Changed
<1> QED BY <1>4, <1>5, <1>6

\* No requirement is lost in a step if none of those that leave the stack or a
\* queue is, and the new ones are queued or settled.
LEMMA JustifiedStep ==
  ASSUME CaseOK, Justified, UNCHANGED fault,
         three \in ThreeValues, three' \in ThreeValues, Extends(three, three'),
         \A s \in Sides, n \in Nets(circuit) : three'[s][n] # X =>
           \/ Settled(three', s, n) \/ n \in levels' \/ n \in QueueOf(bwd')
           \/ three[s][n] # X /\ n \notin levels \ levels' /\ n \notin QueueOf(bwd) \ QueueOf(bwd')
              /\ (Awaited(s, n) => n \in QueueOf(jus'))
           \/ three[s][n] # X /\ Awaited(s, n)'
  PROVE  Justified'
<1>1. circuit' = circuit /\ site' = site
  BY DEF circuit, site
<1>2. SUFFICES ASSUME NEW s \in Sides, NEW n \in Nets(circuit), three'[s][n] # X,
                      ~ Settled(three', s, n), n \notin levels', n \notin QueueOf(bwd')
               PROVE  Awaited(s, n)'
  <2>1. \A s, n : Settled(three, s, n)' <=> Settled(three', s, n)
    BY <1>1 DEF Settled, Implied
  <2>2. QueueOf(bwd)' = QueueOf(bwd')
    BY DEF QueueOf
  <2> QED BY <1>1, <2>1, <2>2 DEF Justified
<1>3. \/ three[s][n] # X /\ n \notin levels \ levels' /\ n \notin QueueOf(bwd) \ QueueOf(bwd')
         /\ (Awaited(s, n) => n \in QueueOf(jus'))
      \/ three[s][n] # X /\ Awaited(s, n)'
  BY <1>2
<1>4. CASE three[s][n] # X /\ n \notin levels \ levels' /\ n \notin QueueOf(bwd) \ QueueOf(bwd')
           /\ (Awaited(s, n) => n \in QueueOf(jus'))
  <2>1. ~ Settled(three, s, n)
    BY <1>2, SettledStays
  <2>2. Awaited(s, n)
    BY <1>2, <1>4, <2>1 DEF Justified
  <2>3. three'[s][n] = three[s][n]
    BY <1>4 DEF Extends
  <2>4. QueueOf(jus)' = QueueOf(jus')
    BY DEF QueueOf
  <2> QED BY <1>1, <1>4, <2>2, <2>3, <2>4 DEF Awaited
<1> QED BY <1>3, <1>4

\* Values of the model, for nets of the scope.
LEMMA BothSuits ==
  ASSUME SimulationInv, NEW t, NEW S, S \subseteq scope
  PROVE  /\ Suits(t, Both(S))
         /\ Suits(t, OnGood([n \in S |-> two["good"][n]]))
         /\ Changed(t, Both(S)) \subseteq S
         /\ Changed(t, OnGood([n \in S |-> two["good"][n]])) \subseteq S
         /\ \A s \in Sides : DOMAIN Both(S)[s] = S
         /\ DOMAIN OnGood([n \in S |-> two["good"][n]])["good"] = S
<1>1. \A s \in Sides : Both(S)[s] = [n \in S |-> two[s][n]]
  BY DEF Both
<1>2. \A s \in Sides : OnGood([n \in S |-> two["good"][n]])[s]
                       = IF s = "good" THEN [n \in S |-> two["good"][n]] ELSE <<>>
  BY DEF OnGood
<1>3. DOMAIN <<>> = {}
  OBVIOUS
<1> QED BY <1>1, <1>2, <1>3 DEF Suits, Changed, Sides

LEMMA AxiomsStay ==
  ASSUME CaseOK, NEW t, NEW u, Extends(t, u), Axioms(t), detecting \in Nets(circuit)
  PROVE  Axioms(u)
<1>1. site \in Nets(circuit) /\ Excitation(fault) \subseteq Nets(circuit)
  BY DEF CaseOK
<1> QED BY <1>1 DEF Axioms, Extends, Sides

LEMMA BeginFillingStep ==
  ASSUME XidInv, BeginFilling
  PROVE  phase' = "fill" /\ SimulationInv' /\ Agrees(three)' /\ FillInv'
<1>1. /\ phase = "simulate" /\ levels = {} /\ SimulationInv /\ Agrees(three)
      /\ UNCHANGED <<fault, two, computed, detecting, fwd, jus>>
  BY DEF BeginFilling, XidInv
<1>2. /\ CaseOK /\ WellFormed(circuit) /\ TwoOK
      /\ site \in scope /\ scope \subseteq Nets(circuit) /\ Excitation(fault) \subseteq scope
  BY <1>1, Basics
<1>3. detecting # None
  BY <1>1, SimulationExact
<1>4. detecting \in scope /\ Differs(detecting)
  BY <1>1, <1>3 DEF SimulationInv
<1> DEFINE F == Fixed(detecting)
           E == Excitation(fault) \ F
           t == Require(three, Both(F))
           w == OnGood([n \in E |-> two["good"][n]])
<1>5. /\ phase' = "fill" /\ three' = Require(t, w) /\ levels' = F /\ bwd' \in Orders(E)
  BY <1>3 DEF BeginFilling
<1>6. F = {detecting, site} /\ F \subseteq scope /\ E \subseteq scope
  BY <1>2, <1>4 DEF Fixed
<1>7. SimulationInv'
  BY <1>1, <1>5, SimulationStays
<1>8. Blank /\ fwd = <<>> /\ jus = <<>>
  BY <1>1 DEF XidInv
<1>9. /\ Suits(three, Both(F)) /\ Changed(three, Both(F)) \subseteq F
      /\ \A s \in Sides : DOMAIN Both(F)[s] = F
  <2> HIDE DEF F
  <2> QED BY <1>1, <1>6, BothSuits
<1>10. /\ Agrees(t)
       /\ \A s \in Sides, n \in Nets(circuit) : n \in F => t[s][n] # X
       /\ \A s \in Sides, n \in Nets(circuit) : t[s][n] # X => n \in F
  <2> HIDE DEF F
  <2>1. /\ Agrees(Require(three, Both(F)))
        /\ \A s \in Sides, n \in Nets(circuit) :
             /\ n \in DOMAIN Both(F)[s] => Require(three, Both(F))[s][n] # X
             /\ Require(three, Both(F))[s][n] # X /\ n \notin Changed(three, Both(F)) => three[s][n] # X
    BY <1>1, <1>2, <1>9, RequireSuits
  <2> QED BY <1>8, <1>9, <2>1 DEF Blank
<1>11. Suits(t, w) /\ Changed(t, w) \subseteq E /\ DOMAIN w["good"] = E
  <2> HIDE DEF E, t
  <2> QED BY <1>1, <1>6, BothSuits
<1>12. /\ Agrees(three') /\ Extends(t, three')
       /\ \A s \in Sides, n \in Nets(circuit) :
            /\ n \in DOMAIN w[s] => three'[s][n] # X
            /\ three'[s][n] # X /\ n \notin Changed(t, w) => t[s][n] # X
  <2> HIDE DEF t, w
  <2> QED BY <1>2, <1>5, <1>10, <1>11, RequireSuits
<1>13. /\ circuit' = circuit /\ site' = site /\ scope' = scope
  BY <1>1 DEF circuit, site, scope
<1>14. Agrees(three)'
  BY <1>1, <1>12, <1>13 DEF Agrees, ThreeValues
<1>15. IsFiniteSet(E)
  <2>1. IsFiniteSet(Nets(circuit))
    BY <1>2 DEF WellFormed
  <2> QED BY <1>2, <1>6, <2>1, FS_Subset
<1>16. bwd' \in Seq(scope) /\ QueueOf(bwd') = E
  <2>1. bwd' \in Seq(E) /\ QueueOf(bwd') = E
    <3> HIDE DEF E
    <3> QED BY <1>5, <1>15, OrdersFacts
  <2> QED BY <1>6, <2>1
<1>17. \A s \in Sides, n \in Nets(circuit) : n \in F => three'[s][n] # X
  BY <1>10, <1>12 DEF Extends
<1>18. \A n \in F : Differs(n)
  <2>1. two["good"][site] # two["faulty"][site]
    <3>1. two["good"][site] \in {0, 1} /\ two["faulty"][site] = 1 - two["good"][site]
      BY <1>1, <1>2 DEF TwoOK, Sides, Bits, SimulationInv
    <3> QED BY <3>1
  <2> QED BY <1>4, <1>6, <2>1 DEF Differs
<1>19. Axioms(three')
  <2>1. \A s \in Sides : three'[s][site] # X /\ three'[s][detecting] # X
    BY <1>2, <1>4, <1>6, <1>17
  <2>2. \A n \in Excitation(fault) : three'["good"][n] # X
    BY <1>2, <1>11, <1>12, <1>17 DEF Sides
  <2> QED BY <2>1, <2>2 DEF Axioms
<1>20. \A s \in Sides, n \in Nets(circuit) : three'[s][n] # X => n \in F \/ n \in E
  BY <1>10, <1>11, <1>12
<1>21. Justified'
  <2>1. \A q : QueueOf(q)' = QueueOf(q')
    BY DEF QueueOf
  <2> QED BY <1>5, <1>13, <1>16, <1>20 DEF Justified, QueueOf
<1>22. /\ fwd' \in Seq(scope') /\ bwd' \in Seq(scope') /\ jus' \in Seq(scope')
       /\ levels' \subseteq scope' /\ site' \in levels'
  BY <1>1, <1>5, <1>6, <1>8, <1>13, <1>16
<1>23. \A n \in levels' : Differs(n)' /\ \A s \in Sides : three'[s][n] # X
  BY <1>1, <1>2, <1>5, <1>6, <1>17, <1>18 DEF Differs
<1>24. Axioms(three)'
  BY <1>1, <1>13, <1>19 DEF Axioms, Excitation
<1> QED BY <1>5, <1>7, <1>14, <1>21, <1>22, <1>23, <1>24 DEF FillInv

\* What a step of the filling has to show.
LEMMA FillStep ==
  ASSUME XidInv, phase = "fill", phase' = "fill",
         UNCHANGED <<fault, two, computed, detecting>>,
         Agrees(three'), Extends(three, three'),
         fwd' \in Seq(scope), bwd' \in Seq(scope), jus' \in Seq(scope), levels' \subseteq scope,
         \A n \in levels' : Differs(n) /\ \A s \in Sides : three'[s][n] # X,
         levels' # {} => site \in levels',
         \A s \in Sides, n \in Nets(circuit) : three'[s][n] # X =>
           \/ Settled(three', s, n) \/ n \in levels' \/ n \in QueueOf(bwd')
           \/ three[s][n] # X /\ n \notin levels \ levels' /\ n \notin QueueOf(bwd) \ QueueOf(bwd')
              /\ (Awaited(s, n) => n \in QueueOf(jus'))
           \/ three[s][n] # X /\ Awaited(s, n)'
  PROVE  SimulationInv' /\ Agrees(three)' /\ FillInv'
<1>1. SimulationInv /\ Agrees(three) /\ FillInv
  BY DEF XidInv
<1>2. CaseOK /\ site \in scope /\ scope \subseteq Nets(circuit)
  BY <1>1, Basics
<1>3. circuit' = circuit /\ site' = site /\ scope' = scope
  BY DEF circuit, site, scope
<1>4. SimulationInv'
  BY <1>1, SimulationStays
<1>5. Agrees(three)'
  BY <1>3 DEF Agrees, ThreeValues
<1>6. Justified'
  BY <1>1, <1>2, JustifiedStep DEF FillInv, Agrees
<1>7. Axioms(three)'
  <2>1. detecting \in Nets(circuit)
    BY <1>1, <1>2, SimulationExact DEF SimulationInv
  <2>2. Axioms(three')
    BY <1>1, <1>2, <2>1, AxiomsStay DEF FillInv
  <2> QED BY <1>3, <2>2 DEF Axioms, Excitation
<1>8. \A n \in levels' : Differs(n)' /\ \A s \in Sides : three'[s][n] # X
  BY DEF Differs
<1>9. /\ fwd' \in Seq(scope') /\ bwd' \in Seq(scope') /\ jus' \in Seq(scope')
      /\ levels' \subseteq scope' /\ (levels' # {} => site' \in levels')
  BY <1>3
<1> QED BY <1>4, <1>5, <1>6, <1>7, <1>8, <1>9 DEF FillInv

\* Changes to a finite circuit are finite.
LEMMA ChangedFinite ==
  ASSUME WellFormed(circuit), NEW t, NEW w
  PROVE  IsFiniteSet(Changed(t, w))
<1>1. IsFiniteSet(Nets(circuit)) /\ Changed(t, w) \subseteq Nets(circuit)
  BY DEF WellFormed, Changed
<1> QED BY <1>1, FS_Subset

LEMMA ForwardImpStep ==
  ASSUME XidInv, ForwardImp
  PROVE  SimulationInv' /\ Agrees(three)' /\ FillInv'
<1> DEFINE n == Head(fwd)
           w == Forward(three, n)
<1>1. /\ phase = "fill" /\ phase' = "fill" /\ fwd # <<>>
      /\ three' = Require(three, w)
      /\ UNCHANGED <<fault, two, computed, detecting, levels, bwd, jus>>
  BY DEF ForwardImp
<1>2. PICK more \in Orders(Changed(three, w)) : fwd' = Tail(fwd) \o more
  BY DEF ForwardImp
<1>3. SimulationInv /\ Agrees(three) /\ FillInv
  BY <1>1 DEF XidInv
<1>4. CaseOK /\ WellFormed(circuit) /\ TwoOK /\ site \in scope /\ scope \subseteq Nets(circuit)
  BY <1>3, Basics
<1>5. n \in scope /\ Tail(fwd) \in Seq(scope)
  <2>1. fwd \in Seq(scope)
    BY <1>3 DEF FillInv
  <2> QED BY <1>1, <2>1, QueueTail
<1>6. three["faulty"][site] # X
  BY <1>3 DEF FillInv, Axioms, Sides
<1> HIDE DEF n
<1>7. /\ Suits(three, w)
      /\ \A s \in Sides, m \in Nets(circuit) : m \in DOMAIN w[s] => Settled(three, s, m)
      /\ Changed(three, w) \subseteq scope
  BY <1>1, <1>3, <1>5, <1>6, ForwardSuits
<1> HIDE DEF w
<1>8. /\ Agrees(three') /\ Extends(three, three')
  BY <1>1, <1>3, <1>4, <1>7, RequireSuits
<1>9. fwd' \in Seq(scope)
  <2>1. more \in Seq(Changed(three, w))
    BY <1>2, <1>4, ChangedFinite, OrdersFacts
  <2>2. more \in Seq(scope)
    BY <1>7, <2>1
  <2> QED BY <1>2, <1>5, <2>2
<1>10. ASSUME NEW s \in Sides, NEW m \in Nets(circuit), three'[s][m] # X
       PROVE  three[s][m] # X \/ Settled(three', s, m)
  <2>1. ASSUME three[s][m] = X PROVE m \in DOMAIN w[s]
    BY <1>1, <1>10, <2>1 DEF Require
  <2>2. three \in ThreeValues /\ three' \in ThreeValues
    BY <1>3, <1>8 DEF Agrees
  <2> QED BY <1>4, <1>7, <1>8, <2>1, <2>2, SettledStays
<1>11. \A s \in Sides, m \in levels' : three'[s][m] # X
  BY <1>1, <1>3, <1>4, <1>8 DEF FillInv, Extends
<1>12. /\ bwd' \in Seq(scope) /\ jus' \in Seq(scope) /\ levels' \subseteq scope
       /\ (levels' # {} => site \in levels') /\ \A m \in levels' : Differs(m)
  BY <1>1, <1>3 DEF FillInv
<1>13. ASSUME NEW s \in Sides, NEW m \in Nets(circuit), three'[s][m] # X
       PROVE  \/ Settled(three', s, m)
              \/ three[s][m] # X /\ m \notin levels \ levels' /\ m \notin QueueOf(bwd) \ QueueOf(bwd')
                 /\ (Awaited(s, m) => m \in QueueOf(jus'))
  BY <1>1, <1>10, <1>13 DEF Awaited
<1> QED BY <1>1, <1>8, <1>9, <1>11, <1>12, <1>13, FillStep

-----------------------------------------------------------------------------
(* Backward implication *)

\* What the output of a gate with a controlling value says of its inputs.
LEMMA GateInputs ==
  ASSUME SimulationInv, phase # "simulate", NEW s \in Sides, NEW n \in scope,
         circuit.type[n] \in Controllable, ~ (s = "faulty" /\ n = site)
  PROVE  /\ two[s][n] = Uncontrolled(circuit.type[n]) =>
              \A m \in Inputs(circuit, n) : two[s][m] = NonControlling(circuit.type[n])
         /\ two[s][n] = 1 - Uncontrolled(circuit.type[n]) =>
              \E m \in Inputs(circuit, n) : two[s][m] = 1 - NonControlling(circuit.type[n])
         /\ two[s][n] \in {Uncontrolled(circuit.type[n]), 1 - Uncontrolled(circuit.type[n])}
<1>1. /\ WellFormed(circuit) /\ TwoOK /\ n \in Nets(circuit)
  BY Basics
<1>2. circuit.type[n] # "IN"
  BY DEF Controllable
<1>3. two[s][n] = Eval(circuit, two[s], n)
  BY <1>2, TwoEval
<1>4. Uncontrolled(circuit.type[n]) \in {0, 1} /\ NonControlling(circuit.type[n]) \in {0, 1}
  BY UncontrolledBit DEF Bits
<1>5. \A m \in Inputs(circuit, n) : m \in Nets(circuit)
  BY <1>1, Edges
<1>6. \A m \in Inputs(circuit, n) : two[s][m] \in {0, 1}
  BY <1>1, <1>5 DEF TwoOK, Bits
<1>7. two[s][n] = IF \A m \in Inputs(circuit, n) : two[s][m] = NonControlling(circuit.type[n])
                  THEN Uncontrolled(circuit.type[n]) ELSE 1 - Uncontrolled(circuit.type[n])
  BY <1>3 DEF Eval, Controllable
<1> QED BY <1>4, <1>6, <1>7

\* The inputs of a one-input gate carry its value.
LEMMA GateInput ==
  ASSUME SimulationInv, phase # "simulate", NEW s \in Sides, NEW n \in scope,
         circuit.type[n] \in {"BUF", "FOUT", "INV"}, ~ (s = "faulty" /\ n = site),
         NEW m \in Inputs(circuit, n)
  PROVE  two[s][m] = IF circuit.type[n] = "INV" THEN 1 - two[s][n] ELSE two[s][n]
<1>1. WellFormed(circuit) /\ TwoOK /\ n \in Nets(circuit)
  BY Basics
<1>2. two[s][n] = Eval(circuit, two[s], n)
  BY TwoEval
<1>3. m = circuit.in[n][1]
  BY <1>1, OneInput
<1>4. m \in Nets(circuit)
  BY <1>1, Edges
<1>5. two[s][m] \in {0, 1}
  BY <1>1, <1>4 DEF TwoOK, Bits
<1>6. two[s][n] = IF circuit.type[n] = "INV" THEN 1 - two[s][m] ELSE two[s][m]
  BY <1>2, <1>3 DEF Eval, Controllable
<1> QED BY <1>5, <1>6

LEMMA ForcedSuits ==
  ASSUME SimulationInv, phase # "simulate", Agrees(three), NEW n \in scope, NEW s \in Sides
  PROVE  /\ \A m \in DOMAIN Forced(s, n) : m \in Inputs(circuit, n) /\ Forced(s, n)[m] = two[s][m]
         /\ /\ three[s][n] # X /\ circuit.type[n] # "IN" /\ ~ (s = "faulty" /\ n = site)
            /\ circuit.type[n] \in Controllable => three[s][n] = Uncontrolled(circuit.type[n])
            => DOMAIN Forced(s, n) = Inputs(circuit, n)
<1>1. WellFormed(circuit) /\ TwoOK /\ n \in Nets(circuit)
  BY Basics
<1>2. circuit.type[n] \in Controllable \union {"EXOR", "EXNOR", "BUF", "FOUT", "INV", "IN"}
  BY <1>1 DEF WellFormed, GateTypes
<1>3. Demand(s, n) # X => /\ ~ (s = "faulty" /\ n = site) /\ Demand(s, n) = three[s][n]
                          /\ three[s][n] = two[s][n]
  BY <1>1 DEF Demand, Agrees
<1>4. ~ (s = "faulty" /\ n = site) => Demand(s, n) = three[s][n]
  BY DEF Demand
<1>5. CASE circuit.type[n] \in Controllable
  <2>1. Uncontrolled(circuit.type[n]) \in {0, 1}
    BY UncontrolledBit DEF Bits
  <2>2. Forced(s, n) = IF Demand(s, n) = Uncontrolled(circuit.type[n])
                       THEN [m \in Inputs(circuit, n) |-> NonControlling(circuit.type[n])] ELSE <<>>
    BY <1>5 DEF Forced, Controllable
  <2>3. CASE Demand(s, n) = Uncontrolled(circuit.type[n])
    <3>1. \A m \in Inputs(circuit, n) : two[s][m] = NonControlling(circuit.type[n])
      BY <1>3, <1>5, <2>1, <2>3, GateInputs DEF X
    <3> QED BY <2>2, <2>3, <3>1
  <2>4. CASE Demand(s, n) # Uncontrolled(circuit.type[n])
    BY <1>4, <1>5, <2>2, <2>4
  <2> QED BY <2>3, <2>4
<1>6. CASE circuit.type[n] \in {"EXOR", "EXNOR"}
  <2>1. Forced(s, n) = IF \E r \in Sides : Demand(r, n) # X
                       THEN [m \in Inputs(circuit, n) |-> two[s][m]] ELSE <<>>
    BY <1>6 DEF Forced, Controllable
  <2> QED BY <1>4, <2>1
<1>7. CASE circuit.type[n] \in {"BUF", "FOUT"}
  <2>1. Forced(s, n) = IF Demand(s, n) # X THEN [m \in Inputs(circuit, n) |-> Demand(s, n)] ELSE <<>>
    BY <1>7 DEF Forced, Controllable
  <2>2. ASSUME Demand(s, n) # X, NEW m \in Inputs(circuit, n) PROVE two[s][m] = Demand(s, n)
    BY <1>3, <1>7, <2>2, GateInput
  <2> QED BY <1>4, <2>1, <2>2
<1>8. CASE circuit.type[n] = "INV"
  <2>1. Forced(s, n) = IF Demand(s, n) # X THEN [m \in Inputs(circuit, n) |-> 1 - Demand(s, n)] ELSE <<>>
    BY <1>8 DEF Forced, Controllable
  <2>2. ASSUME Demand(s, n) # X, NEW m \in Inputs(circuit, n) PROVE two[s][m] = 1 - Demand(s, n)
    BY <1>3, <1>8, <2>2, GateInput
  <2> QED BY <1>4, <2>1, <2>2
<1>9. CASE circuit.type[n] = "IN"
  <2>1. Forced(s, n) = <<>>
    BY <1>9 DEF Forced, Controllable
  <2> QED BY <1>9, <2>1
<1> QED BY <1>2, <1>5, <1>6, <1>7, <1>8, <1>9

\* Candidates have the value that is wanted of them.
LEMMA ControllingSuits ==
  ASSUME SimulationInv, NEW t, NEW n \in scope, NEW S,
         \A s \in Sides : S[s] \subseteq Candidates(s, n)
  PROVE  /\ Suits(t, Controlling(n, S))
         /\ Changed(t, Controlling(n, S)) \subseteq scope
         /\ \A s \in Sides : DOMAIN Controlling(n, S)[s] = S[s]
<1>1. \A s \in Sides : Controlling(n, S)[s] = [m \in S[s] |-> 1 - NonControlling(circuit.type[n])]
  BY DEF Controlling
<1>2. ASSUME NEW s \in Sides, NEW m \in S[s]
      PROVE  m \in scope /\ two[s][m] = 1 - NonControlling(circuit.type[n])
  BY <1>2, Basics DEF Candidates
<1> QED BY <1>1, <1>2 DEF Suits, Changed

\* An open gate has a candidate; a gate that is not open is settled.
LEMMA OpenGate ==
  ASSUME SimulationInv, phase # "simulate", Agrees(three), NEW s \in Sides, NEW n \in scope,
         circuit.type[n] \in Controllable, three[s][n] = 1 - Uncontrolled(circuit.type[n])
  PROVE  Settled(three, s, n) \/ (Open(s, n) /\ Candidates(s, n) # {})
<1>1. CaseOK /\ WellFormed(circuit) /\ n \in Nets(circuit) /\ TwoOK
  BY Basics
<1>2. SUFFICES ASSUME ~ Settled(three, s, n) PROVE Open(s, n) /\ Candidates(s, n) # {}
  OBVIOUS
<1>3. ~ (s = "faulty" /\ n = site) /\ circuit.type[n] # "IN" /\ Implied(three, s, n) = X
  BY <1>2 DEF Settled
<1>4. \A m \in Inputs(circuit, n) : three[s][m] # 1 - NonControlling(circuit.type[n])
  BY <1>1, <1>3, ImpliedByInputs DEF Agrees
<1>5. Open(s, n)
  BY <1>3, <1>4 DEF Open, Demand
<1>6. Uncontrolled(circuit.type[n]) \in {0, 1}
  BY UncontrolledBit DEF Bits
<1>7. two[s][n] = 1 - Uncontrolled(circuit.type[n])
  BY <1>1, <1>6 DEF Agrees, X
<1>8. PICK m \in Inputs(circuit, n) : two[s][m] = 1 - NonControlling(circuit.type[n])
  BY <1>3, <1>7, GateInputs
<1>9. m \in Nets(circuit)
  BY <1>1, Edges
<1>10. three[s][m] = X
  BY <1>4, <1>8, <1>9 DEF Agrees
<1>11. m \in Candidates(s, n)
  BY <1>8, <1>10 DEF Candidates
<1> QED BY <1>5, <1>11

\* A gate is settled once an input with the controlling value, or every input,
\* has its value.
LEMMA SettledByInputs ==
  ASSUME CaseOK, NEW u, Agrees(u), NEW s \in Sides, NEW n \in Nets(circuit),
         \/ \A m \in Inputs(circuit, n) : u[s][m] # X
         \/ /\ circuit.type[n] \in Controllable
            /\ \E m \in Inputs(circuit, n) : u[s][m] # X /\ two[s][m] = 1 - NonControlling(circuit.type[n])
  PROVE  Settled(u, s, n)
<1>1. SUFFICES ASSUME circuit.type[n] # "IN" PROVE Implied(u, s, n) # X
  BY DEF Settled
<1>2. WellFormed(circuit) /\ u \in ThreeValues
  BY DEF CaseOK, Agrees
<1>3. \A m \in Inputs(circuit, n) : m \in Nets(circuit)
  BY <1>2, Edges
<1>4. \A m \in Inputs(circuit, n) : u[s][m] # X => u[s][m] = two[s][m]
  BY <1>3 DEF Agrees
<1>5. CASE \A m \in Inputs(circuit, n) : u[s][m] # X
  BY <1>1, <1>2, <1>5, ImpliedByInputs
<1>6. CASE /\ circuit.type[n] \in Controllable
           /\ \E m \in Inputs(circuit, n) : u[s][m] # X /\ two[s][m] = 1 - NonControlling(circuit.type[n])
  BY <1>1, <1>2, <1>4, <1>6, ImpliedByInputs
<1> QED BY <1>5, <1>6

\* In a set of which neither one nor two elements can be told apart there is none.
LEMMA OneOrMore ==
  ASSUME NEW S, IsFiniteSet(S), S # {}
  PROVE  Cardinality(S) = 1 \/ Cardinality(S) >= 2
<1>1. Cardinality(S) \in Nat /\ Cardinality(S) # 0
  BY FS_CardinalityType, FS_EmptySet
<1> QED BY <1>1

LEMMA BackwardImpStep ==
  ASSUME XidInv, BackwardImp
  PROVE  SimulationInv' /\ Agrees(three)' /\ FillInv'
<1>0. PICK n : n = Head(bwd)
  OBVIOUS
<1> DEFINE open == {s \in Sides : Open(s, n)}
           forced == [s \in Sides |-> Forced(s, n)]
           S == [s \in Sides |->
                   IF s \in open /\ Cardinality(Candidates(s, n)) = 1 THEN Candidates(s, n) ELSE {}]
           only == Controlling(n, S)
           t1 == Require(three, forced)
           t == Require(t1, only)
           w == IF Cardinality(Outputs(circuit, n)) >= 2 THEN Forward(t, n) ELSE [s \in Sides |-> <<>>]
<1>1. /\ phase = "fill" /\ phase' = "fill" /\ bwd # <<>>
      /\ three' = Require(t, w)
      /\ fwd' \in Orders(Changed(t, w))
      /\ jus' = IF \E s \in open : Cardinality(Candidates(s, n)) >= 2 THEN Append(jus, n) ELSE jus
      /\ UNCHANGED <<fault, two, computed, detecting, levels>>
  BY <1>0 DEF BackwardImp
<1>2. PICK first \in Orders(Changed(three, forced)), second \in Orders(Changed(three, only)) :
        bwd' = Tail(bwd) \o first \o second
  BY <1>0 DEF BackwardImp
<1>3. SimulationInv /\ Agrees(three) /\ FillInv /\ phase # "simulate"
  BY <1>1 DEF XidInv
<1>4. CaseOK /\ WellFormed(circuit) /\ TwoOK /\ site \in scope /\ scope \subseteq Nets(circuit)
      /\ \A m \in scope : Inputs(circuit, m) \subseteq scope
  BY <1>3, Basics
<1>5. /\ n \in scope /\ Tail(bwd) \in Seq(scope)
      /\ \A x \in QueueOf(bwd) : x = n \/ x \in QueueOf(Tail(bwd))
  <2>1. bwd \in Seq(scope)
    BY <1>3 DEF FillInv
  <2> QED BY <1>0, <1>1, <2>1, QueueTail
<1>6. three["faulty"][site] # X
  BY <1>3 DEF FillInv, Axioms, Sides
<1>7. /\ Suits(three, forced)
      /\ Changed(three, forced) \subseteq scope
  <2>1. ASSUME NEW s \in Sides, NEW m \in DOMAIN Forced(s, n)
        PROVE  m \in scope /\ Forced(s, n)[m] = two[s][m]
    BY <1>3, <1>4, <1>5, <2>1, ForcedSuits
  <2> QED BY <2>1 DEF Suits, Changed
<1>8. /\ Agrees(t1) /\ Extends(three, t1)
      /\ \A s \in Sides, m \in Nets(circuit) : m \in DOMAIN Forced(s, n) => t1[s][m] # X
  BY <1>3, <1>4, <1>7, RequireSuits
<1>9. \A s \in Sides, m \in Nets(circuit) : t1[s][m] # X /\ three[s][m] = X => m \in Changed(three, forced)
  BY DEF Require, Changed
<1> HIDE DEF t1
<1>10. /\ Suits(t1, only) /\ Changed(three, only) \subseteq scope
       /\ \A s \in Sides : DOMAIN only[s] = S[s]
  <2>1. \A s \in Sides : S[s] \subseteq Candidates(s, n)
    OBVIOUS
  <2> HIDE DEF S
  <2> QED BY <1>3, <1>5, <2>1, ControllingSuits
<1>11. /\ Agrees(t) /\ Extends(t1, t)
       /\ \A s \in Sides, m \in Nets(circuit) : m \in S[s] => t[s][m] # X
  <2> HIDE DEF only, S
  <2> QED BY <1>4, <1>8, <1>10, RequireSuits
<1>12. \A s \in Sides, m \in Nets(circuit) : t[s][m] # X /\ three[s][m] = X =>
         m \in Changed(three, forced) \/ m \in Changed(three, only)
  <2> HIDE DEF only, S, forced
  <2>1. \A s \in Sides, m \in Nets(circuit) : t[s][m] # X /\ t1[s][m] = X => m \in DOMAIN only[s]
    BY DEF Require
  <2> QED BY <1>9, <2>1 DEF Changed
<1>13. t["faulty"][site] # X
  BY <1>4, <1>6, <1>8, <1>11 DEF Extends, Sides
<1> HIDE DEF t
<1>14. /\ Suits(t, w)
       /\ \A s \in Sides, m \in Nets(circuit) : m \in DOMAIN w[s] => Settled(t, s, m)
       /\ Changed(t, w) \subseteq scope
  <2>1. CASE Cardinality(Outputs(circuit, n)) >= 2
    BY <1>3, <1>5, <1>11, <1>13, <2>1, ForwardSuits
  <2>2. CASE ~ (Cardinality(Outputs(circuit, n)) >= 2)
    <3>1. \A s \in Sides : DOMAIN w[s] = {}
      BY <2>2
    <3> HIDE DEF w
    <3> QED BY <3>1 DEF Suits, Changed
  <2> QED BY <2>1, <2>2
<1> HIDE DEF w
<1>15. Agrees(three') /\ Extends(t, three')
  BY <1>1, <1>4, <1>11, <1>14, RequireSuits
<1>16. \A s \in Sides, m \in Nets(circuit) : three'[s][m] # X /\ t[s][m] = X => m \in DOMAIN w[s]
  BY <1>1 DEF Require
<1>17. Extends(three, three') /\ Extends(three, t)
  BY <1>8, <1>11, <1>15, ExtendsTransitive
<1>18. /\ first \in Seq(scope) /\ QueueOf(first) = Changed(three, forced)
       /\ second \in Seq(scope) /\ QueueOf(second) = Changed(three, only)
  <2> HIDE DEF forced, only
  <2>1. IsFiniteSet(Changed(three, forced)) /\ IsFiniteSet(Changed(three, only))
    BY <1>4, ChangedFinite
  <2>2. /\ first \in Seq(Changed(three, forced)) /\ QueueOf(first) = Changed(three, forced)
        /\ second \in Seq(Changed(three, only)) /\ QueueOf(second) = Changed(three, only)
    BY <1>2, <2>1, OrdersFacts
  <2> QED BY <1>7, <1>10, <2>2
<1> HIDE DEF forced, only
<1>19. /\ bwd' \in Seq(scope)
       /\ QueueOf(bwd') = QueueOf(Tail(bwd)) \union Changed(three, forced) \union Changed(three, only)
  <2>1. /\ Tail(bwd) \o first \in Seq(scope)
        /\ QueueOf(Tail(bwd) \o first) = QueueOf(Tail(bwd)) \union QueueOf(first)
    <3>1. \A r \in Seq(scope) : r \o first \in Seq(scope) /\ QueueOf(r \o first) = QueueOf(r) \union QueueOf(first)
      BY <1>18, QueueConcat
    <3> QED BY <1>5, <3>1
  <2>2. /\ (Tail(bwd) \o first) \o second \in Seq(scope)
        /\ QueueOf((Tail(bwd) \o first) \o second) = QueueOf(Tail(bwd) \o first) \union QueueOf(second)
    <3>1. \A r \in Seq(scope) : r \o second \in Seq(scope) /\ QueueOf(r \o second) = QueueOf(r) \union QueueOf(second)
      BY <1>18, QueueConcat
    <3> QED BY <2>1, <3>1
  <2> QED BY <1>2, <1>18, <2>1, <2>2
<1>20. fwd' \in Seq(scope)
  <2>1. fwd' \in Seq(Changed(t, w))
    BY <1>1, <1>4, ChangedFinite, OrdersFacts
  <2> QED BY <1>14, <2>1
<1>21. jus' \in Seq(scope) /\ QueueOf(jus) \subseteq QueueOf(jus')
       /\ ((\E s \in open : Cardinality(Candidates(s, n)) >= 2) => n \in QueueOf(jus'))
  <2>1. jus \in Seq(scope)
    BY <1>3 DEF FillInv
  <2>2. CASE \E s \in open : Cardinality(Candidates(s, n)) >= 2
    <3>1. jus' = Append(jus, n)
      BY <1>1, <2>2
    <3> QED BY <1>5, <2>1, <3>1, QueueAppend
  <2>3. CASE ~ \E s \in open : Cardinality(Candidates(s, n)) >= 2
    <3>1. jus' = jus
      BY <1>1, <2>3
    <3> QED BY <2>1, <2>3, <3>1
  <2> QED BY <2>2, <2>3
<1>22. ASSUME NEW s \in Sides, three[s][n] # X
       PROVE  Settled(three', s, n) \/ Awaited(s, n)'
  <2>1. n \in Nets(circuit) /\ circuit' = circuit
    BY <1>1, <1>4, <1>5 DEF circuit
  <2>2. SUFFICES ASSUME circuit.type[n] # "IN", ~ (s = "faulty" /\ n = site)
                 PROVE  Settled(three', s, n) \/ Awaited(s, n)'
    BY DEF Settled
  <2>3. three \in ThreeValues /\ t \in ThreeValues /\ three' \in ThreeValues
    BY <1>3, <1>11, <1>15 DEF Agrees
  <2>4. \A m \in Inputs(circuit, n) : m \in Nets(circuit)
    BY <1>4, <2>1, Edges
  <2>5. CASE circuit.type[n] \in Controllable => three[s][n] = Uncontrolled(circuit.type[n])
    <3>1. DOMAIN Forced(s, n) = Inputs(circuit, n)
      BY <1>3, <1>5, <1>22, <2>2, <2>5, ForcedSuits
    <3>2. \A m \in Inputs(circuit, n) : t1[s][m] # X
      BY <1>8, <2>4, <3>1
    <3>3. \A m \in Inputs(circuit, n) : t[s][m] # X
      BY <1>11, <2>4, <3>2 DEF Extends
    <3>4. Settled(t, s, n)
      BY <1>4, <1>11, <2>1, <3>3, SettledByInputs
    <3> QED BY <1>4, <1>15, <2>1, <2>3, <3>4, SettledStays
  <2>6. CASE circuit.type[n] \in Controllable /\ three[s][n] # Uncontrolled(circuit.type[n])
    <3>1. three[s][n] = 1 - Uncontrolled(circuit.type[n])
      BY <1>3, <1>5, <1>22, <2>1, <2>2, <2>6, GateInputs DEF Agrees
    <3>2. CASE Settled(three, s, n)
      BY <1>4, <1>17, <2>1, <2>3, <3>2, SettledStays
    <3>3. CASE ~ Settled(three, s, n)
      <4>1. Open(s, n) /\ Candidates(s, n) # {}
        BY <1>3, <1>5, <2>6, <3>1, <3>3, OpenGate
      <4>2. IsFiniteSet(Candidates(s, n))
        <5>1. Candidates(s, n) \subseteq Nets(circuit) /\ IsFiniteSet(Nets(circuit))
          BY <1>4, <2>4 DEF Candidates, WellFormed
        <5> QED BY <5>1, FS_Subset
      <4>3. CASE Cardinality(Candidates(s, n)) = 1
        <5>1. S[s] = Candidates(s, n)
          BY <4>1, <4>3
        <5>2. PICK m \in Candidates(s, n) : TRUE
          BY <4>1
        <5>3. m \in Inputs(circuit, n) /\ two[s][m] = 1 - NonControlling(circuit.type[n])
          BY <5>2 DEF Candidates
        <5>4. t[s][m] # X
          BY <1>11, <2>4, <5>1, <5>2, <5>3
        <5>5. Settled(t, s, n)
          BY <1>4, <1>11, <2>1, <2>6, <5>3, <5>4, SettledByInputs
        <5> QED BY <1>4, <1>15, <2>1, <2>3, <5>5, SettledStays
      <4>4. CASE Cardinality(Candidates(s, n)) >= 2
        <5>1. n \in QueueOf(jus')
          BY <1>21, <4>1, <4>4
        <5>2. three'[s][n] = three[s][n]
          BY <1>17, <1>22, <2>1 DEF Extends
        <5>3. n \in QueueOf(jus)'
          BY <5>1 DEF QueueOf
        <5> QED BY <2>1, <2>6, <3>1, <5>2, <5>3 DEF Awaited
      <4> QED BY <4>1, <4>2, <4>3, <4>4, OneOrMore
    <3> QED BY <3>2, <3>3
  <2> QED BY <2>5, <2>6
<1>23. ASSUME NEW s \in Sides, NEW m \in Nets(circuit), three'[s][m] # X
       PROVE  \/ Settled(three', s, m) \/ m \in QueueOf(bwd')
              \/ three[s][m] # X /\ m \notin levels \ levels' /\ m \notin QueueOf(bwd) \ QueueOf(bwd')
                 /\ (Awaited(s, m) => m \in QueueOf(jus'))
              \/ three[s][m] # X /\ Awaited(s, m)'
  <2>1. CASE three[s][m] = X /\ t[s][m] # X
    BY <1>12, <1>19, <2>1
  <2>2. CASE three[s][m] = X /\ t[s][m] = X
    <3>1. Settled(t, s, m)
      BY <1>14, <1>16, <1>23, <2>2
    <3> QED BY <1>4, <1>11, <1>15, <3>1, SettledStays DEF Agrees
  <2>3. CASE three[s][m] # X /\ m = n
    BY <1>22, <2>3
  <2>4. CASE three[s][m] # X /\ m # n
    <3>1. m \notin QueueOf(bwd) \ QueueOf(bwd')
      BY <1>5, <1>19, <2>4
    <3>2. m \notin levels \ levels' /\ (Awaited(s, m) => m \in QueueOf(jus'))
      BY <1>1, <1>21 DEF Awaited
    <3> QED BY <2>4, <3>1, <3>2
  <2> QED BY <2>1, <2>2, <2>3, <2>4
<1>24. \A s \in Sides, m \in levels' : three'[s][m] # X
  BY <1>1, <1>3, <1>4, <1>17 DEF FillInv, Extends
<1>25. /\ levels' \subseteq scope /\ (levels' # {} => site \in levels') /\ \A m \in levels' : Differs(m)
  BY <1>1, <1>3 DEF FillInv
<1> QED BY <1>1, <1>15, <1>17, <1>19, <1>20, <1>21, <1>23, <1>24, <1>25, FillStep

-----------------------------------------------------------------------------
(* Following the fault back *)

\* Each input has a place.
LEMMA PlaceFacts ==
  ASSUME WellFormed(circuit), NEW n \in Nets(circuit), NEW m \in Inputs(circuit, n)
  PROVE  Place(n, m) \in Nat
<1>1. PICK i \in DOMAIN circuit.in[n] : circuit.in[n][i] = m
  BY DEF Inputs
<1>2. Place(n, m) \in DOMAIN circuit.in[n]
  BY <1>1 DEF Place
<1>3. circuit.in[n] \in Seq(Nets(circuit))
  BY DEF WellFormed
<1> QED BY <1>2, <1>3

\* Some input in a set comes first.
LEMMA FirstPlaced ==
  ASSUME WellFormed(circuit), NEW n \in Nets(circuit), NEW S, S \subseteq Inputs(circuit, n), S # {}
  PROVE  \E m \in S : \A k \in S : Place(n, m) <= Place(n, k)
<1> DEFINE T == {Place(n, m) : m \in S}
<1>1. T \subseteq Nat /\ T # {}
  BY PlaceFacts
<1>2. PICK x \in T : \A y \in T : x <= y
  <2> HIDE DEF T
  <2> QED BY <1>1, LeastNumber
<1> QED BY <1>2

\* Some input in a set is the lowest.
LEMMA LowestIn ==
  ASSUME WellFormed(circuit), NEW n \in Nets(circuit), NEW S, S \subseteq Inputs(circuit, n), S # {}
  PROVE  Lowest(n, S) \in S
<1>1. S \subseteq Nets(circuit) /\ circuit.level \in [Nets(circuit) -> Nat]
  BY Edges DEF WellFormed
<1>2. PICK a \in S : \A k \in S : circuit.level[a] <= circuit.level[k]
  BY <1>1, LowestNet
<1> DEFINE T == {m \in S : circuit.level[m] = circuit.level[a]}
<1>3. T \subseteq Inputs(circuit, n) /\ T # {}
  OBVIOUS
<1>4. PICK m \in T : \A k \in T : Place(n, m) <= Place(n, k)
  <2> HIDE DEF T
  <2> QED BY <1>3, FirstPlaced
<1>5. \A k \in S : circuit.level[m] < circuit.level[k]
                   \/ (circuit.level[m] = circuit.level[k] /\ Place(n, m) <= Place(n, k))
  <2> SUFFICES ASSUME NEW k \in S
               PROVE  circuit.level[m] < circuit.level[k]
                      \/ (circuit.level[m] = circuit.level[k] /\ Place(n, m) <= Place(n, k))
    OBVIOUS
  <2>1. circuit.level[m] \in Nat /\ circuit.level[k] \in Nat /\ circuit.level[m] <= circuit.level[k]
    BY <1>1, <1>2
  <2>2. CASE circuit.level[m] = circuit.level[k]
    BY <1>4, <2>2
  <2>3. CASE circuit.level[m] # circuit.level[k]
    BY <2>1, <2>3
  <2> QED BY <2>2, <2>3
<1> QED BY <1>5 DEF Lowest

\* The path goes through one input where the values differ.
LEMMA PathInputDiffers ==
  ASSUME WellFormed(circuit), NEW n \in Nets(circuit), \E m \in Inputs(circuit, n) : Differs(m)
  PROVE  PathInput(n) \in Inputs(circuit, n) /\ Differs(PathInput(n))
<1> DEFINE carriers == {m \in Inputs(circuit, n) : Differs(m)}
           required == {m \in carriers : three["good"][m] # X}
<1>1. carriers \subseteq Inputs(circuit, n) /\ carriers # {} /\ required \subseteq carriers
  OBVIOUS
<1>2. CASE required # {}
  <2>1. PathInput(n) = CHOOSE m \in required : \A k \in required : Place(n, m) <= Place(n, k)
    BY <1>2 DEF PathInput
  <2>2. \E m \in required : \A k \in required : Place(n, m) <= Place(n, k)
    <3> HIDE DEF required, carriers
    <3>1. required \subseteq Inputs(circuit, n)
      BY <1>1
    <3> QED BY <1>2, <3>1, FirstPlaced
  <2>3. PathInput(n) \in required
    <3> HIDE DEF required
    <3> QED BY <2>1, <2>2
  <2> QED BY <2>3
<1>3. CASE required = {}
  <2>1. PathInput(n) = Lowest(n, carriers)
    BY <1>3 DEF PathInput
  <2>2. Lowest(n, carriers) \in carriers
    <3> HIDE DEF carriers
    <3> QED BY <1>1, LowestIn
  <2> QED BY <2>1, <2>2
<1> QED BY <1>2, <1>3

\* A net on the path: the fault passes through the inputs followed, the other
\* inputs get the model's values, and all that settles the net.
LEMMA PathFacts ==
  ASSUME SimulationInv, phase # "simulate", NEW n \in scope, Differs(n), n # site
  PROVE  /\ PathInputs(n) \subseteq Inputs(circuit, n)
         /\ \A m \in PathInputs(n) : Differs(m)
         /\ \A s \in Sides : \A m \in DOMAIN SideValues(s, n) :
              m \in Inputs(circuit, n) /\ SideValues(s, n)[m] = two[s][m]
         /\ \A s \in Sides :
              \/ Inputs(circuit, n) \subseteq PathInputs(n) \union DOMAIN SideValues(s, n)
              \/ /\ circuit.type[n] \in Controllable
                 /\ \E m \in PathInputs(n) : two[s][m] = 1 - NonControlling(circuit.type[n])
<1>1. /\ WellFormed(circuit) /\ TwoOK /\ n \in Nets(circuit)
  BY Basics
<1>2. circuit.type[n] # "IN" /\ \E m \in Inputs(circuit, n) : Differs(m)
  BY SimulationExact, DifferenceAboveSite
<1>3. circuit.type[n] \in Controllable \union {"EXOR", "EXNOR", "BUF", "FOUT", "INV"}
  BY <1>1, <1>2 DEF WellFormed, GateTypes
<1>4. \A m \in Inputs(circuit, n) : m \in Nets(circuit)
  BY <1>1, Edges
<1>5. \A s \in Sides : two[s][n] \in {0, 1} /\ \A m \in Inputs(circuit, n) : two[s][m] \in {0, 1}
  BY <1>1, <1>4 DEF TwoOK, Bits
<1>6. CASE circuit.type[n] \in Controllable
  <2> DEFINE type == circuit.type[n]
             p == PathInput(n)
             others == Inputs(circuit, n) \ {p}
  <2>1. PathInputs(n) = {p}
    BY <1>2, <1>6 DEF PathInputs, Controllable
  <2>2. p \in Inputs(circuit, n) /\ Differs(p)
    BY <1>1, <1>2, PathInputDiffers
  <2> HIDE DEF p
  <2>3. Uncontrolled(type) \in {0, 1} /\ NonControlling(type) \in {0, 1}
    BY UncontrolledBit DEF Bits
  <2>4. ASSUME NEW s \in Sides
        PROVE  SideValues(s, n) = IF two[s][n] = Uncontrolled(type)
                                  THEN [m \in others |-> NonControlling(type)] ELSE <<>>
    <3>1. SideValues(s, n) = IF (two["good"][n] # Uncontrolled(type) <=> s = "faulty")
                             THEN [m \in others |-> NonControlling(type)] ELSE <<>>
      BY <1>6, <2>1 DEF SideValues, Controllable
    <3>2. two["good"][n] \in {0, 1} /\ two["faulty"][n] \in {0, 1} /\ two["good"][n] # two["faulty"][n]
      BY <1>5 DEF Differs, Sides
    <3>3. (two["good"][n] # Uncontrolled(type) <=> s = "faulty") <=> two[s][n] = Uncontrolled(type)
      BY <2>3, <3>2 DEF Sides
    <3> QED BY <3>1, <3>3
  <2>5. ASSUME NEW s \in Sides, two[s][n] = Uncontrolled(type)
        PROVE  \A m \in Inputs(circuit, n) : two[s][m] = NonControlling(type)
    BY <1>6, <2>5, GateInputs
  <2>6. ASSUME NEW s \in Sides, two[s][n] # Uncontrolled(type)
        PROVE  two[s][p] = 1 - NonControlling(type)
    <3>1. PICK r \in Sides : r # s
      BY DEF Sides
    <3>2. two[r][n] # two[s][n] /\ two[r][p] # two[s][p]
      BY <2>2, <3>1 DEF Differs, Sides
    <3>3. two[r][n] = Uncontrolled(type)
      BY <1>5, <2>3, <2>6, <3>2
    <3>4. two[r][p] = NonControlling(type)
      BY <2>2, <2>5, <3>3
    <3> QED BY <1>5, <2>2, <2>3, <3>2, <3>4
  <2>7. \A s \in Sides : \A m \in DOMAIN SideValues(s, n) :
          m \in Inputs(circuit, n) /\ SideValues(s, n)[m] = two[s][m]
    BY <2>4, <2>5
  <2>8. ASSUME NEW s \in Sides
        PROVE  \/ Inputs(circuit, n) \subseteq PathInputs(n) \union DOMAIN SideValues(s, n)
               \/ \E m \in PathInputs(n) : two[s][m] = 1 - NonControlling(circuit.type[n])
    <3>1. CASE two[s][n] = Uncontrolled(type)
      <4>1. DOMAIN SideValues(s, n) = others
        BY <2>4, <3>1
      <4> QED BY <2>1, <4>1
    <3>2. CASE two[s][n] # Uncontrolled(type)
      BY <2>1, <2>6, <3>2
    <3> QED BY <3>1, <3>2
  <2> QED BY <1>6, <2>1, <2>2, <2>7, <2>8
<1>7. CASE circuit.type[n] \in {"EXOR", "EXNOR"}
  <2>1. PathInputs(n) = {m \in Inputs(circuit, n) : Differs(m)}
    BY <1>7 DEF PathInputs, Controllable
  <2>2. \A s \in Sides : SideValues(s, n) = [m \in Inputs(circuit, n) \ PathInputs(n) |-> two[s][m]]
    BY <1>7 DEF SideValues, Controllable
  <2> QED BY <2>1, <2>2
<1>8. CASE circuit.type[n] \in {"BUF", "FOUT", "INV"}
  <2>1. PathInputs(n) = Inputs(circuit, n)
    BY <1>8 DEF PathInputs, Controllable
  <2>2. \A s \in Sides : SideValues(s, n) = <<>>
    BY <1>8 DEF SideValues, Controllable
  <2>3. Inputs(circuit, n) = {circuit.in[n][1]}
    BY <1>1, <1>8, OneInput
  <2>4. \A m \in Inputs(circuit, n) : Differs(m)
    BY <1>2, <2>3
  <2> QED BY <2>1, <2>2, <2>4
<1> QED BY <1>3, <1>6, <1>7, <1>8

\* The required values that the path brings.
LEMMA FollowPathStep ==
  ASSUME XidInv, NEW n \in levels, FollowPath(n)
  PROVE  SimulationInv' /\ Agrees(three)' /\ FillInv'
<1> DEFINE P == PathInputs(n)
           w == [s \in Sides |-> SideValues(s, n)]
           t == Require(three, Both(P))
<1>1. /\ phase = "fill" /\ phase' = "fill" /\ fwd = <<>> /\ bwd = <<>> /\ n # site
      /\ three' = Require(t, w)
      /\ levels' = (levels \ {n}) \union OnPath(P)
      /\ bwd' \in Orders(Changed(three, w))
      /\ fwd' = WithOutputs(n)
      /\ UNCHANGED <<fault, two, computed, detecting, jus>>
  BY DEF FollowPath
<1>2. SimulationInv /\ Agrees(three) /\ FillInv /\ phase # "simulate"
  BY <1>1 DEF XidInv
<1>3. CaseOK /\ WellFormed(circuit) /\ TwoOK /\ site \in scope /\ scope \subseteq Nets(circuit)
      /\ \A m \in scope : Inputs(circuit, m) \subseteq scope
  BY <1>2, Basics
<1>4. /\ n \in scope /\ n \in Nets(circuit) /\ Differs(n)
      /\ \A s \in Sides : three[s][n] # X
  BY <1>2, <1>3 DEF FillInv
<1>5. /\ P \subseteq Inputs(circuit, n) /\ \A m \in P : Differs(m)
      /\ \A s \in Sides : \A m \in DOMAIN SideValues(s, n) :
           m \in Inputs(circuit, n) /\ SideValues(s, n)[m] = two[s][m]
      /\ \A s \in Sides :
           \/ Inputs(circuit, n) \subseteq P \union DOMAIN SideValues(s, n)
           \/ /\ circuit.type[n] \in Controllable
              /\ \E m \in P : two[s][m] = 1 - NonControlling(circuit.type[n])
  BY <1>1, <1>2, <1>4, PathFacts
<1> HIDE DEF P
<1>6. P \subseteq scope /\ \A m \in Inputs(circuit, n) : m \in scope /\ m \in Nets(circuit)
  BY <1>3, <1>4, <1>5
<1>7. /\ Suits(three, Both(P)) /\ Changed(three, Both(P)) \subseteq P
      /\ \A s \in Sides : DOMAIN Both(P)[s] = P
  BY <1>2, <1>6, BothSuits
<1>8. /\ Agrees(t) /\ Extends(three, t)
      /\ \A s \in Sides, m \in Nets(circuit) : m \in P => t[s][m] # X
      /\ \A s \in Sides, m \in Nets(circuit) : t[s][m] # X /\ three[s][m] = X => m \in OnPath(P)
  <2>1. /\ Agrees(t) /\ Extends(three, t)
        /\ \A s \in Sides, m \in Nets(circuit) :
             /\ m \in DOMAIN Both(P)[s] => t[s][m] # X
             /\ t[s][m] # X /\ m \notin Changed(three, Both(P)) => three[s][m] # X
    BY <1>2, <1>3, <1>7, RequireSuits
  <2> HIDE DEF t
  <2>2. \A s \in Sides, m \in Nets(circuit) : t[s][m] # X /\ three[s][m] = X => m \in P
    BY <1>7, <2>1
  <2> QED BY <1>7, <2>1, <2>2 DEF OnPath
<1> HIDE DEF t
<1>9. \A s \in Sides : w[s] = SideValues(s, n)
  OBVIOUS
<1> HIDE DEF w
<1>10. Suits(t, w) /\ Changed(three, w) \subseteq scope
  BY <1>5, <1>6, <1>9 DEF Suits, Changed
<1>11. /\ Agrees(three') /\ Extends(t, three')
       /\ \A s \in Sides, m \in Nets(circuit) : m \in DOMAIN w[s] => three'[s][m] # X
  BY <1>1, <1>3, <1>8, <1>10, RequireSuits
<1>12. Extends(three, three')
  BY <1>8, <1>11, ExtendsTransitive
<1>13. \A s \in Sides, m \in Nets(circuit) : three'[s][m] # X /\ three[s][m] = X =>
         m \in OnPath(P) \/ m \in Changed(three, w)
  <2>1. \A s \in Sides, m \in Nets(circuit) : three'[s][m] # X /\ t[s][m] = X => m \in DOMAIN w[s]
    BY <1>1 DEF Require
  <2> QED BY <1>8, <2>1 DEF Changed
<1>14. bwd' \in Seq(scope) /\ QueueOf(bwd') = Changed(three, w)
  <2>1. bwd' \in Seq(Changed(three, w)) /\ QueueOf(bwd') = Changed(three, w)
    BY <1>1, <1>3, ChangedFinite, OrdersFacts
  <2> QED BY <1>10, <2>1
<1>15. fwd' \in Seq(scope) /\ jus' \in Seq(scope)
  BY <1>1, <1>2, <1>4 DEF WithOutputs, FillInv
<1>16. OnPath(P) \subseteq P
  BY DEF OnPath
<1>17. levels' \subseteq scope /\ (levels' # {} => site \in levels')
  BY <1>1, <1>2, <1>6, <1>16 DEF FillInv
<1>18. \A s \in Sides, m \in Nets(circuit) : m \in P => three'[s][m] # X
  BY <1>8, <1>11 DEF Extends
<1>19. \A m \in levels' : Differs(m) /\ \A s \in Sides : three'[s][m] # X
  <2>1. \A m \in levels : m \in Nets(circuit) /\ Differs(m) /\ \A s \in Sides : three'[s][m] # X
    BY <1>2, <1>3, <1>12 DEF FillInv, Extends
  <2> QED BY <1>1, <1>3, <1>5, <1>6, <1>16, <1>18, <2>1
<1>20. ASSUME NEW s \in Sides PROVE Settled(three', s, n)
  <2>1. \A m \in Inputs(circuit, n) : m \in P \/ m \in DOMAIN w[s] => three'[s][m] # X
    BY <1>6, <1>11, <1>18
  <2>2. CASE Inputs(circuit, n) \subseteq P \union DOMAIN SideValues(s, n)
    <3>1. \A m \in Inputs(circuit, n) : three'[s][m] # X
      BY <1>9, <2>1, <2>2
    <3> QED BY <1>3, <1>4, <1>11, <3>1, SettledByInputs
  <2>3. CASE /\ circuit.type[n] \in Controllable
             /\ \E m \in P : two[s][m] = 1 - NonControlling(circuit.type[n])
    <3>1. \E m \in Inputs(circuit, n) : three'[s][m] # X /\ two[s][m] = 1 - NonControlling(circuit.type[n])
      BY <1>5, <2>1, <2>3
    <3> QED BY <1>3, <1>4, <1>11, <2>3, <3>1, SettledByInputs
  <2> QED BY <1>5, <2>2, <2>3
<1>21. ASSUME NEW s \in Sides, NEW m \in Nets(circuit), three'[s][m] # X
       PROVE  \/ Settled(three', s, m) \/ m \in levels' \/ m \in QueueOf(bwd')
              \/ three[s][m] # X /\ m \notin levels \ levels' /\ m \notin QueueOf(bwd) \ QueueOf(bwd')
                 /\ (Awaited(s, m) => m \in QueueOf(jus'))
  <2>1. CASE three[s][m] = X
    BY <1>1, <1>13, <1>14, <1>21, <2>1
  <2>2. CASE m = n
    BY <1>20, <2>2
  <2>3. CASE three[s][m] # X /\ m # n
    <3>1. QueueOf(bwd) = {}
      BY <1>1 DEF QueueOf
    <3>2. m \notin levels \ levels'
      BY <1>1, <2>3
    <3> QED BY <1>1, <2>3, <3>1, <3>2 DEF Awaited
  <2> QED BY <2>1, <2>2, <2>3
<1> QED BY <1>1, <1>11, <1>12, <1>14, <1>15, <1>17, <1>19, <1>21, FillStep

\* Only the site is left on the stack when it is reached.
LEMMA ReachSiteStep ==
  ASSUME XidInv, ReachSite
  PROVE  SimulationInv' /\ Agrees(three)' /\ FillInv'
<1>1. /\ phase = "fill" /\ phase' = "fill" /\ fwd = <<>> /\ bwd = <<>>
      /\ site \in LastEvent
      /\ levels' = {} /\ bwd' = <<site>> /\ fwd' = WithOutputs(site)
      /\ UNCHANGED <<fault, two, three, computed, detecting, jus>>
  BY DEF ReachSite
<1>2. SimulationInv /\ Agrees(three) /\ FillInv /\ phase # "simulate"
  BY <1>1 DEF XidInv
<1>3. WellFormed(circuit) /\ site \in scope /\ scope \subseteq Nets(circuit)
  BY <1>2, Basics
<1>4. ASSUME NEW n \in levels PROVE n = site
  <2>1. n \in scope /\ Differs(n) /\ circuit.level[n] <= circuit.level[site]
    BY <1>1, <1>2 DEF FillInv, LastEvent
  <2>2. n # site => circuit.level[site] < circuit.level[n]
    BY <1>2, <2>1, SimulationExact, DifferenceAboveSite
  <2>3. circuit.level[n] \in Nat /\ circuit.level[site] \in Nat
    BY <1>3, <2>1 DEF WellFormed
  <2> QED BY <2>1, <2>2, <2>3
<1>5. /\ fwd' \in Seq(scope) /\ bwd' \in Seq(scope) /\ jus' \in Seq(scope)
      /\ QueueOf(bwd') = {site} /\ QueueOf(bwd) = {}
  BY <1>1, <1>2, <1>3 DEF WithOutputs, FillInv, QueueOf
<1>6. Agrees(three') /\ Extends(three, three')
  BY <1>1, <1>2 DEF Extends
<1>7. ASSUME NEW s \in Sides, NEW m \in Nets(circuit), three'[s][m] # X
      PROVE  \/ m \in QueueOf(bwd')
             \/ three[s][m] # X /\ m \notin levels \ levels' /\ m \notin QueueOf(bwd) \ QueueOf(bwd')
                /\ (Awaited(s, m) => m \in QueueOf(jus'))
  BY <1>1, <1>4, <1>5, <1>7 DEF Awaited
<1> QED BY <1>1, <1>5, <1>6, <1>7, FillStep

-----------------------------------------------------------------------------
(* Limited justification *)

LEMMA JustifyStep ==
  ASSUME XidInv, Justify
  PROVE  SimulationInv' /\ Agrees(three)' /\ FillInv'
<1>0. PICK n : n = Head(jus)
  OBVIOUS
<1> DEFINE S == [s \in Sides |-> Chosen(s, n)]
           w == Controlling(n, S)
<1>1. /\ phase = "fill" /\ phase' = "fill" /\ fwd = <<>> /\ bwd = <<>> /\ levels = {} /\ jus # <<>>
      /\ three' = Require(three, w)
      /\ bwd' \in Orders(Changed(three, w))
      /\ jus' = Tail(jus)
      /\ UNCHANGED <<fault, two, computed, detecting, levels, fwd>>
  BY <1>0 DEF Justify
<1>2. SimulationInv /\ Agrees(three) /\ FillInv /\ phase # "simulate"
  BY <1>1 DEF XidInv
<1>3. CaseOK /\ WellFormed(circuit) /\ TwoOK /\ site \in scope /\ scope \subseteq Nets(circuit)
  BY <1>2, Basics
<1>4. /\ n \in scope /\ n \in Nets(circuit) /\ jus' \in Seq(scope)
      /\ \A x \in QueueOf(jus) : x = n \/ x \in QueueOf(jus')
  <2>1. jus \in Seq(scope)
    BY <1>2 DEF FillInv
  <2> QED BY <1>0, <1>1, <1>3, <2>1, QueueTail
<1>5. \A s \in Sides : Open(s, n) /\ Candidates(s, n) # {} => Lowest(n, Candidates(s, n)) \in Candidates(s, n)
  <2>1. \A s \in Sides : Candidates(s, n) \subseteq Inputs(circuit, n)
    BY DEF Candidates
  <2> QED BY <1>3, <1>4, <2>1, LowestIn
<1>6. \A s \in Sides : S[s] = Chosen(s, n) /\ S[s] \subseteq Candidates(s, n)
  BY <1>5 DEF Chosen
<1> HIDE DEF S
<1>7. /\ Suits(three, w) /\ Changed(three, w) \subseteq scope
      /\ \A s \in Sides : DOMAIN w[s] = S[s]
  BY <1>2, <1>4, <1>6, ControllingSuits
<1> HIDE DEF w
<1>8. /\ Agrees(three') /\ Extends(three, three')
      /\ \A s \in Sides, m \in Nets(circuit) :
           /\ m \in S[s] => three'[s][m] # X
           /\ three'[s][m] # X /\ m \notin Changed(three, w) => three[s][m] # X
  BY <1>1, <1>2, <1>3, <1>7, RequireSuits
<1>9. bwd' \in Seq(scope) /\ QueueOf(bwd') = Changed(three, w)
  <2>1. bwd' \in Seq(Changed(three, w)) /\ QueueOf(bwd') = Changed(three, w)
    BY <1>1, <1>3, ChangedFinite, OrdersFacts
  <2> QED BY <1>7, <2>1
<1>10. ASSUME NEW s \in Sides, Awaited(s, n) PROVE Settled(three', s, n)
  <2>1. circuit.type[n] \in Controllable /\ three[s][n] = 1 - Uncontrolled(circuit.type[n])
    BY <1>10 DEF Awaited
  <2>2. CASE Settled(three, s, n)
    BY <1>2, <1>3, <1>4, <1>8, <2>2, SettledStays DEF Agrees
  <2>3. CASE Open(s, n) /\ Candidates(s, n) # {}
    <3> DEFINE m == Lowest(n, Candidates(s, n))
    <3>1. m \in Candidates(s, n) /\ m \in S[s]
      BY <1>5, <1>6, <2>3 DEF Chosen
    <3> HIDE DEF m
    <3>2. m \in Inputs(circuit, n) /\ two[s][m] = 1 - NonControlling(circuit.type[n])
      BY <3>1 DEF Candidates
    <3>3. m \in Nets(circuit)
      BY <1>3, <1>4, <3>2, Edges
    <3>4. three'[s][m] # X
      BY <1>8, <3>1, <3>3
    <3> QED BY <1>3, <1>4, <1>8, <2>1, <3>2, <3>4, SettledByInputs
  <2> QED BY <1>2, <1>4, <2>1, <2>2, <2>3, OpenGate
<1>11. ASSUME NEW s \in Sides, NEW m \in Nets(circuit), three'[s][m] # X
       PROVE  \/ Settled(three', s, m) \/ m \in QueueOf(bwd')
              \/ three[s][m] # X /\ m \notin levels \ levels' /\ m \notin QueueOf(bwd) \ QueueOf(bwd')
                 /\ (Awaited(s, m) => m \in QueueOf(jus'))
  <2>1. QueueOf(bwd) = {}
    BY <1>1 DEF QueueOf
  <2>2. CASE three[s][m] = X
    BY <1>8, <1>9, <1>11, <2>2
  <2>3. CASE three[s][m] # X
    <3>1. CASE m = n /\ Awaited(s, m)
      BY <1>10, <3>1
    <3>2. CASE ~ (m = n /\ Awaited(s, m))
      <4>1. Awaited(s, m) => m \in QueueOf(jus')
        BY <1>4, <3>2 DEF Awaited
      <4> QED BY <1>1, <2>1, <2>3, <4>1
    <3> QED BY <3>1, <3>2
  <2> QED BY <2>2, <2>3
<1>12. levels' = {}
  BY <1>1
<1> QED BY <1>1, <1>4, <1>8, <1>9, <1>11, <1>12, FillStep, <1>2 DEF FillInv

-----------------------------------------------------------------------------
(* The cube *)

\* With every queue empty each required value is settled.
LEMMA AllSettled ==
  ASSUME FillInv, fwd = <<>>, bwd = <<>>, jus = <<>>, levels = {},
         NEW s \in Sides, NEW n \in Nets(circuit), three[s][n] # X
  PROVE  Settled(three, s, n)
<1>1. QueueOf(bwd) = {} /\ QueueOf(jus) = {}
  BY DEF QueueOf
<1> QED BY <1>1 DEF FillInv, Justified, Awaited

\* A simulation has every required value, if it has those of the inputs.
LEMMA RequiredFollows ==
  ASSUME SimulationInv, phase # "simulate", Agrees(three), NEW s \in Sides,
         \A n \in Nets(circuit) : three[s][n] # X => Settled(three, s, n),
         NEW v \in [Nets(circuit) -> Bits],
         \A n \in Nets(circuit) : circuit.type[n] # "IN" /\ ~ (s = "faulty" /\ n = site) => v[n] = Eval(circuit, v, n),
         \A n \in Nets(circuit) : three[s][n] # X /\ (circuit.type[n] = "IN" \/ (s = "faulty" /\ n = site))
                                 => v[n] = three[s][n]
  PROVE  \A n \in Nets(circuit) : three[s][n] # X => v[n] = three[s][n]
<1>1. CaseOK /\ WellFormed(circuit) /\ TwoOK /\ scope \subseteq Nets(circuit)
  BY Basics
<1> DEFINE S == {n \in Nets(circuit) : three[s][n] # X /\ v[n] # three[s][n]}
<1>2. SUFFICES ASSUME S # {} PROVE FALSE
  OBVIOUS
<1>3. S \subseteq Nets(circuit) /\ circuit.level \in [Nets(circuit) -> Nat]
  BY <1>1 DEF WellFormed
<1>4. PICK n \in S : \A m \in S : circuit.level[n] <= circuit.level[m]
  <2> HIDE DEF S
  <2> QED BY <1>2, <1>3, LowestNet
<1>5. /\ circuit.type[n] # "IN" /\ ~ (s = "faulty" /\ n = site) /\ n \in Nets(circuit) /\ three[s][n] # X
      /\ Implied(three, s, n) # X
  BY <1>4 DEF Settled
<1>6. ASSUME NEW m \in Inputs(circuit, n)
      PROVE  /\ m \in Nets(circuit) /\ v[m] \in Bits /\ two[s][m] \in Bits
             /\ three[s][m] # X => three[s][m] = v[m] /\ three[s][m] = two[s][m]
  <2>1. m \in Nets(circuit) /\ circuit.level[m] < circuit.level[n]
    BY <1>1, <1>5, Edges
  <2>2. circuit.level[m] \in Nat /\ circuit.level[n] \in Nat
    BY <1>3, <1>5, <2>1
  <2>3. m \notin S
    BY <1>4, <2>1, <2>2
  <2>4. v[m] \in Bits /\ two[s][m] \in Bits
    BY <1>1, <2>1 DEF TwoOK
  <2> QED BY <2>1, <2>3, <2>4 DEF Agrees
<1>7. Implied(three, s, n) = Eval(circuit, v, n)
  BY <1>1, <1>5, <1>6, ImpliedSound
<1>8. Implied(three, s, n) = Eval(circuit, two[s], n)
  BY <1>1, <1>5, <1>6, ImpliedSound
<1>9. v[n] = Eval(circuit, v, n)
  BY <1>5
<1>10. n \in scope /\ three[s][n] = two[s][n]
  BY <1>5 DEF Agrees
<1>11. two[s][n] = Eval(circuit, two[s], n)
  BY <1>5, <1>10, TwoEval
<1> QED BY <1>4, <1>7, <1>8, <1>9, <1>10, <1>11

\* What is required, in both circuits, makes a simulation a test.
LEMMA RequiredDetects ==
  ASSUME SimulationInv, phase # "simulate", Agrees(three), Axioms(three),
         NEW t \in fault.simulations,
         \A n \in Nets(circuit) : three["good"][n] # X => t.good[n] = three["good"][n],
         \A n \in Nets(circuit) : three["faulty"][n] # X => t.faulty[n] = three["faulty"][n]
  PROVE  IsTest(fault, t.good, t.faulty)
<1>1. CaseOK /\ WellFormed(circuit) /\ TwoOK /\ site \in scope /\ scope \subseteq Nets(circuit)
  BY Basics
<1>2. IsSimulation(fault, t.good, t.faulty)
  BY <1>1 DEF CaseOK
<1>3. /\ two["good"] = fault.model.good
      /\ fault.model.good[site] = 1 - fault.stuck
      /\ circuit.first[site] # None => fault.model.good[circuit.first[site]] = fault.stuck
  BY <1>1, ModelFacts DEF SimulationInv
<1>4. t.good[site] = 1 - fault.stuck
  <2>1. three["good"][site] # X /\ site \in Nets(circuit)
    BY <1>1 DEF Axioms, Sides
  <2> QED BY <1>3, <2>1 DEF Agrees, Sides
<1>5. ASSUME circuit.first[site] # None PROVE t.good[circuit.first[site]] = fault.stuck
  <2>1. circuit.first[site] \in Excitation(fault)
    BY <1>5 DEF Excitation, circuit, site
  <2>2. three["good"][circuit.first[site]] # X /\ circuit.first[site] \in Nets(circuit)
    BY <1>1, <2>1 DEF Axioms, CaseOK
  <2> QED BY <1>3, <1>5, <2>2 DEF Agrees, Sides
<1>6. \E o \in Observed(circuit) : t.faulty[o] # t.good[o]
  <2>1. detecting \in Observed(circuit) /\ detecting \in Nets(circuit) /\ Differs(detecting)
    BY <1>1, SimulationExact DEF SimulationInv
  <2>2. \A s \in Sides : three[s][detecting] # X /\ three[s][detecting] = two[s][detecting]
    BY <2>1 DEF Axioms, Agrees
  <2>3. t.good[detecting] = two["good"][detecting] /\ t.faulty[detecting] = two["faulty"][detecting]
    BY <2>1, <2>2 DEF Sides
  <2> QED BY <2>1, <2>3 DEF Differs
<1> QED BY <1>2, <1>4, <1>5, <1>6 DEF IsTest, circuit, site

LEMMA FinishStep ==
  ASSUME XidInv, Finish
  PROVE  SimulationInv' /\ Agrees(three)' /\ CubeDetects' /\ phase' = "done"
<1> DEFINE w == OnGood([n \in Correction |-> two["good"][n]])
<1>1. /\ phase = "fill" /\ phase' = "done"
      /\ fwd = <<>> /\ bwd = <<>> /\ jus = <<>> /\ levels = {}
      /\ three' = Require(three, w)
      /\ UNCHANGED <<fault, two, computed, detecting>>
  BY DEF Finish
<1>2. SimulationInv /\ Agrees(three) /\ FillInv /\ phase # "simulate"
  BY <1>1 DEF XidInv
<1>3. /\ CaseOK /\ WellFormed(circuit) /\ TwoOK /\ site \in scope /\ scope \subseteq Nets(circuit)
      /\ circuit' = circuit /\ site' = site /\ scope' = scope
  BY <1>1, <1>2, Basics DEF circuit, site, scope
<1>4. SimulationInv'
  BY <1>1, <1>2, SimulationStays
<1>5. Correction \subseteq scope
  BY <1>2 DEF Correction, Agrees, Sides
<1>6. Suits(three, w) /\ DOMAIN w["good"] = Correction
  <2>1. \A S \in SUBSET scope : Suits(three, OnGood([n \in S |-> two["good"][n]]))
                             /\ DOMAIN OnGood([n \in S |-> two["good"][n]])["good"] = S
    BY <1>2, BothSuits
  <2> QED BY <1>5, <2>1
<1> HIDE DEF w
<1>7. /\ Agrees(three') /\ Extends(three, three')
      /\ \A n \in Correction : three'["good"][n] # X
  <2>1. /\ Agrees(three') /\ Extends(three, three')
        /\ \A s \in Sides, n \in Nets(circuit) : n \in DOMAIN w[s] => three'[s][n] # X
    BY <1>1, <1>2, <1>3, <1>6, RequireSuits
  <2> QED BY <1>3, <1>5, <1>6, <2>1 DEF Sides
<1>8. Agrees(three)'
  BY <1>1, <1>3, <1>7 DEF Agrees, ThreeValues
<1> DEFINE ports == {n \in Nets(circuit) : circuit.type[n] = "IN"}
<1>9. /\ DOMAIN Cube' = ports
      /\ \A n \in ports : Cube'[n] = IF n \in scope THEN three'["good"][n] ELSE X
  <2>1. {circuit.pi[i] : i \in DOMAIN circuit.pi} = ports
    BY <1>3 DEF CaseOK
  <2> QED BY <1>3, <2>1 DEF Cube
<1>10. \A values : Matches(values)' <=> \A n \in ports : Cube'[n] \in {X, values[n]}
  BY <1>9 DEF Matches
<1>11. \A values : Matches(values)' => \A n \in ports : three'["good"][n] # X => values[n] = three'["good"][n]
  BY <1>7, <1>9, <1>10 DEF Agrees, Sides
<1>12. Matches(fault.model.good)'
  <2>1. \A n \in ports : three'["good"][n] \in {X, two["good"][n]}
    BY <1>7 DEF Agrees, Sides
  <2>2. \A n \in ports : Cube'[n] \in {X, fault.model.good[n]}
    BY <1>2, <1>9, <2>1 DEF SimulationInv
  <2> QED BY <1>1, <1>10, <2>2
<1>13. ASSUME NEW t \in fault.simulations, \A n \in ports : three'["good"][n] # X => t.good[n] = three'["good"][n]
       PROVE  IsTest(fault, t.good, t.faulty)
  <2>1. IsSimulation(fault, t.good, t.faulty)
    BY <1>3 DEF CaseOK
  <2>2. /\ t.good \in [Nets(circuit) -> Bits] /\ t.faulty \in [Nets(circuit) -> Bits]
        /\ \A n \in Nets(circuit) : circuit.type[n] # "IN" =>
             /\ t.good[n] = Eval(circuit, t.good, n)
             /\ n # site => t.faulty[n] = Eval(circuit, t.faulty, n)
        /\ \A n \in ports : n # site => t.faulty[n] = t.good[n]
        /\ t.faulty[site] = fault.stuck
    BY <2>1 DEF IsSimulation, IsValuation, circuit, site
  <2>3. \A s \in Sides, n \in Nets(circuit) : three[s][n] # X => Settled(three, s, n)
    BY <1>1, <1>2, AllSettled
  <2>4. \A n \in Nets(circuit) : three["good"][n] # X => t.good[n] = three["good"][n]
    <3>1. \A n \in Nets(circuit) : three["good"][n] # X /\ circuit.type[n] = "IN" => t.good[n] = three["good"][n]
      BY <1>7, <1>13 DEF Extends, Sides
    <3> QED BY <1>2, <2>2, <2>3, <3>1, RequiredFollows DEF Sides
  <2>5. ASSUME NEW n \in Nets(circuit), three["faulty"][n] # X, n = site \/ circuit.type[n] = "IN"
        PROVE  t.faulty[n] = three["faulty"][n]
    <3>1. three["faulty"][n] = two["faulty"][n]
      BY <1>2, <2>5 DEF Agrees, Sides
    <3>2. CASE n = site
      <4>1. two["faulty"][site] = 1 - (1 - fault.stuck) /\ fault.stuck \in {0, 1}
        BY <1>2, <1>3, ModelFacts DEF SimulationInv, CaseOK, Bits
      <4> QED BY <2>2, <3>1, <3>2, <4>1
    <3>3. CASE n # site
      <4>1. n \notin computed
        BY <1>2, <2>5, <3>3 DEF SimulationInv
      <4>2. n \in Correction /\ two["faulty"][n] = two["good"][n]
        BY <1>2, <2>5, <4>1 DEF Correction, SimulationInv, Differs
      <4>3. three'["good"][n] # X /\ three'["good"][n] = two["good"][n]
        BY <1>7, <4>2 DEF Agrees, Sides
      <4>4. n \in ports
        BY <2>5, <3>3
      <4>5. t.good[n] = two["good"][n]
        BY <1>13, <4>3, <4>4
      <4> QED BY <2>2, <3>1, <3>3, <4>2, <4>4, <4>5
    <3> QED BY <3>2, <3>3
  <2>6. \A n \in Nets(circuit) : three["faulty"][n] # X => t.faulty[n] = three["faulty"][n]
    BY <1>2, <2>2, <2>3, <2>5, RequiredFollows DEF Sides
  <2>7. Axioms(three)
    BY <1>2 DEF FillInv
  <2> QED BY <1>2, <2>4, <2>6, <2>7, RequiredDetects
<1>14. CubeDetects'
  <2>1. \A t \in fault.simulations : Matches(t.good)' => IsTest(fault, t.good, t.faulty)
    BY <1>11, <1>13
  <2> QED BY <1>1, <1>12, <2>1 DEF CubeDetects
<1> QED BY <1>1, <1>4, <1>8, <1>14

-----------------------------------------------------------------------------
(* The theorems *)

LEMMA InitXidInv ==
  ASSUME Init
  PROVE  XidInv
<1>1. SimulationInv
  BY SimulationInit
<1>2. /\ phase = "simulate" /\ fwd = <<>> /\ bwd = <<>> /\ jus = <<>>
      /\ three = [s \in Sides |-> [n \in Nets(circuit) |-> X]]
  BY DEF Init
<1>3. Blank /\ Agrees(three)
  BY <1>2 DEF Blank, Agrees, ThreeValues
<1> QED BY <1>1, <1>2, <1>3 DEF XidInv, CubeDetects

LEMMA SimulateXidInv ==
  ASSUME XidInv, NEW n \in levels, Simulate(n)
  PROVE  XidInv'
<1>1. SimulationInv'
  BY SimulationStep DEF XidInv
<1>2. phase = "simulate" /\ phase' = "simulate" /\ UNCHANGED <<fault, three, fwd, bwd, jus>>
  BY DEF Simulate
<1>3. circuit' = circuit
  BY <1>2 DEF circuit
<1>4. Blank' /\ fwd' = <<>> /\ bwd' = <<>> /\ jus' = <<>>
  BY <1>2, <1>3 DEF XidInv, Blank
<1>5. Agrees(three)'
  BY <1>2, <1>3, <1>4 DEF XidInv, Agrees, ThreeValues, Blank
<1> QED BY <1>1, <1>2, <1>4, <1>5 DEF XidInv, CubeDetects

LEMMA XidStep ==
  ASSUME XidInv, [Next]_vars
  PROVE  XidInv'
<1>1. ASSUME SimulationInv', Agrees(three)', FillInv', phase' = "fill" PROVE XidInv'
  BY <1>1 DEF XidInv, CubeDetects
<1>2. CASE \E n \in levels : Simulate(n)
  BY <1>2, SimulateXidInv
<1>3. CASE BeginFilling
  BY <1>1, <1>3, BeginFillingStep
<1>4. CASE ForwardImp
  <2>1. phase' = "fill"
    BY <1>4 DEF ForwardImp
  <2> QED BY <1>1, <1>4, <2>1, ForwardImpStep
<1>5. CASE BackwardImp
  <2>1. phase' = "fill"
    BY <1>5 DEF BackwardImp
  <2> QED BY <1>1, <1>5, <2>1, BackwardImpStep
<1>6. CASE \E n \in levels : FollowPath(n)
  <2>1. PICK n \in levels : FollowPath(n)
    BY <1>6
  <2>2. phase' = "fill"
    BY <2>1 DEF FollowPath
  <2> QED BY <1>1, <2>1, <2>2, FollowPathStep
<1>7. CASE ReachSite
  <2>1. phase' = "fill"
    BY <1>7 DEF ReachSite
  <2> QED BY <1>1, <1>7, <2>1, ReachSiteStep
<1>8. CASE Justify
  <2>1. phase' = "fill"
    BY <1>8 DEF Justify
  <2> QED BY <1>1, <1>8, <2>1, JustifyStep
<1>9. CASE Finish
  BY <1>9, FinishStep DEF XidInv
<1>10. CASE UNCHANGED vars
  <2>1. circuit' = circuit /\ site' = site /\ scope' = scope
    BY <1>10 DEF vars, circuit, site, scope
  <2>2. SimulationInv'
    BY <1>10, <2>1 DEF vars, XidInv, SimulationInv, TwoOK, Differs, Consistent
  <2>3. Agrees(three)'
    BY <1>10, <2>1 DEF vars, XidInv, Agrees, ThreeValues
  <2>4. FillInv' <=> FillInv
    <3>1. \A s, n : (Settled(three, s, n)' <=> Settled(three, s, n)) /\ (Awaited(s, n)' <=> Awaited(s, n))
                    /\ (Differs(n)' <=> Differs(n))
      BY <1>10, <2>1 DEF vars, Settled, Implied, Awaited, QueueOf, Differs
    <3>2. Justified' <=> Justified
      BY <1>10, <2>1, <3>1 DEF vars, Justified, QueueOf
    <3>3. Axioms(three)' <=> Axioms(three)
      BY <1>10, <2>1 DEF vars, Axioms, Excitation
    <3> QED BY <1>10, <2>1, <3>1, <3>2, <3>3 DEF vars, FillInv
  <2>5. Blank' <=> Blank
    BY <1>10, <2>1 DEF vars, Blank
  <2>6. CubeDetects' <=> CubeDetects
    BY <1>10, <2>1 DEF vars, CubeDetects, Matches, Cube
  <2> QED BY <1>10, <2>2, <2>3, <2>4, <2>5, <2>6 DEF vars, XidInv
<1> QED BY <1>2, <1>3, <1>4, <1>5, <1>6, <1>7, <1>8, <1>9, <1>10 DEF Next, Returned

LEMMA XidInvariant == Spec => []XidInv
<1>1. Init => XidInv
  BY InitXidInv
<1>2. XidInv /\ [Next]_vars => XidInv'
  BY XidStep
<1> QED BY <1>1, <1>2, PTL DEF Spec

\* The event-driven simulation (xid_fsim) ends with the values of the faulty
\* circuit and with a net where the fault shows: InlineXID never returns NULL.
THEOREM SimulationCorrect == Spec => []SimulationFindsDetection
<1>1. XidInv => SimulationFindsDetection
  <2> SUFFICES ASSUME XidInv, phase # "simulate" PROVE SimulationFindsDetection
    BY DEF SimulationFindsDetection
  <2>1. SimulationInv /\ phase # "failed"
    BY DEF XidInv
  <2>2. /\ \A n \in scope : two["faulty"][n] = fault.model.faulty[n]
        /\ detecting # None
    BY <2>1, SimulationExact
  <2>3. Differs(detecting)
    BY <2>1, <2>2 DEF SimulationInv
  <2> QED BY <2>1, <2>2, <2>3 DEF SimulationFindsDetection
<1> QED BY <1>1, XidInvariant, PTL

\* No step of the filling requires a value that the solver's model does not
\* have: two demands never contradict each other.
THEOREM RequiredCorrect == Spec => []RequiredAgreesWithModel
<1>1. XidInv => RequiredAgreesWithModel
  BY DEF XidInv, Agrees, RequiredAgreesWithModel
<1> QED BY <1>1, XidInvariant, PTL

\* InlineXID keeps its contract with the enumeration of cubes on every circuit:
\* the cube contains the model, and each pattern in it detects the fault.
THEOREM CubeCorrect == Spec => []CubeDetects
<1>1. XidInv => CubeDetects
  BY DEF XidInv
<1> QED BY <1>1, XidInvariant, PTL
=============================================================================
