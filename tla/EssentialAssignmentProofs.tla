---------------------- MODULE EssentialAssignmentProofs ----------------------
(***************************************************************************)
(* Essential assignment is sound on every circuit: EssentialHolds.         *)
(***************************************************************************)
EXTENDS EssentialAssignment, CircuitProofs

-----------------------------------------------------------------------------
(* Tests *)

\* The nets a test makes differ.
Differ(f, t) == {n \in Nets(f.circuit) : t.faulty[n] # t.good[n]}

\* A fault of a well-formed circuit and one of its tests.
FaultWithTest(f, t) ==
  /\ WellFormed(f.circuit)
  /\ f.site \in Nets(f.circuit)
  /\ f.stuck \in Bits
  /\ IsTest(f, t.good, t.faulty)

\* A difference is at the site or comes in through an input.
LEMMA DifferenceHasCause ==
  ASSUME NEW f, NEW t, FaultWithTest(f, t), NEW n \in Differ(f, t), n # f.site
  PROVE  /\ f.circuit.type[n] # "IN"
         /\ \E m \in Inputs(f.circuit, n) :
              /\ m \in Differ(f, t)
              /\ n \in Outputs(f.circuit, m)
              /\ f.circuit.level[m] < f.circuit.level[n]
<1> DEFINE c == f.circuit
<1>1. WellFormed(c) /\ IsTest(f, t.good, t.faulty)
  BY DEF FaultWithTest
<1>2. n \in Nets(c) /\ t.faulty[n] # t.good[n]
  BY DEF Differ
<1>3. c.type[n] # "IN"
  BY <1>1, <1>2 DEF IsTest, IsSimulation
<1>4. t.good[n] = Eval(c, t.good, n) /\ t.faulty[n] = Eval(c, t.faulty, n)
  BY <1>1, <1>2, <1>3 DEF IsTest, IsSimulation, IsValuation
<1>5. PICK m \in Inputs(c, n) : t.faulty[m] # t.good[m]
  <2> HIDE DEF c
  <2> QED BY <1>1, <1>2, <1>3, <1>4, EvalDepends
<1>6. m \in Nets(c)
  <2>1. c.in[n] \in Seq(Nets(c))
    BY <1>1, <1>2 DEF WellFormed
  <2> QED BY <2>1 DEF Inputs
<1>7. n \in Outputs(c, m) /\ c.level[m] < c.level[n]
  BY <1>1, <1>2, <1>6 DEF WellFormed
<1> QED BY <1>3, <1>5, <1>6, <1>7 DEF Differ

\* Some difference arrives at a net that leads nowhere.  An input that both
\* frames share is observed too, but a fault there is never excited.
LEMMA DifferenceArrives ==
  ASSUME NEW f, NEW t, FaultWithTest(f, t)
  PROVE  \E o \in Differ(f, t) : Outputs(f.circuit, o) = {}
<1> DEFINE c == f.circuit
<1>1. WellFormed(c) /\ IsTest(f, t.good, t.faulty)
  BY DEF FaultWithTest
<1>2. PICK o \in Observed(c) : t.faulty[o] # t.good[o]
  BY <1>1 DEF IsTest, IsSimulation
<1>3. o \in Nets(c)
  BY <1>1, <1>2 DEF WellFormed
<1>4. ASSUME Outputs(c, o) # {} PROVE FALSE
  <2>1. c.type[o] = "IN" /\ c.first[o] = o
    BY <1>1, <1>2, <1>4 DEF WellFormed, Shared
  <2>2. o = f.site
    BY <1>1, <1>2, <1>3, <2>1 DEF IsTest, IsSimulation
  <2>3. o # None
    BY <1>1, <1>3 DEF WellFormed, None
  <2>4. t.good[o] = f.stuck /\ t.good[o] = 1 - f.stuck
    BY <1>1, <2>1, <2>2, <2>3 DEF IsTest, IsSimulation
  <2> QED BY <2>4 DEF FaultWithTest, Bits
<1> QED BY <1>2, <1>3, <1>4 DEF Differ

\* While the walk has seen no end, the lowest differing net outside what it has
\* visited is on its frontier.
LEMMA LowestIsOnFrontier ==
  ASSUME NEW f, NEW t, FaultWithTest(f, t),
         NEW F, NEW V,
         f.site \in F \union V,
         \A n \in V : Outputs(f.circuit, n) # {} /\ Outputs(f.circuit, n) \subseteq F \union V
  PROVE  \E n \in Differ(f, t) \ V :
           n \in F /\ \A m \in Differ(f, t) \ V : f.circuit.level[n] <= f.circuit.level[m]
<1> DEFINE c == f.circuit
           D == Differ(f, t) \ V
<1>1. D # {} /\ D \subseteq Nets(c)
  BY DifferenceArrives DEF Differ
<1>2. WellFormed(c) /\ c.level \in [Nets(c) -> Nat]
  BY DEF FaultWithTest, WellFormed
<1>3. PICK n \in D : \A m \in D : c.level[n] <= c.level[m]
  <2> HIDE DEF c, D
  <2> QED BY <1>1, <1>2, LowestNet
<1>4. CASE n = f.site
  BY <1>3, <1>4
<1>5. CASE n # f.site
  <2>1. PICK m \in Inputs(c, n) : m \in Differ(f, t) /\ n \in Outputs(c, m) /\ c.level[m] < c.level[n]
    BY <1>3, <1>5, DifferenceHasCause
  <2>2. m \in V
    <3>1. c.level[m] \in Nat /\ c.level[n] \in Nat
      BY <1>1, <1>2, <1>3, <2>1 DEF Differ
    <3> QED BY <1>3, <2>1, <3>1
  <2>3. n \in F
    BY <1>3, <2>1, <2>2
  <2> QED BY <1>3, <2>3
<1> QED BY <1>4, <1>5

\* A gate that is the whole frontier passes the difference on, so that its
\* inputs outside the walk have the non-controlling value.
LEMMA SideInputsMustNotControl ==
  ASSUME NEW f, NEW t, FaultWithTest(f, t),
         NEW g \in Nets(f.circuit), NEW V,
         g # f.site, f.site \in V, g \notin V,
         f.circuit.type[g] \in Controllable,
         \A n \in V : Outputs(f.circuit, n) # {} /\ Outputs(f.circuit, n) \subseteq {g} \union V,
         NEW s \in Inputs(f.circuit, g), s \notin V
  PROVE  t.good[s] = NonControlling(f.circuit.type[g])
<1> DEFINE c == f.circuit
<1>1. PICK n \in Differ(f, t) \ V :
        n \in {g} /\ \A m \in Differ(f, t) \ V : c.level[n] <= c.level[m]
  BY LowestIsOnFrontier
<1>2. g \in Differ(f, t) /\ \A m \in Differ(f, t) \ V : c.level[g] <= c.level[m]
  BY <1>1
<1>3. WellFormed(c) /\ IsTest(f, t.good, t.faulty)
  BY DEF FaultWithTest
<1>4. s \in Nets(c)
  <2>1. c.in[g] \in Seq(Nets(c))
    BY <1>3 DEF WellFormed
  <2> QED BY <2>1 DEF Inputs
<1>5. s \notin Differ(f, t)
  <2>1. c.level[s] < c.level[g] /\ c.level[s] \in Nat /\ c.level[g] \in Nat
    BY <1>3, <1>4 DEF WellFormed
  <2> QED BY <1>2, <2>1
<1>6. t.faulty[s] = t.good[s]
  BY <1>4, <1>5 DEF Differ
<1>7. c.type[g] # "IN"
  BY DEF Controllable
<1>8. t.good[g] = Eval(c, t.good, g) /\ t.faulty[g] = Eval(c, t.faulty, g)
  BY <1>3, <1>7 DEF IsTest, IsSimulation, IsValuation
<1>9. Eval(c, t.good, g) # Eval(c, t.faulty, g)
  BY <1>2, <1>8 DEF Differ
<1> HIDE DEF c
<1> QED BY <1>6, <1>9, NonControllingWhereEqual DEF c

-----------------------------------------------------------------------------
(* Assigned values *)

\* An assignment of values to the nets that agrees with every test.
Sound(v) ==
  /\ v \in [Nets(circuit) -> Bits \union {None}]
  /\ \A t \in fault.tests : \A n \in Nets(circuit) : v[n] \in {None, t.good[n]}

\* Good values are bits.
LEMMA GoodIsValuation ==
  ASSUME fault \in Cases, NEW t \in fault.tests
  PROVE  /\ FaultWithTest(fault, t)
         /\ t.good \in [Nets(circuit) -> Bits]
         /\ \A n \in Nets(circuit) : circuit.type[n] # "IN" => t.good[n] = Eval(circuit, t.good, n)
<1>1. FaultWithTest(fault, t)
  BY CasesAssumption DEF FaultWithTest
<1>2. IsTest(fault, t.good, t.faulty)
  BY <1>1 DEF FaultWithTest
<1>3. IsValuation(circuit, t.good, {})
  BY <1>2 DEF IsTest, IsSimulation, circuit
<1> QED BY <1>1, <1>3 DEF IsValuation

\* Edges stay inside the circuit.
LEMMA EdgesAreNets ==
  ASSUME NEW c, WellFormed(c), NEW n \in Nets(c)
  PROVE  /\ Inputs(c, n) \subseteq Nets(c)
         /\ Outputs(c, n) \subseteq Nets(c)
<1>1. c.in[n] \in Seq(Nets(c)) /\ c.out[n] \in Seq(Nets(c))
  BY DEF WellFormed
<1> QED BY <1>1 DEF Inputs, Outputs

\* Assigning values that every test has keeps an assignment sound.
LEMMA AssignKeepsSound ==
  ASSUME NEW v, Sound(v), NEW w,
         \A n \in DOMAIN w \intersect Nets(circuit) :
           /\ w[n] \in Bits \union {None}
           /\ \A t \in fault.tests : w[n] \in {None, t.good[n]}
  PROVE  Sound(Assign(v, w))
BY DEF Sound, Assign

\* What back_implication assigns, every test has.
LEMMA BackwardIsSound ==
  ASSUME fault \in Cases, NEW v, Sound(v), NEW t \in Nets(circuit), v[t] # None
  PROVE  Sound(Backward(v, t))
<1> DEFINE w == [n \in Inputs(circuit, t) |-> BackImplied(v, t)]
<1>1. WellFormed(circuit)
  BY CasesAssumption DEF circuit
<1>2. v[t] \in Bits
  BY DEF Sound
<1>3. BackImplied(v, t) \in Bits \union {None}
  BY <1>2, UncontrolledBit DEF BackImplied, Bits
<1>4. ASSUME NEW n \in Inputs(circuit, t), NEW u \in fault.tests
      PROVE  BackImplied(v, t) \in {None, u.good[n]}
  <2>1. u.good[t] = v[t]
    BY DEF Sound
  <2>2. circuit.type[t] # "IN"
    <3>1. circuit.in[t] # <<>>
      BY DEF Inputs
    <3> QED BY <1>1, <3>1 DEF WellFormed
  <2>3. v[t] = Eval(circuit, u.good, t)
    BY <2>1, <2>2, GoodIsValuation
  <2>4. u.good[n] \in Bits
    BY <1>1, EdgesAreNets, GoodIsValuation
  <2>5. CASE circuit.type[t] \in Controllable
    <3> DEFINE nc == NonControlling(circuit.type[t])
               un == Uncontrolled(circuit.type[t])
    <3>1. un \in {0, 1}
      BY UncontrolledBit DEF Bits
    <3>2. CASE v[t] = un
      <4>1. BackImplied(v, t) = nc
        BY <2>5, <3>2 DEF BackImplied, Controllable
      <4>2. u.good[n] # nc => u.good[t] = 1 - un
        BY <2>1, <2>3, <2>5 DEF Eval, Controllable
      <4> QED BY <2>1, <3>1, <3>2, <4>1, <4>2
    <3>3. CASE v[t] # un
      BY <2>5, <3>3 DEF BackImplied, Controllable
    <3> QED BY <3>2, <3>3
  <2>6. CASE circuit.type[t] \in {"INV", "BUF", "FOUT"}
    <3>1. n = circuit.in[t][1]
      BY <1>1, <2>6, OneInput
    <3>2. CASE circuit.type[t] = "INV"
      <4>1. BackImplied(v, t) = 1 - v[t]
        BY <3>2 DEF BackImplied, Controllable
      <4>2. v[t] = 1 - u.good[n]
        BY <2>3, <3>1, <3>2 DEF Eval, Controllable
      <4> QED BY <2>4, <4>1, <4>2 DEF Bits
    <3>3. CASE circuit.type[t] \in {"BUF", "FOUT"}
      <4>1. BackImplied(v, t) = v[t]
        BY <3>3 DEF BackImplied, Controllable
      <4>2. v[t] = u.good[n]
        BY <2>3, <3>1, <3>3 DEF Eval, Controllable
      <4> QED BY <4>1, <4>2
    <3> QED BY <2>6, <3>2, <3>3
  <2>7. CASE circuit.type[t] \notin Controllable \union {"INV", "BUF", "FOUT"}
    BY <2>7 DEF BackImplied
  <2> QED BY <2>5, <2>6, <2>7
<1>5. Sound(Assign(v, w))
  BY <1>3, <1>4, AssignKeepsSound
<1> QED BY <1>5 DEF Backward

\* What forward_implication assigns, every test has.
LEMMA ForwardIsSound ==
  ASSUME fault \in Cases, NEW v, Sound(v), NEW t \in Nets(circuit)
  PROVE  Sound(Forward(v, t))
<1> DEFINE w == [n \in Outputs(circuit, t) |-> Implied(v, n)]
<1>1. WellFormed(circuit)
  BY CasesAssumption DEF circuit
<1>2. ASSUME NEW n \in Outputs(circuit, t), n \in Nets(circuit)
      PROVE  /\ Implied(v, n) \in Bits \union {None}
             /\ \A u \in fault.tests : Implied(v, n) \in {None, u.good[n]}
  <2>1. t \in Inputs(circuit, n)
    BY <1>1, <1>2 DEF WellFormed
  <2>2. circuit.type[n] # "IN"
    <3>1. circuit.in[n] # <<>>
      BY <2>1 DEF Inputs
    <3> QED BY <1>1, <1>2, <3>1 DEF WellFormed
  <2>3. circuit.in[n][1] \in Nets(circuit) /\ Inputs(circuit, n) \subseteq Nets(circuit)
    BY <1>1, <1>2, <2>2, FirstInput, EdgesAreNets
  <2>4. v[circuit.in[n][1]] \in Bits \union {None}
    BY <2>3 DEF Sound
  <2>5. Implied(v, n) \in Bits \union {None}
    BY <2>4, UncontrolledBit DEF Implied, Bits
  <2>6. ASSUME NEW u \in fault.tests PROVE Implied(v, n) \in {None, u.good[n]}
    <3>1. u.good[n] = Eval(circuit, u.good, n)
      BY <1>2, <2>2, GoodIsValuation
    <3>2. \A m \in Inputs(circuit, n) : u.good[m] \in Bits /\ v[m] \in {None, u.good[m]}
      BY <2>3, GoodIsValuation DEF Sound
    <3>3. circuit.in[n][1] \in Inputs(circuit, n)
      BY <1>1, <1>2, <2>2, FirstInput
    <3>4. CASE circuit.type[n] \in Controllable
      <4> DEFINE nc == NonControlling(circuit.type[n])
                 un == Uncontrolled(circuit.type[n])
                 someIn == \E m \in Inputs(circuit, n) : v[m] = 1 - nc
                 allIn == \A m \in Inputs(circuit, n) : v[m] = nc
      <4>1. nc \in {0, 1}
        BY UncontrolledBit DEF Bits
      <4>2. /\ (\A m \in Inputs(circuit, n) : u.good[m] = nc) => u.good[n] = un
            /\ (\E m \in Inputs(circuit, n) : u.good[m] # nc) => u.good[n] = 1 - un
        BY <3>1, <3>4 DEF Eval, Controllable
      <4>3. CASE someIn
        <5>1. PICK m \in Inputs(circuit, n) : v[m] = 1 - nc
          BY <4>3
        <5>2. u.good[m] # nc
          BY <3>2, <4>1, <5>1 DEF None
        <5>3. u.good[n] = 1 - un
          BY <4>2, <5>2
        <5>4. v[m] # nc
          BY <4>1, <5>1
        <5>5. Implied(v, n) = 1 - un
          BY <3>4, <4>3, <5>4 DEF Implied, Controllable
        <5> QED BY <5>3, <5>5
      <4>4. CASE ~someIn /\ allIn
        <5>1. \A m \in Inputs(circuit, n) : u.good[m] = nc
          BY <3>2, <4>1, <4>4 DEF None
        <5>2. u.good[n] = un
          BY <4>2, <5>1
        <5>3. Implied(v, n) = un
          BY <3>4, <4>4 DEF Implied, Controllable
        <5> QED BY <5>2, <5>3
      <4>5. CASE ~someIn /\ ~allIn
        <5>1. Implied(v, n) = None
          BY <3>4, <4>5 DEF Implied, Controllable
        <5> QED BY <5>1
      <4> QED BY <4>3, <4>4, <4>5
    <3>5. CASE circuit.type[n] \notin Controllable
      BY <3>1, <3>2, <3>3, <3>5 DEF Implied, Eval, Controllable, None, Bits
    <3> QED BY <3>4, <3>5
  <2> QED BY <2>5, <2>6
<1>3. Sound(Assign(v, w))
  BY <1>2, AssignKeepsSound
<1> QED BY <1>3 DEF Forward

-----------------------------------------------------------------------------
(* The inductive invariant *)

\* The walk: nothing is visited twice, everything behind what has been visited
\* is reached, and no end was seen unless the flag says so.
WalkOK ==
  /\ frontier \intersect visited = {}
  /\ site \in visited \/ (frontier = {site} /\ visited = {})
  /\ \A n \in visited : Outputs(circuit, n) \subseteq Reached
  /\ ~endSeen => \A n \in visited : Outputs(circuit, n) # {}

Inv ==
  /\ fault \in Cases
  /\ TypeOK
  /\ \A n \in pending : value[n] # None
  /\ WalkOK
  /\ EssentialHolds

LEMMA InitInv == Init => Inv
<1> SUFFICES ASSUME Init PROVE Inv
  OBVIOUS
<1>1. fault \in Cases /\ site \in Nets(circuit)
  BY CasesAssumption DEF Init, site, circuit
<1>2. value = [n \in Nets(circuit) |-> None]
  BY DEF Init
<1>3. TypeOK
  BY <1>1, <1>2 DEF Init, TypeOK
<1>4. EssentialHolds
  BY <1>2 DEF EssentialHolds
<1> QED BY <1>1, <1>3, <1>4 DEF Init, Inv, WalkOK

\* The values forced at a gate that is the whole frontier are those of every test.
LEMMA ForcedIsSound ==
  ASSUME Inv, NEW t \in frontier
  PROVE  \A n \in DOMAIN Forced(t) :
           /\ n \in Nets(circuit)
           /\ Forced(t)[n] \in Bits
           /\ \A u \in fault.tests : Forced(t)[n] = u.good[n]
<1> SUFFICES ASSUME NEW n \in DOMAIN Forced(t)
             PROVE  /\ n \in Nets(circuit)
                    /\ Forced(t)[n] \in Bits
                    /\ \A u \in fault.tests : Forced(t)[n] = u.good[n]
  OBVIOUS
<1>1. n \in SideInputs(t) /\ OnlyWay(t) /\ Forced(t)[n] = NonControlling(circuit.type[t])
  BY DEF Forced
<1>2. /\ n \in Inputs(circuit, t) /\ n \notin Reached
      /\ circuit.type[t] \in Controllable
      /\ visited # {}
  BY <1>1 DEF SideInputs
<1>3. frontier = {t} /\ ~endSeen
  BY <1>1 DEF OnlyWay
<1>4. site \in visited /\ t \notin visited /\ t # site
  BY <1>2 DEF Inv, WalkOK
<1>5. t \in Nets(circuit)
  BY DEF Inv, TypeOK
<1>6. \A m \in visited : Outputs(circuit, m) # {} /\ Outputs(circuit, m) \subseteq {t} \union visited
  BY <1>3 DEF Inv, WalkOK, Reached
<1>7. WellFormed(circuit)
  BY CasesAssumption DEF Inv, circuit
<1>8. n \in Nets(circuit)
  BY <1>2, <1>5, <1>7, EdgesAreNets
<1>9. ASSUME NEW u \in fault.tests PROVE Forced(t)[n] = u.good[n]
  <2>1. FaultWithTest(fault, u)
    BY GoodIsValuation DEF Inv
  <2>2. n \notin visited
    BY <1>2 DEF Reached
  <2>3. u.good[n] = NonControlling(circuit.type[t])
    BY <1>2, <1>4, <1>5, <1>6, <2>1, <2>2, SideInputsMustNotControl DEF circuit, site
  <2> QED BY <1>1, <2>3
<1> QED BY <1>1, <1>8, <1>9, UncontrolledBit

\* A step that keeps the fault and makes a sound assignment keeps EssentialHolds.
LEMMA SoundGivesEssential ==
  ASSUME fault' = fault, NEW v, Sound(v), value' = v
  PROVE  EssentialHolds' /\ (value \in [Nets(circuit) -> Bits \union {None}])'
BY DEF Sound, EssentialHolds, circuit

LEMMA InvIsSound == Inv => Sound(value)
BY DEF Inv, TypeOK, EssentialHolds, Sound

LEMMA VisitKeepsInv ==
  ASSUME Inv, NEW t \in Nets(circuit), Visit(t)
  PROVE  Inv'
<1>1. fault' = fault /\ circuit' = circuit /\ site' = site /\ phase' = phase
  BY DEF Visit, circuit, site
<1>2. t \in frontier /\ value' = Assign(value, Forced(t)) /\ pending' = pending \union DOMAIN Forced(t)
      /\ visited' = visited \union {t}
      /\ frontier' = (frontier \ {t}) \union (Outputs(circuit, t) \ Reached)
      /\ endSeen' = (endSeen \/ Outputs(circuit, t) = {})
  BY DEF Visit
<1>3. \A n \in DOMAIN Forced(t) : n \in Nets(circuit) /\ Forced(t)[n] \in Bits
        /\ \A u \in fault.tests : Forced(t)[n] = u.good[n]
  BY <1>2, ForcedIsSound
<1>4. Sound(Assign(value, Forced(t)))
  BY <1>3, InvIsSound, AssignKeepsSound
<1>5. EssentialHolds' /\ (value \in [Nets(circuit) -> Bits \union {None}])'
  BY <1>1, <1>2, <1>4, SoundGivesEssential
<1>6. Outputs(circuit, t) \subseteq Nets(circuit)
  BY CasesAssumption, EdgesAreNets DEF Inv, circuit
<1>7. TypeOK'
  <2>1. pending' \subseteq Nets(circuit)
    BY <1>2, <1>3 DEF Inv, TypeOK
  <2>2. frontier' \subseteq Nets(circuit) /\ visited' \subseteq Nets(circuit)
    BY <1>2, <1>6 DEF Inv, TypeOK
  <2> QED BY <1>1, <1>2, <1>5, <2>1, <2>2 DEF Inv, TypeOK
<1>8. \A n \in pending' : value'[n] # None
  <2> SUFFICES ASSUME NEW n \in pending' PROVE value'[n] # None
    OBVIOUS
  <2>1. value \in [Nets(circuit) -> Bits \union {None}] /\ n \in Nets(circuit)
    BY <1>1, <1>7 DEF Inv, TypeOK
  <2>2. value'[n] = IF value[n] = None /\ n \in DOMAIN Forced(t) THEN Forced(t)[n] ELSE value[n]
    BY <1>2, <2>1 DEF Assign
  <2>3. n \in pending => value[n] # None
    BY DEF Inv
  <2>4. n \in DOMAIN Forced(t) => Forced(t)[n] # None
    BY <1>3 DEF Bits, None
  <2> QED BY <1>2, <2>2, <2>3, <2>4
<1>9. WalkOK'
  <2>1. frontier' \intersect visited' = {}
    BY <1>2 DEF Inv, WalkOK, Reached
  <2>2. site' \in visited'
    BY <1>1, <1>2 DEF Inv, WalkOK
  <2>3. Reached \union Outputs(circuit, t) \subseteq Reached'
    BY <1>2 DEF Reached
  <2>4. \A n \in visited' : Outputs(circuit, n) \subseteq Reached'
    BY <1>2, <2>3 DEF Inv, WalkOK
  <2>5. ~endSeen' => \A n \in visited' : Outputs(circuit, n) # {}
    BY <1>2 DEF Inv, WalkOK
  <2> QED BY <1>1, <2>1, <2>2, <2>4, <2>5 DEF WalkOK
<1> QED BY <1>1, <1>5, <1>7, <1>8, <1>9 DEF Inv

LEMMA AssignSiteKeepsInv ==
  ASSUME Inv, AssignSite
  PROVE  Inv'
<1>1. fault' = fault /\ circuit' = circuit /\ site' = site
  BY DEF AssignSite, circuit, site
<1>2. /\ phase' = "imply"
      /\ value' = Assign(value, [n \in {site} |-> 1 - stuck])
      /\ pending' = pending \union {n \in {site} : value[n] = None}
      /\ UNCHANGED <<frontier, visited, endSeen>>
  BY DEF AssignSite
<1>3. site \in Nets(circuit) /\ stuck \in Bits
  BY CasesAssumption DEF Inv, site, circuit, stuck
<1>4. \A u \in fault.tests : u.good[site] = 1 - stuck
  <2> SUFFICES ASSUME NEW u \in fault.tests PROVE u.good[site] = 1 - stuck
    OBVIOUS
  <2>1. IsTest(fault, u.good, u.faulty)
    BY GoodIsValuation DEF Inv, FaultWithTest
  <2> QED BY <2>1 DEF IsTest, IsSimulation, site, stuck
<1>5. Sound(Assign(value, [n \in {site} |-> 1 - stuck]))
  <2> DEFINE w == [n \in {site} |-> 1 - stuck]
  <2>1. \A n \in DOMAIN w \intersect Nets(circuit) :
          w[n] \in Bits \union {None} /\ \A u \in fault.tests : w[n] \in {None, u.good[n]}
    BY <1>3, <1>4 DEF Bits
  <2> QED BY <2>1, InvIsSound, AssignKeepsSound
<1>6. EssentialHolds' /\ (value \in [Nets(circuit) -> Bits \union {None}])'
  BY <1>1, <1>2, <1>5, SoundGivesEssential
<1>7. TypeOK'
  BY <1>1, <1>2, <1>3, <1>6 DEF Inv, TypeOK
<1>8. \A n \in pending' : value'[n] # None
  <2> SUFFICES ASSUME NEW n \in pending' PROVE value'[n] # None
    OBVIOUS
  <2>1. value \in [Nets(circuit) -> Bits \union {None}] /\ n \in Nets(circuit)
    BY <1>1, <1>7 DEF Inv, TypeOK
  <2>2. value'[n] = IF value[n] = None /\ n = site THEN 1 - stuck ELSE value[n]
    BY <1>2, <2>1 DEF Assign
  <2>3. n \in pending => value[n] # None
    BY DEF Inv
  <2> QED BY <1>2, <1>3, <2>2, <2>3 DEF Bits, None
<1>9. WalkOK'
  BY <1>1, <1>2 DEF Inv, WalkOK, Reached
<1> QED BY <1>1, <1>6, <1>7, <1>8, <1>9 DEF Inv

\* Implications never change a value.
LEMMA AssignKeepsValues ==
  ASSUME NEW v, NEW w, NEW n \in DOMAIN v, v[n] # None
  PROVE  Assign(v, w)[n] = v[n] /\ DOMAIN Assign(v, w) = DOMAIN v
BY DEF Assign

LEMMA ImplyKeepsInv ==
  ASSUME Inv, NEW t \in Nets(circuit), Imply(t)
  PROVE  Inv'
<1>1. fault' = fault /\ circuit' = circuit /\ site' = site /\ UNCHANGED <<phase, frontier, visited, endSeen>>
  BY DEF Imply, circuit, site
<1>2. /\ t \in pending
      /\ value' = Forward(Backward(value, t), t)
      /\ pending' = (pending \ {t}) \union {n \in Nets(circuit) : value[n] = None /\ value'[n] # None}
  BY DEF Imply
<1>3. Sound(Backward(value, t))
  BY <1>2, InvIsSound, BackwardIsSound DEF Inv
<1>4. Sound(Forward(Backward(value, t), t))
  BY <1>3, ForwardIsSound DEF Inv
<1>5. EssentialHolds' /\ (value \in [Nets(circuit) -> Bits \union {None}])'
  BY <1>1, <1>2, <1>4, SoundGivesEssential
<1>6. pending' \subseteq Nets(circuit)
  BY <1>2 DEF Inv, TypeOK
<1>7. TypeOK'
  BY <1>1, <1>5, <1>6 DEF Inv, TypeOK
<1>8. \A n \in pending' : value'[n] # None
  <2> SUFFICES ASSUME NEW n \in pending, value'[n] = None PROVE FALSE
    BY <1>2
  <2>1. value \in [Nets(circuit) -> Bits \union {None}] /\ n \in Nets(circuit) /\ value[n] # None
    BY DEF Inv, TypeOK
  <2>2. Backward(value, t)[n] = value[n] /\ n \in DOMAIN Backward(value, t)
    BY <2>1, AssignKeepsValues DEF Backward
  <2>3. Forward(Backward(value, t), t)[n] = value[n]
    BY <2>1, <2>2, AssignKeepsValues DEF Forward
  <2> QED BY <1>2, <2>1, <2>3
<1>9. WalkOK'
  BY <1>1 DEF Inv, WalkOK, Reached
<1> QED BY <1>1, <1>5, <1>7, <1>8, <1>9 DEF Inv

LEMMA NextKeepsInv == Inv /\ [Next]_vars => Inv'
<1> SUFFICES ASSUME Inv, [Next]_vars PROVE Inv'
  OBVIOUS
<1>1. CASE \E t \in Nets(circuit) : Visit(t)
  BY <1>1, VisitKeepsInv
<1>2. CASE \E t \in Nets(circuit) : Imply(t)
  BY <1>2, ImplyKeepsInv
<1>3. CASE AssignSite
  BY <1>3, AssignSiteKeepsInv
<1>4. CASE Finish
  <2>1. UNCHANGED <<fault, frontier, visited, endSeen, value, pending>> /\ phase' = "done"
    BY <1>4 DEF Finish
  <2>2. circuit' = circuit /\ site' = site
    BY <2>1 DEF circuit, site
  <2>3. TypeOK'
    BY <2>1, <2>2 DEF Inv, TypeOK
  <2>4. WalkOK'
    BY <2>1, <2>2 DEF Inv, WalkOK, Reached
  <2>5. EssentialHolds'
    BY <2>1, <2>2 DEF Inv, EssentialHolds
  <2> QED BY <2>1, <2>3, <2>4, <2>5 DEF Inv
<1>5. CASE UNCHANGED vars
  BY <1>5 DEF vars, Inv, TypeOK, WalkOK, EssentialHolds, Reached, circuit, site
<1> QED BY <1>1, <1>2, <1>3, <1>4, <1>5 DEF Next, Step, Done

-----------------------------------------------------------------------------
(* Theorems *)

\* On every circuit and for every fault, each value that is given to the solver
\* is the value the net has in every test of the fault.
THEOREM EssentialCorrect == Spec => []EssentialHolds
<1>1. Inv => EssentialHolds
  BY DEF Inv
<1> QED BY InitInv, NextKeepsInv, <1>1, PTL DEF Spec

\* The types of the variables.
THEOREM TypeCorrect == Spec => []TypeOK
<1>1. Inv => TypeOK
  BY DEF Inv
<1> QED BY InitInv, NextKeepsInv, <1>1, PTL DEF Spec

-----------------------------------------------------------------------------
(***************************************************************************)
(* No implication is missed.  A net whose value has not been passed on is  *)
(* queued: the walk queues every net it gives a value, and a rule that     *)
(* still gives a value later has an input, or is at a net, that is queued. *)
(***************************************************************************)

\* A rule that gives a net a value has an input that is queued.
ForwardQueued ==
  \A n \in Nets(circuit) : value[n] = None /\ Implied(value, n) # None =>
    \E m \in Inputs(circuit, n) : m \in pending

\* A net that is not queued has given its inputs their values.
BackwardQueued ==
  \A t \in Nets(circuit) : value[t] # None /\ t \notin pending =>
    \A n \in Inputs(circuit, t) : BackImplied(value, t) = None \/ value[n] # None

QueueInv ==
  /\ phase = "walk" => \A n \in Nets(circuit) : value[n] # None => n \in pending
  /\ phase # "walk" => ForwardQueued /\ BackwardQueued
  /\ phase = "done" => pending = {}

\* A forward rule has a premise: an input with a value.
LEMMA ImpliedHasPremise ==
  ASSUME NEW n \in Nets(circuit), WellFormed(circuit), NEW v, Implied(v, n) # None
  PROVE  \E m \in Inputs(circuit, n) : v[m] # None
<1>1. NonControlling(circuit.type[n]) \in {0, 1} /\ 1 - NonControlling(circuit.type[n]) # None
      /\ NonControlling(circuit.type[n]) # None
  BY UncontrolledBit DEF Bits, None
<1>2. CASE circuit.type[n] \in Controllable
  <2>1. Inputs(circuit, n) # {}
    BY <1>2, HasInputs DEF Controllable
  <2>2. \/ \E m \in Inputs(circuit, n) : v[m] = 1 - NonControlling(circuit.type[n])
        \/ \A m \in Inputs(circuit, n) : v[m] = NonControlling(circuit.type[n])
    BY <1>2 DEF Implied, Controllable
  <2> QED BY <1>1, <2>1, <2>2
<1>3. CASE circuit.type[n] \in {"BUF", "FOUT", "INV"}
  <2>1. circuit.in[n][1] \in Inputs(circuit, n)
    BY <1>3, FirstInput
  <2>2. v[circuit.in[n][1]] # None
    BY <1>3 DEF Implied, Controllable
  <2> QED BY <2>1, <2>2
<1>4. circuit.type[n] \in Controllable \union {"BUF", "FOUT", "INV"}
  BY DEF Implied
<1> QED BY <1>2, <1>3, <1>4

\* A forward rule looks at the inputs only, a backward rule at the net only.
LEMMA ImpliedDepends ==
  ASSUME NEW n \in Nets(circuit), WellFormed(circuit), NEW v, NEW w,
         \A m \in Inputs(circuit, n) : v[m] = w[m]
  PROVE  Implied(v, n) = Implied(w, n)
<1>1. CASE circuit.type[n] \in Controllable
  BY <1>1 DEF Implied, Controllable
<1>2. CASE circuit.type[n] \in {"BUF", "FOUT", "INV"}
  <2>1. v[circuit.in[n][1]] = w[circuit.in[n][1]]
    BY <1>2, FirstInput
  <2> QED BY <1>2, <2>1 DEF Implied, Controllable
<1>3. CASE circuit.type[n] \notin Controllable \union {"BUF", "FOUT", "INV"}
  BY <1>3 DEF Implied
<1> QED BY <1>1, <1>2, <1>3

LEMMA BackImpliedDepends ==
  ASSUME NEW t, NEW v, NEW w, v[t] = w[t]
  PROVE  BackImplied(v, t) = BackImplied(w, t)
BY DEF BackImplied

\* While every net with a value is queued, every rule waits for one.
LEMMA AllQueued ==
  ASSUME WellFormed(circuit), \A n \in Nets(circuit) : value[n] # None => n \in pending
  PROVE  ForwardQueued /\ BackwardQueued
<1>1. ForwardQueued
  <2> SUFFICES ASSUME NEW n \in Nets(circuit), Implied(value, n) # None
               PROVE  \E m \in Inputs(circuit, n) : m \in pending
    BY DEF ForwardQueued
  <2>1. PICK m \in Inputs(circuit, n) : value[m] # None
    BY ImpliedHasPremise
  <2>2. m \in Nets(circuit)
    BY Edges
  <2> QED BY <2>1, <2>2
<1> QED BY <1>1 DEF BackwardQueued

\* What one turn of the implication loop does to the values.
LEMMA ImplyValues ==
  ASSUME Inv, NEW t \in Nets(circuit), NEW v1, v1 = Backward(value, t), NEW v2, v2 = Forward(v1, t)
  PROVE  /\ \A n \in Nets(circuit) : v1[n] = IF value[n] = None /\ n \in Inputs(circuit, t)
                                             THEN BackImplied(value, t) ELSE value[n]
         /\ \A n \in Nets(circuit) : v2[n] = IF v1[n] = None /\ n \in Outputs(circuit, t)
                                             THEN Implied(v1, n) ELSE v1[n]
<1>1. DOMAIN value = Nets(circuit)
  BY DEF Inv, TypeOK
<1>2. DOMAIN v1 = Nets(circuit)
  BY <1>1 DEF Backward, Assign
<1>3. \A n \in Nets(circuit) : v1[n] = IF value[n] = None /\ n \in Inputs(circuit, t)
                                       THEN BackImplied(value, t) ELSE value[n]
  BY <1>1 DEF Backward, Assign
<1>4. \A n \in Nets(circuit) : v2[n] = IF v1[n] = None /\ n \in Outputs(circuit, t)
                                       THEN Implied(v1, n) ELSE v1[n]
  BY <1>2 DEF Forward, Assign
<1> QED BY <1>3, <1>4

LEMMA ImplyKeepsQueued ==
  ASSUME Inv, ForwardQueued, BackwardQueued, NEW t \in Nets(circuit), Imply(t)
  PROVE  (ForwardQueued /\ BackwardQueued)'
<1> DEFINE v1 == Backward(value, t)
           v2 == Forward(v1, t)
<1>1. circuit' = circuit /\ value' = v2
      /\ pending' = (pending \ {t}) \union {n \in Nets(circuit) : value[n] = None /\ v2[n] # None}
  BY DEF Imply, circuit
<1>2. WellFormed(circuit)
  BY CasesAssumption DEF Inv, circuit
<1>3. /\ \A n \in Nets(circuit) : v1[n] = IF value[n] = None /\ n \in Inputs(circuit, t)
                                          THEN BackImplied(value, t) ELSE value[n]
      /\ \A n \in Nets(circuit) : v2[n] = IF v1[n] = None /\ n \in Outputs(circuit, t)
                                          THEN Implied(v1, n) ELSE v1[n]
  BY ImplyValues
<1> HIDE DEF v1, v2
<1>4. \A n \in Nets(circuit) : value[n] # None => v1[n] = value[n] /\ v2[n] = value[n]
  BY <1>3
<1>5. ASSUME NEW n \in Nets(circuit), v2[n] = None, Implied(v2, n) # None,
             \A m \in Inputs(circuit, n) : m \notin pending'
      PROVE  FALSE
  <2>1. \A m \in Inputs(circuit, n) : m \in Nets(circuit) /\ n \in Outputs(circuit, m)
    BY <1>2, Edges
  <2>2. \A m \in Inputs(circuit, n) : v2[m] = value[m]
    <3> SUFFICES ASSUME NEW m \in Inputs(circuit, n) PROVE v2[m] = value[m]
      OBVIOUS
    <3>1. value[m] = None => v2[m] = None
      BY <1>1, <1>5, <2>1
    <3> QED BY <1>4, <2>1, <3>1
  <2>3. \A m \in Inputs(circuit, n) : v1[m] = value[m]
    <3> SUFFICES ASSUME NEW m \in Inputs(circuit, n) PROVE v1[m] = value[m]
      OBVIOUS
    <3>1. v1[m] # None => v2[m] = v1[m]
      BY <1>3, <2>1
    <3> QED BY <1>4, <2>1, <2>2, <3>1
  <2>4. Implied(v2, n) = Implied(value, n) /\ Implied(v1, n) = Implied(value, n)
    BY <1>2, <2>2, <2>3, ImpliedDepends
  <2>5. value[n] = None /\ v1[n] = None
    <3>1. v1[n] # None => v2[n] = v1[n]
      BY <1>3
    <3> QED BY <1>4, <1>5, <3>1
  <2>6. PICK m \in Inputs(circuit, n) : m \in pending
    BY <1>5, <2>4, <2>5 DEF ForwardQueued
  <2>7. m = t
    BY <1>1, <1>5, <2>6
  <2>8. v2[n] = Implied(v1, n)
    BY <1>3, <2>1, <2>5, <2>6, <2>7
  <2> QED BY <1>5, <2>4, <2>8
<1>6. ASSUME NEW s \in Nets(circuit), v2[s] # None, s \notin pending',
             NEW n \in Inputs(circuit, s), BackImplied(v2, s) # None
      PROVE  v2[n] # None
  <2>1. value[s] # None /\ v2[s] = value[s] /\ (s = t \/ s \notin pending)
    BY <1>1, <1>4, <1>6
  <2>2. BackImplied(v2, s) = BackImplied(value, s)
    BY <2>1, BackImpliedDepends
  <2>3. n \in Nets(circuit)
    BY <1>2, <1>6, Edges
  <2>4. CASE s = t
    <3>1. v1[n] # None
      BY <1>3, <1>6, <2>2, <2>3, <2>4
    <3> QED BY <1>3, <2>3, <3>1
  <2>5. CASE s \notin pending
    <3>1. value[n] # None
      BY <1>6, <2>1, <2>2, <2>5 DEF BackwardQueued
    <3> QED BY <1>4, <2>3, <3>1
  <2> QED BY <2>1, <2>4, <2>5
<1>7. ForwardQueued'
  BY <1>1, <1>5 DEF ForwardQueued, Implied
<1>8. BackwardQueued'
  BY <1>1, <1>6 DEF BackwardQueued, BackImplied
<1> QED BY <1>7, <1>8

\* A step that queues every net it gives a value.
LEMMA QueuesNewValues ==
  ASSUME Inv, phase = "walk", QueueInv, NEW w,
         value' = Assign(value, w), fault' = fault,
         pending \subseteq pending', \A n \in DOMAIN w : value[n] = None => n \in pending'
  PROVE  (\A n \in Nets(circuit) : value[n] # None => n \in pending)'
<1>1. circuit' = circuit /\ DOMAIN value = Nets(circuit)
  BY DEF circuit, Inv, TypeOK
<1>2. \A n \in Nets(circuit) : value'[n] # value[n] => value[n] = None /\ n \in DOMAIN w
  BY <1>1 DEF Assign
<1> QED BY <1>1, <1>2 DEF QueueInv

LEMMA NextKeepsQueue == Inv /\ QueueInv /\ [Next]_vars => QueueInv'
<1> SUFFICES ASSUME Inv, QueueInv, [Next]_vars PROVE QueueInv'
  OBVIOUS
<1>1. WellFormed(circuit)
  BY CasesAssumption DEF Inv, circuit
<1>2. CASE \E t \in Nets(circuit) : Visit(t)
  <2>1. PICK t \in Nets(circuit) : Visit(t)
    BY <1>2
  <2>2. /\ phase = "walk" /\ phase' = phase /\ fault' = fault
        /\ value' = Assign(value, Forced(t)) /\ pending' = pending \union DOMAIN Forced(t)
    BY <2>1 DEF Visit
  <2>3. (\A n \in Nets(circuit) : value[n] # None => n \in pending)'
    BY <2>2, QueuesNewValues
  <2> QED BY <2>2, <2>3 DEF QueueInv
<1>3. CASE \E t \in Nets(circuit) : Imply(t)
  <2>1. PICK t \in Nets(circuit) : Imply(t)
    BY <1>3
  <2>2. phase = "imply" /\ phase' = "imply"
    BY <2>1 DEF Imply
  <2>3. (ForwardQueued /\ BackwardQueued)'
    BY <2>1, <2>2, ImplyKeepsQueued DEF QueueInv
  <2> QED BY <2>2, <2>3 DEF QueueInv
<1>4. CASE AssignSite
  <2> DEFINE w == [n \in {site} |-> 1 - stuck]
  <2>1. /\ phase = "walk" /\ phase' = "imply" /\ fault' = fault
        /\ value' = Assign(value, w) /\ pending' = pending \union {n \in {site} : value[n] = None}
    BY <1>4 DEF AssignSite
  <2>2. (\A n \in Nets(circuit) : value[n] # None => n \in pending)'
    <3>1. \A n \in DOMAIN w : value[n] = None => n \in pending'
      BY <2>1
    <3> HIDE DEF w
    <3> QED BY <2>1, <3>1, QueuesNewValues
  <2>3. WellFormed(circuit)'
    BY <1>1, <2>1 DEF circuit
  <2>4. (ForwardQueued /\ BackwardQueued)'
    BY <2>2, <2>3, AllQueued, PTL
  <2> QED BY <2>1, <2>4 DEF QueueInv
<1>5. CASE Finish
  <2>1. /\ phase = "imply" /\ phase' = "done" /\ pending = {} /\ UNCHANGED <<fault, value, pending>>
    BY <1>5 DEF Finish
  <2>2. ForwardQueued' <=> ForwardQueued
    BY <2>1 DEF ForwardQueued, Implied, circuit
  <2>3. BackwardQueued' <=> BackwardQueued
    BY <2>1 DEF BackwardQueued, BackImplied, circuit
  <2> QED BY <2>1, <2>2, <2>3 DEF QueueInv
<1>6. CASE UNCHANGED vars
  <2>1. UNCHANGED <<fault, phase, value, pending>>
    BY <1>6 DEF vars
  <2>2. ForwardQueued' <=> ForwardQueued
    BY <2>1 DEF ForwardQueued, Implied, circuit
  <2>3. BackwardQueued' <=> BackwardQueued
    BY <2>1 DEF BackwardQueued, BackImplied, circuit
  <2> QED BY <2>1, <2>2, <2>3 DEF QueueInv, circuit
<1> QED BY <1>2, <1>3, <1>4, <1>5, <1>6 DEF Next, Step, Done

\* On every circuit and for every fault, when the implications end no rule
\* gives a value to a net that has none: none was missed for having been
\* tried before its last premise was known.
THEOREM ClosedCorrect == Spec => []ImplicationsClosed
<1>1. Init => QueueInv
  BY DEF Init, QueueInv
<1>2. Inv /\ QueueInv => ImplicationsClosed
  <2> SUFFICES ASSUME Inv, QueueInv, phase = "done", NEW n \in Nets(circuit), value[n] = None
               PROVE  /\ Implied(value, n) = None
                      /\ \A t \in Outputs(circuit, n) : value[t] # None => BackImplied(value, t) = None
    BY DEF ImplicationsClosed
  <2>1. WellFormed(circuit) /\ pending = {} /\ ForwardQueued /\ BackwardQueued
    BY CasesAssumption DEF Inv, QueueInv, circuit
  <2>2. Implied(value, n) = None
    BY <2>1 DEF ForwardQueued
  <2>3. ASSUME NEW t \in Outputs(circuit, n), value[t] # None
        PROVE  BackImplied(value, t) = None
    <3>1. t \in Nets(circuit) /\ n \in Inputs(circuit, t)
      BY <2>1, Edges
    <3> QED BY <2>1, <2>3, <3>1 DEF BackwardQueued
  <2> QED BY <2>2, <2>3
<1> QED BY InitInv, NextKeepsInv, NextKeepsQueue, <1>1, <1>2, PTL DEF Spec
=============================================================================
