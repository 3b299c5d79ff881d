------------------------------ MODULE TestModel ------------------------------
(***************************************************************************)
(* The clauses whose models are the tests of a fault (fdp/cnf: WriteTPGModel *)
(* and what it calls), for one fault after the other as a worker process   *)
(* builds them.  The good circuit, the copy of it behind the fault, the    *)
(* propagation chain and the comparator are restricted to the nets that    *)
(* the observed outputs depend on (the scope); flags, variable numbers and *)
(* scope are global and carry over from one fault to the next, as do the   *)
(* tables that the simulation of a model keeps for the scope.              *)
(*                                                                         *)
(* A variable is a positive integer and a literal an integer, as in the    *)
(* solver's interface; a clause is a set of literals.  The solver and the  *)
(* values of essential assignment are external to this module.             *)
(***************************************************************************)
EXTENDS Circuit

CONSTANTS
  Circuits,    \* the circuits analysed
  MaxFaults    \* bound on the faults one process handles

ASSUME TestModelAssumption ==
  /\ \A c \in Circuits : WellFormed(c) /\ InputsListed(c)
  /\ MaxFaults \in Nat

VARIABLES
  circuit,
  target,     \* the fault at hand: [site, stuck]
  phase,      \* "idle", "search", "scope", "good", "ready", "simulated"
  handled,    \* faults begun
  tfo, tpo,   \* flags TFO and TPO
  varsfc,     \* variable of a net's faulty value
  varprop,    \* variable of a net in the propagation chain
  total,      \* cnf.total.vars
  needed,     \* scope of the good circuit
  detection,  \* scope of detection
  generation, \* number of scopes built
  clauses,    \* what the solver was given
  pattern,    \* the input values of the last model the solver found
  scope,      \* scope_gates, scope_nets: the scope the simulation is set up for
  scopeGeneration,
  values      \* values of the last simulation

cnf == <<tfo, tpo, varsfc, varprop, total, needed, detection, generation, clauses>>
simulation == <<pattern, scope, scopeGeneration, values>>
vars == <<circuit, target, phase, handled, cnf, simulation>>

site == target.site
excitation == circuit.first[site]   \* exc_netptr, None for a stuck-at fault

InputNets == {circuit.pi[i] : i \in DOMAIN circuit.pi}

\* Variables of the good values: the inputs first (AssigneVarsGC).
varsgc ==
  [n \in Nets(circuit) |->
     IF n \in InputNets THEN CHOOSE i \in DOMAIN circuit.pi : circuit.pi[i] = n
     ELSE Len(circuit.pi) + Position(n, Nets(circuit) \ InputNets)]
Constant == Cardinality(Nets(circuit))

Init ==
  /\ circuit \in Circuits
  /\ target = [site |-> 0, stuck |-> 0]
  /\ phase = "idle"
  /\ handled = 0
  /\ tfo = {} /\ tpo = {}
  /\ varsfc = [n \in Nets(circuit) |-> 0]
  /\ varprop = [n \in Nets(circuit) |-> 0]
  /\ total = 0
  /\ needed = {} /\ detection = {} /\ generation = 0
  /\ clauses = {}
  /\ pattern = <<>>
  /\ scope = {} /\ scopeGeneration = 0
  /\ values = [n \in Nets(circuit) |-> 0]

-----------------------------------------------------------------------------
\* Nets the fault can reach; nets that the nets of a set depend on.
Reach(s) ==
  LET reached[n \in Nets(circuit)] == {n} \union UNION {reached[m] : m \in Outputs(circuit, n)}
  IN reached[s]
Support(nets) ==
  LET read[n \in Nets(circuit)] == {n} \union UNION {read[m] : m \in Inputs(circuit, n)}
  IN UNION {read[n] : n \in nets}

\* Mutant: numbers of an earlier fault are left on nets this one cannot reach.
FaultyVariablesKept(reached) ==
  [n \in Nets(circuit) |->
     IF n \in reached THEN Constant + 2 * Position(n, reached) - 1
     ELSE IF varsfc[n] = 0 THEN varsgc[n] ELSE varsfc[n]]

\* A net the fault cannot reach has its good value in the faulty circuit too.
\* (Which of the new variables a net gets is left to the order of the nets.)
FaultyVariables(reached) ==
  [n \in Nets(circuit) |->
     IF n \in reached THEN Constant + 2 * Position(n, reached) - 1 ELSE varsgc[n]]
ChainVariables(reached) ==
  [n \in Nets(circuit) |->
     IF n \in reached THEN Constant + 2 * Position(n, reached) ELSE varprop[n]]

\* A new solver; RESET_CNF, SearchTFO.
SearchTFO(s, v) ==
  /\ phase = "idle"
  /\ handled < MaxFaults
  /\ handled' = handled + 1
  /\ target' = [site |-> s, stuck |-> v]
  /\ clauses' = {}
  /\ tfo' = Reach(s)
  /\ tpo' = {}
  /\ varsfc' = FaultyVariables(tfo')
  /\ varprop' = ChainVariables(tfo')
  /\ total' = Constant + 2 * Cardinality(tfo')
  /\ phase' = "search"
  /\ UNCHANGED <<circuit, needed, detection, generation, simulation>>

\* Mutant: the excitation in the first frame is forgotten.
RequiredForDetection(observed) == Support(observed)

\* What the good circuit must define.
Required(observed) == Support(observed \union ({excitation} \ {None}))

NormalScopeBuild ==
  /\ phase = "search"
  /\ tpo' = Observed(circuit) \intersect tfo
  /\ detection' = Support(tpo')
  /\ needed' = Required(tpo')
  /\ generation' = generation + 1
  /\ phase' = "scope"
  /\ UNCHANGED <<circuit, target, handled, tfo, varsfc, varprop, total, clauses, simulation>>

\* The clauses of a gate with output variable z and input variables x.
GateClauses(type, x, z) ==
  LET in == {x[i] : i \in DOMAIN x}
      NonControlled(a) == IF NonControlling(type) = 1 THEN a ELSE -a
      out == IF Uncontrolled(type) = 1 THEN z ELSE -z
      Parity(y) == {{-x[1], -x[2], -y}, {x[1], x[2], -y}, {x[1], -x[2], y}, {-x[1], x[2], y}}
  IN CASE type \in Controllable -> {{-NonControlled(a) : a \in in} \union {out}}
                                   \union {{NonControlled(a), -out} : a \in in}
       [] type \in {"BUF", "FOUT"} -> {{-x[1], z}, {x[1], -z}}
       [] type = "INV" -> {{x[1], z}, {-x[1], -z}}
       [] type = "EXOR" -> Parity(z)
       [] type = "EXNOR" -> Parity(-z)
       [] OTHER -> {}

Definition(n, var) ==
  GateClauses(circuit.type[n], [i \in DOMAIN circuit.in[n] |-> var[circuit.in[n][i]]], var[n])

\* The gates behind the fault, without the faulty net's own.
FaultyCircuit == UNION {Definition(n, varsfc) : n \in (tfo \ {site}) \intersect detection}

\* An active net has different values, and so has one of the nets it leads to.
Differs(n) == {{-varprop[n], varsgc[n], varsfc[n]}, {-varprop[n], -varsgc[n], -varsfc[n]}}
Continues(n) ==
  IF Outputs(circuit, n) # {} /\ n \notin tpo
  THEN {{-varprop[n]} \union {varprop[m] : m \in Outputs(circuit, n) \intersect detection}}
  ELSE {}
PropagationChain ==
  {{varprop[site]}} \union UNION {Differs(n) \union Continues(n) : n \in tfo \intersect detection}

\* One variable per observed net that the fault reaches, and if there are
\* several one more, the last, for their disjunction.  They are numbered from
\* base, what cnf.total.vars was before.
Difference(base, o) == base + Position(o, tpo)
LastVariable(base) == base + Cardinality(tpo) + (IF Cardinality(tpo) > 1 THEN 1 ELSE 0)
Comparator(base) ==
  LET count == Cardinality(tpo)
      last == LastVariable(base)
  IN (UNION {GateClauses("EXOR", <<varsgc[o], varsfc[o]>>, Difference(base, o)) : o \in tpo})
     \union (IF count > 1 THEN GateClauses("OR", [i \in 1 .. count |-> last - count + i - 1], last) ELSE {})

\* The literal "variable x has value v".
Literal(x, v) == IF v = 1 THEN x ELSE -x
Excitation(base) ==
  {{Literal(varsgc[site], 1 - target.stuck)}, {Literal(varsfc[site], target.stuck)}, {LastVariable(base)}}
  \union {{Literal(varsgc[n], target.stuck)} : n \in {excitation} \ {None}}

\* Essential assignment adds values that every test has, on nets of the scope;
\* here it adds all of them or none.
EssentialUnits ==
  LET tests == AllTests(circuit, site, target.stuck)
  IN {{Literal(varsgc[e[1]], e[2])} :
        e \in {known \in needed \X Bits : \A t \in tests : t.good[known[1]] = known[2]}}

DetectionClauses(base) ==
  FaultyCircuit \union PropagationChain \union Comparator(base) \union Excitation(base)

\* The clauses of the fault; one that no observed net can see gets the empty clause.
CreateConsFC ==
  /\ phase = "scope"
  /\ IF tpo = {}
     THEN clauses' = clauses \union {{}} /\ total' = total
     ELSE /\ \E units \in {{}, EssentialUnits} :
               clauses' = clauses \union DetectionClauses(total) \union units
          /\ total' = LastVariable(total)
  /\ phase' = "good"
  /\ UNCHANGED <<circuit, target, handled, tfo, tpo, varsfc, varprop, needed, detection, generation,
                 simulation>>

GoodCircuit == UNION {Definition(n, varsgc) : n \in needed}

LoadNormalDefinition ==
  /\ phase = "good"
  /\ clauses' = clauses \union GoodCircuit
  /\ phase' = "ready"
  /\ UNCHANGED <<circuit, target, handled, tfo, tpo, varsfc, varprop, total, needed, detection, generation,
                 simulation>>

-----------------------------------------------------------------------------
\* The models of the clauses, as values of the variables, found by giving them
\* to one variable after the other.  (External: the solver.)
Variable(l) == IF l > 0 THEN l ELSE -l
Variables == {Variable(l) : l \in UNION clauses} \union {varsgc[n] : n \in InputNets}

Holds(a, l) == IF l > 0 THEN a[l] = 1 ELSE a[-l] = 0

Models ==
  LET Extend(a, given, x, v) == [y \in given |-> IF y = x THEN v ELSE a[y]]
      Possible(a, given, x) ==
        \A clause \in clauses : x \in clause \/ -x \in clause =>
          \E l \in clause : Variable(l) \in given => Holds(a, l)
      models[given \in SUBSET Variables] ==
        IF given = {} THEN [given -> Bits]
        ELSE LET x == CHOOSE x \in given : \A y \in given : y <= x
                 more == {Extend(a, given, x, v) : a \in models[given \ {x}], v \in Bits}
             IN {a \in more : Possible(a, given, x)}
  IN IF {} \in clauses THEN {} ELSE models[Variables]

InputsOf(a) == [n \in InputNets |-> a[varsgc[n]]]
Answers == {InputsOf(a) : a \in Models}

\* Mutant: the tables are set up for the first fault only.
ScopeOnce == IF scopeGeneration = 0 THEN needed ELSE scope

\* The scope is taken over when a new one has been built.
ScopeFor == IF scopeGeneration # generation THEN needed ELSE scope

\* NormalScopeModelValues: the values of the scope's nets for a model.
Simulated(p, nets) ==
  LET Computed(n) == IF circuit.type[n] = "IN" THEN n \in needed ELSE n \in nets
  IN Values(circuit, p, [n \in {m \in Nets(circuit) : ~ Computed(m)} |-> values[n]])

\* The solver answers, the first time or again after a cube was blocked.
Simulate ==
  /\ phase \in {"ready", "simulated"}
  /\ pattern' \in Answers
  /\ scope' = ScopeFor
  /\ scopeGeneration' = generation
  /\ values' = Simulated(pattern', scope')
  /\ phase' = "simulated"
  /\ UNCHANGED <<circuit, target, handled, cnf>>

\* The fault is done with: no model, or (CubeEnumeration) none left or enough.
Release ==
  /\ phase = "simulated" \/ (phase = "ready" /\ Answers = {})
  /\ phase' = "idle"
  /\ UNCHANGED <<circuit, target, handled, cnf, simulation>>

Finished == phase = "idle" /\ handled = MaxFaults /\ UNCHANGED vars

Next ==
  \/ \E s \in Sites(circuit), v \in Bits : SearchTFO(s, v)
  \/ NormalScopeBuild
  \/ CreateConsFC
  \/ LoadNormalDefinition
  \/ Simulate
  \/ Release
  \/ Finished

Spec == Init /\ [][Next]_vars

-----------------------------------------------------------------------------
(* Properties *)

\* The patterns that detect the fault, by simulation of the whole circuit.
Detecting == {[n \in InputNets |-> t.good[n]] : t \in AllTests(circuit, site, target.stuck)}

\* Every model is a test, whatever fault was handled before.
EveryModelDetects == phase = "ready" => Answers \subseteq Detecting

\* Every test is a model: the scope, the chain and the essential values
\* exclude none, and a fault no output sees has none.
EveryTestIsModel == phase = "ready" => Detecting \subseteq Answers

\* The values handed to don't-care identification are the values the circuit
\* has for the model's inputs, wherever it may look: no net of the scope shows
\* a value of an earlier fault or model.
SimulationAgrees ==
  phase = "simulated" =>
    LET good == Values(circuit, pattern, <<>>)
    IN scope = needed /\ \A n \in needed : values[n] = good[n]
=============================================================================
