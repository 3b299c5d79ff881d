--------------------------------- MODULE Xid ---------------------------------
(***************************************************************************)
(* Don't-care identification (fdp/xid, InlineXID): from the test that the  *)
(* solver found to a cube of tests.  An event-driven simulation gives the  *)
(* values behind the fault; then, from one observed net where they show,   *)
(* the fault is followed back to its site, and what lets it pass and what  *)
(* justifies each required value is required too, for the good and for     *)
(* the faulty circuit, until it has come down to the inputs.  An input     *)
(* with no required value is a don't care.                                 *)
(*                                                                         *)
(* A requirement that is lost makes the cube too large: it then counts     *)
(* patterns that do not detect the fault, without any other sign.          *)
(***************************************************************************)
EXTENDS Circuit, Functions

\* Faults with a solver's model: [circuit, site, stuck, scope, model,
\* simulations].  The scope holds the nets the solver was told about.
CONSTANT Cases

Excitation(case) == {case.circuit.first[case.site]} \ {None}   \* exc_net of a transition fault

ASSUME XidAssumption ==
  \A case \in Cases :
    LET c == case.circuit IN
    /\ WellFormed(c)
    /\ {c.pi[i] : i \in DOMAIN c.pi} = {n \in Nets(c) : c.type[n] = "IN"}
    /\ {case.site} \union Excitation(case) \subseteq case.scope
    /\ case.scope \subseteq Nets(c)
    /\ \A n \in case.scope : Inputs(c, n) \subseteq case.scope
    /\ case.stuck \in Bits
    /\ \A t \in case.simulations : IsSimulation(case, t.good, t.faulty)
    /\ case.model \in case.simulations
    /\ IsTest(case, case.model.good, case.model.faulty)
    /\ \E o \in Observed(c) \intersect case.scope : case.model.faulty[o] # case.model.good[o]

X == 2                       \* XID_X
Sides == {"good", "faulty"}  \* each net has values without and with the fault

VARIABLES
  fault,     \* the fault at hand and its model: never changes
  phase,     \* "simulate", "fill", "done"; "failed" if no net detects
  two,       \* normal_2value, fault_2value
  three,     \* normal_3value, fault_3value: the required values (X: the flag of xid_tag is down)
  computed,  \* nets with ed_tag XID_COMPUTED
  detecting, \* the first observed net where the fault shows (po_id[0]), or None
  levels,    \* the level stack
  fwd, bwd, jus   \* queues of nets

vars == <<fault, phase, two, three, computed, detecting, levels, fwd, bwd, jus>>

circuit == fault.circuit
site == fault.site
scope == fault.scope

\* The values of NormalScopeModelValues; the fault at its site, and its outputs as events.
Init ==
  /\ fault \in Cases
  /\ phase = "simulate"
  /\ two = [s \in Sides |-> IF s = "good" THEN fault.model.good ELSE [fault.model.good EXCEPT ![site] = 1 - @]]
  /\ three = [s \in Sides |-> [n \in Nets(circuit) |-> X]]
  /\ computed = {site}
  /\ detecting = IF site \in Observed(circuit) THEN site ELSE None
  /\ levels = Outputs(circuit, site) \intersect scope
  /\ fwd = <<>> /\ bwd = <<>> /\ jus = <<>>

-----------------------------------------------------------------------------
(* The level stack.  Which of several nets of one level is taken is left   *)
(* open, and so is the order in which one gate's inputs enter a queue.     *)

AnyEvent == levels   \* mutant: events in no order

NextEvent == {n \in levels : \A m \in levels : circuit.level[n] <= circuit.level[m]}
LastEvent == {n \in levels : \A m \in levels : circuit.level[m] <= circuit.level[n]}

\* S in any order.
Orders(S) == Bijection(1 .. Cardinality(S), S)

-----------------------------------------------------------------------------
(* xid_fsim *)

\* One turn of the loop: a net with an event of the lowest level.
Simulate(n) ==
  /\ phase = "simulate"
  /\ n \in NextEvent
  /\ computed' = computed \union {n}
  /\ two' = [two EXCEPT !["faulty"][n] = Eval(circuit, two["faulty"], n)]
  /\ IF two'["faulty"][n] # two["good"][n]
     THEN /\ detecting' = IF detecting = None /\ n \in Observed(circuit) THEN n ELSE detecting
          /\ levels' = (levels \ {n}) \union ((Outputs(circuit, n) \intersect scope) \ computed')
     ELSE /\ levels' = levels \ {n}
          /\ UNCHANGED detecting
  /\ UNCHANGED <<fault, phase, three, fwd, bwd, jus>>

-----------------------------------------------------------------------------
(* Required values *)

\* The values t with those of w on nets that have none yet.
Require(t, w) ==
  [s \in Sides |-> [n \in Nets(circuit) |->
     IF t[s][n] = X /\ n \in DOMAIN w[s] THEN w[s][n] ELSE t[s][n]]]
Changed(t, w) == {n \in Nets(circuit) : \E s \in Sides : t[s][n] = X /\ n \in DOMAIN w[s]}

\* Values for the good circuit only.
OnGood(values) == [s \in Sides |-> IF s = "good" THEN values ELSE <<>>]

\* Both values of the nets in S, as the model has them.
Both(S) == [s \in Sides |-> [n \in S |-> two[s][n]]]

\* ED_push_Xpath for each net of S: one with both values is not followed.
OnPath(S) == {n \in S : \E s \in Sides : three[s][n] = X}

SiteNotFixed(po) == {po}   \* mutant

\* Fixed from the start: the value at the detecting net, and the fault at its
\* site, which nothing may derive from the gate that drives the site.
Fixed(po) == {po, site}

BeginFilling ==
  /\ phase = "simulate"
  /\ levels = {}
  /\ IF detecting = None
     THEN /\ phase' = "failed"
          /\ UNCHANGED <<three, levels, bwd>>
     ELSE LET excited == Excitation(fault) \ Fixed(detecting) IN
          /\ phase' = "fill"
          /\ three' = Require(Require(three, Both(Fixed(detecting))),
                              OnGood([n \in excited |-> two["good"][n]]))
          /\ levels' = Fixed(detecting)
          /\ bwd' \in Orders(excited)
  /\ UNCHANGED <<fault, two, computed, detecting, fwd, jus>>

-----------------------------------------------------------------------------
(* Forward implication *)

\* The value that required values t of its inputs give net m, or X.
Implied(t, s, m) ==
  IF \A i \in Inputs(circuit, m) : t[s][i] # X THEN Eval(circuit, t[s], m)
  ELSE IF /\ circuit.type[m] \in Controllable
          /\ \E i \in Inputs(circuit, m) : t[s][i] = 1 - NonControlling(circuit.type[m])
  THEN 1 - Uncontrolled(circuit.type[m])
  ELSE X

\* xid_forward_imp: values for the outputs of n.  Several outputs are branches
\* (FOUT), so none of them is an input of another and the order does not matter.
Forward(t, n) ==
  [s \in Sides |->
     [m \in {o \in Outputs(circuit, n) \intersect scope :
               Implied(t, s, o) # X /\ \E r \in Sides : t[r][n] # X} |-> Implied(t, s, m)]]

ForwardImp ==
  /\ phase = "fill"
  /\ fwd # <<>>
  /\ LET w == Forward(three, Head(fwd)) IN
     /\ three' = Require(three, w)
     /\ \E more \in Orders(Changed(three, w)) : fwd' = Tail(fwd) \o more
  /\ UNCHANGED <<fault, phase, two, computed, detecting, levels, bwd, jus>>

-----------------------------------------------------------------------------
(* Backward implication *)

SiteJustified(s, n) == three[s][n]   \* mutant: the site's faulty value is derived backwards

\* The value of n that its inputs must justify.
Demand(s, n) == IF s = "faulty" /\ n = site THEN X ELSE three[s][n]

\* A gate whose output needs an input with the controlling value, and has none.
Open(s, n) ==
  LET type == circuit.type[n] IN
  /\ type \in Controllable
  /\ Demand(s, n) = 1 - Uncontrolled(type)
  /\ \A m \in Inputs(circuit, n) : three[s][m] # 1 - NonControlling(type)

\* The inputs that could be it: the model has that value there.
Candidates(s, n) ==
  {m \in Inputs(circuit, n) :
     three[s][m] = X /\ two[s][m] = 1 - NonControlling(circuit.type[n])}

\* What the value of n says of all its inputs; an exclusive or needs them all,
\* on both sides.
Forced(s, n) ==
  LET type == circuit.type[n]
      v == Demand(s, n)
      in == Inputs(circuit, n)
  IN CASE type \in {"EXOR", "EXNOR"} /\ \E r \in Sides : Demand(r, n) # X -> [m \in in |-> two[s][m]]
       [] type \in Controllable /\ v = Uncontrolled(type) -> [m \in in |-> NonControlling(type)]
       [] type \in {"BUF", "FOUT"} /\ v # X -> [m \in in |-> v]
       [] type = "INV" /\ v # X -> [m \in in |-> 1 - v]
       [] OTHER -> <<>>

\* The controlling value, for the inputs S[s] of an open gate.
Controlling(n, S) == [s \in Sides |-> [m \in S[s] |-> 1 - NonControlling(circuit.type[n])]]

\* xid_backward_imp, and the forward implication of a net with several outputs.
BackwardImp ==
  /\ phase = "fill"
  /\ fwd = <<>>
  /\ bwd # <<>>
  /\ LET n == Head(bwd)
         open == {s \in Sides : Open(s, n)}
         forced == [s \in Sides |-> Forced(s, n)]
         only == Controlling(n, [s \in Sides |->
                   IF s \in open /\ Cardinality(Candidates(s, n)) = 1 THEN Candidates(s, n) ELSE {}])
         t == Require(Require(three, forced), only)
         w == IF Cardinality(Outputs(circuit, n)) >= 2 THEN Forward(t, n) ELSE [s \in Sides |-> <<>>]
     IN /\ three' = Require(t, w)
        /\ fwd' \in Orders(Changed(t, w))
        /\ \E first \in Orders(Changed(three, forced)), second \in Orders(Changed(three, only)) :
             bwd' = Tail(bwd) \o first \o second
        /\ jus' = IF \E s \in open : Cardinality(Candidates(s, n)) >= 2 THEN Append(jus, n) ELSE jus
  /\ UNCHANGED <<fault, phase, two, computed, detecting, levels>>

-----------------------------------------------------------------------------
(* Following the fault back to its site *)

Place(n, m) == CHOOSE i \in DOMAIN circuit.in[n] : circuit.in[n][i] = m

\* The input of n in S of the lowest level, the first of them.
Lowest(n, S) ==
  CHOOSE m \in S : \A k \in S :
    \/ circuit.level[m] < circuit.level[k]
    \/ circuit.level[m] = circuit.level[k] /\ Place(n, m) <= Place(n, k)

Differs(n) == two["good"][n] # two["faulty"][n]

\* The input of n through which the fault is followed: the first that has a
\* required good value, or else the one of the lowest level.
PathInput(n) ==
  LET carriers == {m \in Inputs(circuit, n) : Differs(m)}
      required == {m \in carriers : three["good"][m] # X}
  IN IF required # {} THEN CHOOSE m \in required : \A k \in required : Place(n, m) <= Place(n, k)
     ELSE Lowest(n, carriers)

\* The inputs to follow, and the values that the others need.
PathInputs(n) ==
  CASE circuit.type[n] \in Controllable /\ \E m \in Inputs(circuit, n) : Differs(m) -> {PathInput(n)}
    [] circuit.type[n] \in {"EXOR", "EXNOR"} -> {m \in Inputs(circuit, n) : Differs(m)}
    [] circuit.type[n] \in {"BUF", "FOUT", "INV"} -> Inputs(circuit, n)
    [] OTHER -> {}

SideValues(s, n) ==
  LET type == circuit.type[n]
      others == Inputs(circuit, n) \ PathInputs(n)
      controlled == two["good"][n] # Uncontrolled(type)
  IN CASE type \in {"EXOR", "EXNOR"} -> [m \in others |-> two[s][m]]
       [] type \in Controllable /\ (controlled <=> s = "faulty") -> [m \in others |-> NonControlling(type)]
       [] OTHER -> <<>>

WithOutputs(n) == IF Cardinality(Outputs(circuit, n)) >= 2 THEN <<n>> ELSE <<>>

\* A net on the path is taken from the level stack (xid_fpath).
FollowPath(n) ==
  /\ phase = "fill"
  /\ fwd = <<>> /\ bwd = <<>>
  /\ n \in LastEvent
  /\ n # site
  /\ LET w == [s \in Sides |-> SideValues(s, n)] IN
     /\ three' = Require(Require(three, Both(PathInputs(n))), w)
     /\ levels' = (levels \ {n}) \union OnPath(PathInputs(n))
     /\ bwd' \in Orders(Changed(three, w))
  /\ fwd' = WithOutputs(n)
  /\ UNCHANGED <<fault, phase, two, computed, detecting, jus>>

\* At the site the rest of the stack is dropped.
ReachSite ==
  /\ phase = "fill"
  /\ fwd = <<>> /\ bwd = <<>>
  /\ site \in LastEvent
  /\ levels' = {}
  /\ bwd' = <<site>>
  /\ fwd' = WithOutputs(site)
  /\ UNCHANGED <<fault, phase, two, three, computed, detecting, jus>>

-----------------------------------------------------------------------------
(* Limited justification *)

\* The candidate taken on side s, if the gate is still open there.
Chosen(s, n) ==
  IF Open(s, n) /\ Candidates(s, n) # {} THEN {Lowest(n, Candidates(s, n))} ELSE {}

\* xid_backward_imp_limited
Justify ==
  /\ phase = "fill"
  /\ fwd = <<>> /\ bwd = <<>> /\ levels = {}
  /\ jus # <<>>
  /\ LET n == Head(jus)
         w == Controlling(n, [s \in Sides |-> Chosen(s, n)])
     IN /\ three' = Require(three, w)
        /\ bwd' \in Orders(Changed(three, w))
  /\ jus' = Tail(jus)
  /\ UNCHANGED <<fault, phase, two, computed, detecting, levels, fwd>>

\* Nets out of the fault's reach have the good value with the fault too.
Correction == {n \in Nets(circuit) : three["faulty"][n] # X /\ n \notin computed}

Finish ==
  /\ phase = "fill"
  /\ fwd = <<>> /\ bwd = <<>> /\ jus = <<>> /\ levels = {}
  /\ three' = Require(three, OnGood([n \in Correction |-> two["good"][n]]))
  /\ phase' = "done"
  /\ UNCHANGED <<fault, two, computed, detecting, levels, fwd, bwd, jus>>

Returned == phase \in {"done", "failed"} /\ UNCHANGED vars

Next ==
  \/ \E n \in levels : Simulate(n)
  \/ BeginFilling
  \/ ForwardImp
  \/ BackwardImp
  \/ \E n \in levels : FollowPath(n)
  \/ ReachSite
  \/ Justify
  \/ Finish
  \/ Returned

Spec == Init /\ [][Next]_vars

-----------------------------------------------------------------------------
(* Properties *)

\* The cube returned: a value or X for each input.
Cube == [n \in {circuit.pi[i] : i \in DOMAIN circuit.pi} |-> IF n \in scope THEN three["good"][n] ELSE X]
Matches(values) == \A n \in DOMAIN Cube : Cube[n] \in {X, values[n]}

\* The contract of CubeEnumeration: the cube contains the model, and every
\* pattern in it detects the fault.
CubeDetects ==
  phase = "done" =>
    /\ Matches(fault.model.good)
    /\ \A t \in fault.simulations : Matches(t.good) => IsTest(fault, t.good, t.faulty)

\* The simulation of events gives the nets of the scope their values in the
\* faulty circuit, and finds a net where the solver's test detects the fault:
\* InlineXID never returns NULL.
SimulationFindsDetection ==
  phase # "simulate" =>
    /\ phase # "failed"
    /\ \A n \in scope : two["faulty"][n] = fault.model.faulty[n]
    /\ Differs(detecting)

\* A required value is the model's: demands from different sides never
\* contradict each other.
RequiredAgreesWithModel ==
  \A s \in Sides, n \in Nets(circuit) : three[s][n] \in {X, two[s][n]}
=============================================================================
