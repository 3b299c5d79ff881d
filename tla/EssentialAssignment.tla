------------------------- MODULE EssentialAssignment -------------------------
(***************************************************************************)
(* Essential assignment (essential_assignment.c): before the solver is     *)
(* asked for a test of a fault, values that every test must have are       *)
(* added to its clauses.  First unique sensitisation walks from the fault  *)
(* site towards the outputs, and where the whole frontier is a single gate *)
(* gives its side inputs the value that lets the fault pass; then the      *)
(* site's own value and everything the values imply is added.              *)
(*                                                                         *)
(* A value too many loses tests, and so detection probability, without any *)
(* other sign.                                                             *)
(***************************************************************************)
EXTENDS Circuit

CONSTANT Cases   \* faults of circuits: [circuit, site, stuck, tests]

ASSUME CasesAssumption ==
  \A case \in Cases :
    /\ WellFormed(case.circuit)
    /\ case.site \in Nets(case.circuit)
    /\ case.stuck \in Bits
    /\ \A t \in case.tests : IsTest(case, t.good, t.faulty)

VARIABLES
  fault,     \* the fault at hand, with its circuit and tests: never changes
  phase,     \* "walk", "imply" or "done"
  frontier,  \* queue of the walk (que2, UNIQUE_UP)
  visited,   \* nets the walk has taken from it (UNIQUE_MIDDLE)
  endSeen,   \* obs_seen: a net without outputs has been visited
  value,     \* logic_value, None while ea_flag is down
  pending    \* queue of the implications (que)

vars == <<fault, phase, frontier, visited, endSeen, value, pending>>

circuit == fault.circuit
site == fault.site
stuck == fault.stuck
Reached == frontier \union visited

Init ==
  /\ fault \in Cases
  /\ phase = "walk"
  /\ frontier = {site}
  /\ visited = {}
  /\ endSeen = FALSE
  /\ value = [n \in Nets(circuit) |-> None]
  /\ pending = {}

\* assign_ea_value with each value of w: a net keeps its first one.
Assign(v, w) ==
  [n \in DOMAIN v |-> IF v[n] = None /\ n \in DOMAIN w THEN w[n] ELSE v[n]]

\* The inputs of t that need the non-controlling value for the fault to pass.
\* The walk must have come through another input: the site itself has none.
SideInputs(t) ==
  IF /\ Outputs(circuit, t) # {}
     /\ circuit.type[t] \in Controllable
     /\ Inputs(circuit, t) \intersect visited # {}
  THEN Inputs(circuit, t) \ Reached
  ELSE {}

\* Mutant: paths that ended at an output are forgotten.
OnlyWayLeft(t) == frontier = {t}

\* Is t the only way on for the fault?
OnlyWay(t) == frontier = {t} /\ ~endSeen

\* The values unique sensitisation assigns when it comes to t.
Forced(t) ==
  [n \in {m \in SideInputs(t) : OnlyWay(t) /\ value[m] = None} |-> NonControlling(circuit.type[t])]

\* One turn of unique_sentization: a net of the lowest level leaves the queue.
Visit(t) ==
  /\ phase = "walk"
  /\ t \in frontier
  /\ \A n \in frontier : circuit.level[t] <= circuit.level[n]
  /\ value' = Assign(value, Forced(t))
  /\ pending' = pending \union DOMAIN Forced(t)
  /\ visited' = visited \union {t}
  /\ frontier' = (frontier \ {t}) \union (Outputs(circuit, t) \ Reached)
  /\ endSeen' = (endSeen \/ Outputs(circuit, t) = {})
  /\ UNCHANGED <<fault, phase>>

\* The value the site needs without the fault.
AssignSite ==
  /\ phase = "walk"
  /\ frontier = {}
  /\ phase' = "imply"
  /\ value' = Assign(value, [n \in {site} |-> 1 - stuck])
  /\ pending' = pending \union {n \in {site} : value[n] = None}
  /\ UNCHANGED <<fault, frontier, visited, endSeen>>

\* The value that t's value forces on all its inputs.
BackImplied(v, t) ==
  LET type == circuit.type[t] IN
  CASE type \in Controllable /\ v[t] = Uncontrolled(type) -> NonControlling(type)
    [] type = "INV" -> 1 - v[t]
    [] type \in {"BUF", "FOUT"} -> v[t]
    [] OTHER -> None

\* The value that the inputs' values force on n.
Implied(v, n) ==
  LET type == circuit.type[n] IN
  CASE /\ type \in Controllable
       /\ \E m \in Inputs(circuit, n) : v[m] = 1 - NonControlling(type) -> 1 - Uncontrolled(type)
    [] /\ type \in Controllable
       /\ \A m \in Inputs(circuit, n) : v[m] = NonControlling(type) -> Uncontrolled(type)
    [] type = "INV" /\ v[circuit.in[n][1]] # None -> 1 - v[circuit.in[n][1]]
    [] type \in {"BUF", "FOUT"} -> v[circuit.in[n][1]]
    [] OTHER -> None

Backward(v, t) == Assign(v, [n \in Inputs(circuit, t) |-> BackImplied(v, t)])
Forward(v, t) == Assign(v, [n \in Outputs(circuit, t) |-> Implied(v, n)])

\* Mutant: only the outputs that got a value are queued, not the inputs.
ImplyOutputsOnly(t) ==
  /\ phase = "imply"
  /\ t \in pending
  /\ value' = Forward(Backward(value, t), t)
  /\ pending' = (pending \ {t}) \union {n \in Outputs(circuit, t) : value[n] = None /\ value'[n] # None}
  /\ UNCHANGED <<fault, phase, frontier, visited, endSeen>>

\* Mutant: a net is queued whenever a rule gives it a value, new or not.
ImplyAgain(t) ==
  /\ phase = "imply"
  /\ t \in pending
  /\ value' = Forward(Backward(value, t), t)
  /\ pending' = (pending \ {t}) \union {n \in Inputs(circuit, t) : BackImplied(value, t) # None}
                                \union {n \in Outputs(circuit, t) : Implied(value', n) # None}
  /\ UNCHANGED <<fault, phase, frontier, visited, endSeen>>

\* One turn of the implication loop: to the inputs of t, then to its outputs.
\* (The order of the queue is left open.)
Imply(t) ==
  /\ phase = "imply"
  /\ t \in pending
  /\ value' = Forward(Backward(value, t), t)
  /\ pending' = (pending \ {t}) \union {n \in Nets(circuit) : value[n] = None /\ value'[n] # None}
  /\ UNCHANGED <<fault, phase, frontier, visited, endSeen>>

Finish ==
  /\ phase = "imply"
  /\ pending = {}
  /\ phase' = "done"
  /\ UNCHANGED <<fault, frontier, visited, endSeen, value, pending>>

Done == phase = "done" /\ UNCHANGED vars

Step == (\E t \in Nets(circuit) : Visit(t) \/ Imply(t)) \/ AssignSite \/ Finish
Next == Step \/ Done

Spec == Init /\ [][Next]_vars
FairSpec == Spec /\ WF_vars(Step)

-----------------------------------------------------------------------------
(* Properties *)

TypeOK ==
  /\ phase \in {"walk", "imply", "done"}
  /\ frontier \subseteq Nets(circuit)
  /\ visited \subseteq Nets(circuit)
  /\ endSeen \in BOOLEAN
  /\ value \in [Nets(circuit) -> Bits \union {None}]
  /\ pending \subseteq Nets(circuit)

\* Every value given to the solver is the value the net has in every test of
\* the fault, so adding it loses none.
EssentialHolds ==
  \A t \in fault.tests : \A n \in Nets(circuit) : value[n] \in {None, t.good[n]}

\* No implication is missed for having been tried before its last premise was
\* known: in the end no rule gives a value to a net that has none.
ImplicationsClosed ==
  phase = "done" =>
    \A n \in Nets(circuit) : value[n] = None =>
      /\ Implied(value, n) = None
      /\ \A t \in Outputs(circuit, n) : value[t] # None => BackImplied(value, t) = None

\* Both loops end, reconvergence and implication in both directions included.
Terminates == <>(phase = "done")
=============================================================================
