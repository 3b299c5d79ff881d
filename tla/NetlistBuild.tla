---------------------------- MODULE NetlistBuild ----------------------------
(***************************************************************************)
(* From a design to the circuit the analysis works on, step by step: the   *)
(* pins are connected one after the other (connection_n_signal), with      *)
(* branches behind the nets that are used more than once; then a design    *)
(* with flip-flops is expanded to two time frames, and the levels are      *)
(* computed.                                                               *)
(***************************************************************************)
EXTENDS Netlist, Functions

CONSTANT Designs   \* the designs read: see Netlist

\* A design as the parser delivers it.  It refuses a net with two drivers or a
\* driven input (analyze_asyntax_error).  What it takes on trust is asked of the
\* design: every net has a driver or is an input, ports are declared once, and
\* only flip-flops close a loop.
IsDesign(d) ==
  LET nets == 0 .. d.nets - 1 IN
  /\ d.nets \in Nat
  /\ d.pi \in Seq(nets) /\ d.po \in Seq(nets)
  /\ \A i, j \in DOMAIN d.pi : d.pi[i] = d.pi[j] => i = j
  /\ \A i, j \in DOMAIN d.po : d.po[i] = d.po[j] => i = j
  /\ d.gates \in Seq([type : (GateTypes \ {"FOUT"}) \union {"DFF"}, in : Seq(nets), out : nets])
  /\ \A g \in DOMAIN d.gates :
       /\ d.gates[g].in # <<>>
       /\ d.gates[g].type \in {"BUF", "INV", "DFF"} => Len(d.gates[g].in) = 1
       /\ d.gates[g].type \in {"EXOR", "EXNOR"} => Len(d.gates[g].in) = 2
       /\ \A h \in DOMAIN d.gates : d.gates[g].out = d.gates[h].out => g = h
  /\ \A n \in nets : IsInput(d, n) <=> \E i \in DOMAIN d.pi : d.pi[i] = n
  /\ \E rank \in [nets -> nets] :
       \A g \in DOMAIN d.gates : d.gates[g].type # "DFF" =>
         \A p \in DOMAIN d.gates[g].in : rank[d.gates[g].in[p]] < rank[d.gates[g].out]

ASSUME DesignsAssumption == \A d \in Designs : IsDesign(d)

VARIABLES
  design,   \* the design read
  module,   \* the module and
  pin,      \* its input pin to connect next
  circuit,  \* the nets as connected so far, in the end the finished circuit
  phase     \* "connect", "finish", "built"

vars == <<design, module, pin, circuit, phase>>

Init ==
  /\ design \in Designs
  /\ module = 1 /\ pin = 1
  /\ circuit = Unconnected(design)
  /\ phase = "connect"

Connect ==
  /\ phase = "connect"
  /\ module <= Len(design.gates)
  /\ circuit' = ConnectPin(design, circuit, <<module, pin>>)
  /\ IF pin < Len(design.gates[module].in)
     THEN pin' = pin + 1 /\ module' = module
     ELSE pin' = 1 /\ module' = module + 1
  /\ UNCHANGED <<design, phase>>

AllConnected ==
  /\ phase = "connect"
  /\ module > Len(design.gates)
  /\ phase' = "finish"
  /\ UNCHANGED <<design, module, pin, circuit>>

\* Flip-flops need the two frames, a circuit without any does not.
Finish ==
  /\ phase = "finish"
  /\ circuit' = IF FlipFlops(circuit) = <<>> THEN StuckAtCircuit(circuit) ELSE Expanded(circuit)
  /\ phase' = "built"
  /\ UNCHANGED <<design, module, pin>>

Built == phase = "built" /\ UNCHANGED vars

Next == Connect \/ AllConnected \/ Finish \/ Built

Spec == Init /\ [][Next]_vars

-----------------------------------------------------------------------------
(* Properties *)

\* The arrays allocated before connecting suffice for it: the net array for
\* every branch, and of each net's slots none is written twice (the loops that
\* look for a free slot do not stop at the end of the array); in the end none is
\* left empty.
ArraysSuffice ==
  LET full == phase = "finish"
      Fills(used, size) == used <= size /\ (full => used = size)
      named == 0 .. design.nets - 1
  IN phase # "built" =>
       /\ Cardinality(Nets(circuit)) <= AllocatedNets(design)
       /\ \A n \in named :
            /\ Fills(Len(circuit.out[n]), OutCount(design, n))
            /\ Fills(Len(circuit.in[n]), InCount(design, n))

\* What the analysis takes for granted of the finished circuit: both ends of an
\* edge agree, levels rise along it, an observed net leads nowhere, and every
\* net without a driver is an input.
BuildsWellFormed == phase = "built" => WellFormed(circuit) /\ InputsListed(circuit)

\* Bits for the nets of a list, those of a pattern from a place on.
Assigned(list, bits, from) ==
  [n \in Range(list) |-> bits[from + CHOOSE i \in DOMAIN list : list[i] = n]]

\* The values of one clock cycle of the design, from its inputs p and state s.
Plain(d) == [ type |-> Unconnected(d).type, in |-> [n \in 0 .. d.nets - 1 |-> DrivenBy(d, n)] ]
Cycle(d, p, s) == Values(Plain(d), p, s)

\* The flip-flops of a design, in the order of their nets, and what they
\* capture at the end of a cycle.
States(d) == FlipFlops(Unconnected(d))
Captured(d, cycle) == [n \in Range(States(d)) |-> cycle[DrivenBy(d, n)[1]]]

\* The finished circuit does what the design does in its clock cycles: from
\* every input and every state, what is observed is the outputs' values or,
\* with flip-flops, the state captured at the end of the second of two cycles
\* on the same input; and a transition fault's excitation reads the first.
ObservesDesign ==
  phase = "built" =>
    LET ff == States(design)
    IN \A bits \in [1 .. Len(circuit.pi) -> Bits] :
         LET v == Values(circuit, Assigned(circuit.pi, bits, 0), <<>>)
             p == Assigned(design.pi, bits, 0)
             cycle1 == Cycle(design, p, Assigned(ff, bits, Len(design.pi)))
             cycle2 == Cycle(design, p, Captured(design, cycle1))
         IN IF ff = <<>>
            THEN [i \in DOMAIN design.po |-> v[circuit.observed[i]]] = [i \in DOMAIN design.po |-> cycle1[design.po[i]]]
            ELSE /\ [i \in DOMAIN ff |-> v[circuit.observed[i]]] = [i \in DOMAIN ff |-> Captured(design, cycle2)[ff[i]]]
                 /\ \A n \in 0 .. design.nets - 1 :
                      /\ v[Frame1(Unconnected(design), n)] = cycle1[n]
                      /\ v[Frame2(Unconnected(design), n)] = cycle2[n]
=============================================================================
