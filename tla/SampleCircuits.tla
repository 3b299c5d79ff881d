--------------------------- MODULE SampleCircuits ---------------------------
(* A few small circuits, each chosen for one way in which paths of a fault *)
(* meet, part or end early.                                                *)
EXTENDS Netlist, SequencesExt

Gate(type, in, out) == [type |-> type, in |-> in, out |-> out]

\* Paths that meet again, in a gate and in an exclusive or.
Reconvergent ==
  [ nets |-> 8, pi |-> <<0, 1, 2>>, po |-> <<7>>,
    gates |-> << Gate("NAND", <<0, 1>>, 3), Gate("INV", <<3>>, 4), Gate("AND", <<3, 2>>, 5),
                 Gate("NOR", <<4, 5>>, 6), Gate("EXOR", <<6, 2>>, 7) >> ]

\* A path that ends at an output before the others do.
EarlyOutput ==
  [ nets |-> 8, pi |-> <<0, 1, 2>>, po |-> <<3, 7>>,
    gates |-> << Gate("OR", <<0, 1>>, 3), Gate("BUF", <<3>>, 4), Gate("INV", <<2>>, 5),
                 Gate("AND", <<4, 5>>, 6), Gate("INV", <<6>>, 7) >> ]

\* A chain of gates every test must pass, with side inputs that share a source.
Chain ==
  [ nets |-> 9, pi |-> <<0, 1, 2, 3>>, po |-> <<8>>,
    gates |-> << Gate("AND", <<0, 1>>, 4), Gate("EXNOR", <<4, 2>>, 5), Gate("NOR", <<2, 3>>, 6),
                 Gate("OR", <<5, 6>>, 7), Gate("NAND", <<7, 3>>, 8) >> ]

\* Wide gates over the same branches: a value is demanded from two sides.
Branches ==
  [ nets |-> 8, pi |-> <<0, 1, 2, 3>>, po |-> <<4, 7>>,
    gates |-> << Gate("NAND", <<0, 3, 2>>, 4), Gate("AND", <<2, 0, 3>>, 5), Gate("OR", <<3, 5>>, 6),
                 Gate("OR", <<6, 5>>, 7) >> ]

\* A path that splits and meets itself inverted, beside one that ends.
Diamond ==
  [ nets |-> 8, pi |-> <<0, 1, 2>>, po |-> <<4, 7>>,
    gates |-> << Gate("NOR", <<0, 2, 1>>, 3), Gate("AND", <<0, 1, 2>>, 4), Gate("AND", <<3, 2>>, 5),
                 Gate("INV", <<5>>, 6), Gate("NAND", <<6, 3>>, 7) >> ]

\* Two flip-flops; one captures an input, and an output is not observed.
Sequential ==
  [ nets |-> 6, pi |-> <<0, 1>>, po |-> <<5>>,
    gates |-> << Gate("NAND", <<1, 3>>, 4), Gate("DFF", <<4>>, 2), Gate("DFF", <<0>>, 3),
                 Gate("OR", <<2, 4>>, 5) >> ]

\* Inverters and buffers around two flip-flops in a row.
Shift ==
  [ nets |-> 6, pi |-> <<0>>, po |-> <<5>>,
    gates |-> << Gate("INV", <<0>>, 1), Gate("DFF", <<1>>, 2), Gate("BUF", <<2>>, 3),
                 Gate("DFF", <<3>>, 4), Gate("INV", <<4>>, 5) >> ]

\* All pins connected, module by module.
Connected(d) ==
  LET order == FlattenSeq([g \in DOMAIN d.gates |-> [p \in DOMAIN d.gates[g].in |-> <<g, p>>]])
  IN FoldLeft(LAMBDA c, pin : ConnectPin(d, c, pin), Unconnected(d), order)

StuckAt(d) == StuckAtCircuit(Connected(d))
Transition(d) == Expanded(Connected(d))
=============================================================================
