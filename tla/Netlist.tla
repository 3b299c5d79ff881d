------------------------------- MODULE Netlist -------------------------------
(***************************************************************************)
(* From a design, the modules the parser has read, to the circuit the      *)
(* program works on: the connection of the signals with their fan-out      *)
(* branches (netlist.c), the two time frames of a transition fault         *)
(* (expand_tdf.c) and the levels (context.c).                              *)
(*                                                                         *)
(* A design is a record: the number of nets the parser knows, the nets of  *)
(* its inputs, its modules [type, in, out], and its outputs.  The parser   *)
(* itself is text handling and left out.                                   *)
(***************************************************************************)
EXTENDS Circuit, FiniteSetsExt

\* All input pins of a design: module, pin.
Pins(d) == UNION {{g} \X DOMAIN d.gates[g].in : g \in DOMAIN d.gates}

Source(d, pin) == d.gates[pin[1]].in[pin[2]]
Sink(d, pin) == d.gates[pin[1]].out

\* Uses of a net, counting the output port of a net that is also used inside.
Uses(d, n) == Cardinality({pin \in Pins(d) : Source(d, pin) = n})
UsesOnly(d, n) == Uses(d, n)   \* mutant: an output port is not counted as a use
OutCount(d, n) ==
  Uses(d, n) + (IF Uses(d, n) >= 1 /\ \E k \in DOMAIN d.po : d.po[k] = n THEN 1 ELSE 0)

\* The module that drives a net; an input has none.
IsInput(d, n) == \A g \in DOMAIN d.gates : d.gates[g].out # n
Driver(d, n) == CHOOSE g \in DOMAIN d.gates : d.gates[g].out = n
DrivenBy(d, n) == IF IsInput(d, n) THEN <<>> ELSE d.gates[Driver(d, n)].in
InCount(d, n) == Len(DrivenBy(d, n))

\* Room for the nets, reserved before any branch is made (alloc_nl).
AllocatedNets(d) == Len(d.pi) + Len(d.po) + Len(d.gates) + Cardinality(Pins(d))

\* Nothing connected yet.
Unconnected(d) ==
  LET nets == 0 .. d.nets - 1
  IN [ type |-> [n \in nets |-> IF IsInput(d, n) THEN "IN" ELSE d.gates[Driver(d, n)].type],
       in   |-> [n \in nets |-> <<>>],
       out  |-> [n \in nets |-> <<>>],
       pi   |-> d.pi,
       po   |-> d.po ]

Wire(c, from, to) ==
  [c EXCEPT !.out[from] = Append(@, to), !.in[to] = Append(@, from)]

\* A new branch behind the stem; its number is the next free one.
Branch(c, stem) ==
  LET new == Cardinality(Nets(c))
      More(f, x) == [n \in Nets(c) \union {new} |-> IF n = new THEN x ELSE f[n]]
  IN Wire([c EXCEPT !.type = More(@, "FOUT"), !.in = More(@, <<>>), !.out = More(@, <<>>)], stem, new)
LastNet(c) == Cardinality(Nets(c)) - 1

\* Mutant: the output port gets another branch with every pin of the net.
BranchToPortAgain(c, stem) ==
  IF \E k \in DOMAIN c.po : c.po[k] = stem \/ stem \in Inputs(c, c.po[k])
  THEN Branch(c, stem)
  ELSE c

\* The output port moves to a branch of its own, once.
BranchToPort(c, stem) ==
  IF \E k \in DOMAIN c.po : c.po[k] = stem
  THEN LET b == Branch(c, stem)
           k == CHOOSE k \in DOMAIN c.po : c.po[k] = stem
       IN [b EXCEPT !.po[k] = LastNet(b)]
  ELSE c

\* One pin: a direct edge, or a branch when the source has several uses.
ConnectPin(d, c, pin) ==
  LET stem == Source(d, pin) IN
  IF OutCount(d, stem) = 1
  THEN Wire(c, stem, Sink(d, pin))
  ELSE LET b == Branch(c, stem)
       IN BranchToPort(Wire(b, LastNet(b), Sink(d, pin)), stem)

-----------------------------------------------------------------------------
\* The longest distance from an input.
Levels(c) ==
  LET level[n \in Nets(c)] ==
        IF c.type[n] = "IN" THEN 0 ELSE 1 + Max({level[m] : m \in Inputs(c, n)})
  IN level

\* The circuit of stuck-at faults: one frame, observed at the outputs.
StuckAtCircuit(c) ==
  [ type |-> c.type, in |-> c.in, out |-> c.out, level |-> Levels(c),
    first |-> [n \in Nets(c) |-> None], pi |-> c.pi, observed |-> c.po ]

\* Numbers of the copies of a net: an input has one, any other net two.
Frame1(c, n) == n + Cardinality({m \in 0 .. n - 1 : c.type[m] # "IN"})
Frame2(c, n) == IF c.type[n] = "IN" THEN Frame1(c, n) ELSE Frame1(c, n) + 1
FirstFrame(c, n, frame) == Frame1(c, n)   \* mutant: edges in frame 2 lead to frame 1
Frame(c, n, frame) == IF frame = 1 THEN Frame1(c, n) ELSE Frame2(c, n)

\* The elements of a sequence that are in a set, in their order.
Filtered(s, set) ==
  LET places == {k \in DOMAIN s : s[k] \in set}
  IN [i \in 1 .. Cardinality(places) |-> s[CHOOSE k \in places : Position(k, places) = i]]

\* Outputs in the copy of a frame; an edge into a flip-flop leads from frame
\* 1 to the copy of the flip-flop in frame 2, and is dropped in frame 2.
FrameOutputs(c, n, frame) ==
  LET kept == Filtered(c.out[n], {m \in Nets(c) : c.type[m] # "DFF" \/ frame = 1})
  IN [k \in 1 .. Len(kept) |->
        IF c.type[kept[k]] = "DFF" THEN Frame2(c, kept[k]) ELSE Frame(c, kept[k], frame)]

FrameInputs(c, n, frame) == [j \in 1 .. Len(c.in[n]) |-> Frame(c, c.in[n][j], frame)]

FlipFlops(c) == Filtered([i \in 1 .. Cardinality(Nets(c)) |-> i - 1], {n \in Nets(c) : c.type[n] = "DFF"})

\* The circuit of transition faults (expand_tdf_netlist).  The state is a free
\* input of frame 1; frame 2 takes it over from the flip-flops' data inputs,
\* and is observed there only.
Expanded(c) ==
  LET Copies(n) == {Frame1(c, n), Frame2(c, n)}
      size == Frame1(c, Cardinality(Nets(c)))
      original == [k \in 0 .. size - 1 |-> CHOOSE n \in Nets(c) : k \in Copies(n)]
      InFrame1(k) == k = Frame1(c, original[k])
      IsState(k) == c.type[original[k]] = "DFF"
      Type(k) == IF ~ IsState(k) THEN c.type[original[k]] ELSE IF InFrame1(k) THEN "IN" ELSE "BUF"
      In(k) == IF Type(k) = "IN" THEN <<>>
               ELSE FrameInputs(c, original[k], IF IsState(k) \/ InFrame1(k) THEN 1 ELSE 2)
      Out(k) == IF c.type[original[k]] = "IN"
                THEN FrameOutputs(c, original[k], 1) \o FrameOutputs(c, original[k], 2)
                ELSE FrameOutputs(c, original[k], IF InFrame1(k) THEN 1 ELSE 2)
      states == FlipFlops(c)
      frames == [ type |-> [k \in 0 .. size - 1 |-> Type(k)],
                  in   |-> [k \in 0 .. size - 1 |-> In(k)],
                  out  |-> [k \in 0 .. size - 1 |-> Out(k)] ]
  IN [ type |-> frames.type, in |-> frames.in, out |-> frames.out, level |-> Levels(frames),
       first |-> [k \in 0 .. size - 1 |->
                    IF InFrame1(k) /\ c.type[original[k]] # "IN" THEN None
                    ELSE Frame1(c, original[k])],
       pi |-> [i \in DOMAIN c.pi |-> Frame1(c, c.pi[i])]
              \o [i \in DOMAIN states |-> Frame1(c, states[i])],
       observed |-> [i \in DOMAIN states |-> Frame2(c, c.in[states[i]][1])] ]
=============================================================================
