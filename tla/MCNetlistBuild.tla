--------------------------- MODULE MCNetlistBuild ---------------------------
(* NetlistBuild on designs of one or two inputs and two or three modules,  *)
(* NAND gates, inverters and flip-flops in any arrangement without a cycle *)
(* of gates, with every choice of outputs.                                 *)
EXTENDS NetlistBuild

\* Modules that drive net "out" of n nets; gates read lower nets or flip-flops.
Modules(n, out) ==
  LET all == 0 .. n - 1
  IN [type : {"NAND"}, in : {<<a, b>> : a, b \in all}, out : {out}]
     \union [type : {"INV", "DFF"}, in : {<<a>> : a \in all}, out : {out}]

\* Every input is used, and only flip-flops close a loop.
Sensible(gates, inputs) ==
  /\ inputs \subseteq UNION {Range(gates[g].in) : g \in DOMAIN gates}
  /\ \A g \in DOMAIN gates : gates[g].type # "DFF" =>
       \A m \in Range(gates[g].in) :
         m < gates[g].out \/ \E h \in DOMAIN gates : gates[h].out = m /\ gates[h].type = "DFF"

Outputs2(n) == {<<n - 2>>, <<n - 1>>, <<n - 2, n - 1>>}

MCDesigns ==
  { [nets |-> 4, pi |-> <<0, 1>>, gates |-> g, po |-> po] :
      g \in {m \in Modules(4, 2) \X Modules(4, 3) : Sensible(m, {0, 1})}, po \in Outputs2(4) }
  \union
  { [nets |-> 4, pi |-> <<0>>, gates |-> g, po |-> po] :
      g \in {m \in Modules(4, 3) \X Modules(4, 1) \X Modules(4, 2) : Sensible(m, {0})},
      po \in Outputs2(4) }
=============================================================================
