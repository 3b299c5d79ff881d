---------------------------- MODULE NetlistProofs ----------------------------
(***************************************************************************)
(* What NetlistBuild builds is right, for every design.  The argument:     *)
(* Assembled(d, c, D, P) describes the circuit c when exactly the pins D   *)
(* are connected and exactly the output ports P have moved to a branch:    *)
(* every connected pin is fed by its source or by a branch of its own, a   *)
(* branch leads to one place, and a net has one output for every use so    *)
(* far.  Every pin adds itself to D and the port of its source to P        *)
(* (ConnectKeeps), so BuildInv is inductive.  It bounds the arrays, and    *)
(* with all pins connected it makes the circuit Joined, which the finished *)
(* one is well formed from: ranks give levels, and the numbers of the      *)
(* copies give two frames that agree at both ends of every edge.           *)
(***************************************************************************)
EXTENDS NetlistBuild, CircuitProofs, SequenceTheorems

\* A circuit as Netlist's operators update it, a record of functions.
Recorded(c) ==
  /\ c = [type |-> c.type, in |-> c.in, out |-> c.out, pi |-> c.pi, po |-> c.po]
  /\ c.type = [n \in Nets(c) |-> c.type[n]]
  /\ c.in = [n \in Nets(c) |-> c.in[n]]
  /\ c.out = [n \in Nets(c) |-> c.out[n]]

\* A circuit with other types.
LEMMA PutType ==
  \A r, t, i, o, a, b, x : r = [type |-> t, in |-> i, out |-> o, pi |-> a, po |-> b] =>
    [r EXCEPT !.type = x] = [type |-> x, in |-> i, out |-> o, pi |-> a, po |-> b]
OBVIOUS

\* A circuit with other input lists.
LEMMA PutIn ==
  \A r, t, i, o, a, b, x : r = [type |-> t, in |-> i, out |-> o, pi |-> a, po |-> b] =>
    [r EXCEPT !.in = x] = [type |-> t, in |-> x, out |-> o, pi |-> a, po |-> b]
OBVIOUS

\* A circuit with other output lists.
LEMMA PutOut ==
  \A r, t, i, o, a, b, x : r = [type |-> t, in |-> i, out |-> o, pi |-> a, po |-> b] =>
    [r EXCEPT !.out = x] = [type |-> t, in |-> i, out |-> x, pi |-> a, po |-> b]
OBVIOUS

\* A circuit with other outputs.
LEMMA PutPo ==
  \A r, t, i, o, a, b, x : r = [type |-> t, in |-> i, out |-> o, pi |-> a, po |-> b] =>
    [r EXCEPT !.po = x] = [type |-> t, in |-> i, out |-> o, pi |-> a, po |-> x]
OBVIOUS

\* w is c with one more edge.
IsWired(w, c, from, to) ==
  /\ Recorded(w)
  /\ w.type = c.type /\ w.pi = c.pi /\ w.po = c.po
  /\ w.in = [n \in Nets(c) |-> IF n = to THEN Append(c.in[n], from) ELSE c.in[n]]
  /\ w.out = [n \in Nets(c) |-> IF n = from THEN Append(c.out[n], to) ELSE c.out[n]]

\* Wire, field by field.
LEMMA WireFields ==
  ASSUME NEW c, Recorded(c), NEW from \in Nets(c), NEW to \in Nets(c)
  PROVE  IsWired(Wire(c, from, to), c, from, to)
<1> DEFINE t == c.type
           i == c.in
           o == c.out
           a == c.pi
           b == c.po
           i2 == [n \in Nets(c) |-> IF n = to THEN Append(i[n], from) ELSE i[n]]
           o2 == [n \in Nets(c) |-> IF n = from THEN Append(o[n], to) ELSE o[n]]
<1>0. c = [type |-> t, in |-> i, out |-> o, pi |-> a, po |-> b]
  BY DEF Recorded
<1>1. t = [n \in Nets(c) |-> t[n]] /\ i = [n \in Nets(c) |-> i[n]] /\ o = [n \in Nets(c) |-> o[n]]
  BY DEF Recorded
<1>2. Wire(c, from, to) = [c EXCEPT !.out = o2, !.in = i2]
  BY <1>1 DEF Wire
<1>3. [c EXCEPT !.out = o2, !.in = i2] = [type |-> t, in |-> i2, out |-> o2, pi |-> a, po |-> b]
  <2> HIDE DEF i2, o2, t, i, o, a, b
  <2> DEFINE r == [c EXCEPT !.out = o2]
  <2>1. r = [type |-> t, in |-> i, out |-> o2, pi |-> a, po |-> b]
    BY <1>0, PutOut
  <2> HIDE DEF r
  <2>2. [r EXCEPT !.in = i2] = [type |-> t, in |-> i2, out |-> o2, pi |-> a, po |-> b]
    BY <2>1, PutIn
  <2> QED BY <2>2 DEF r
<1>4. Wire(c, from, to) = [type |-> t, in |-> i2, out |-> o2, pi |-> a, po |-> b]
  BY <1>2, <1>3
<1>5. Nets(Wire(c, from, to)) = Nets(c)
  BY <1>4 DEF Nets
<1> HIDE DEF t, a, b
<1> QED BY <1>0, <1>1, <1>4, <1>5 DEF Recorded, IsWired, t, a, b

\* w is c with a branch "new" behind a stem.
IsBranched(w, c, stem, new) ==
  /\ Recorded(w)
  /\ Nets(w) = Nets(c) \union {new}
  /\ LastNet(w) = new
  /\ w.type = [n \in Nets(c) \union {new} |-> IF n = new THEN "FOUT" ELSE c.type[n]]
  /\ w.pi = c.pi
  /\ w.po = c.po
  /\ w.in = [n \in Nets(c) \union {new} |-> IF n = new THEN <<stem>> ELSE c.in[n]]
  /\ w.out = [n \in Nets(c) \union {new} |->
               IF n = new THEN <<>> ELSE IF n = stem THEN Append(c.out[n], new) ELSE c.out[n]]

\* Branch, field by field.
LEMMA BranchFields ==
  ASSUME NEW c, Recorded(c), IsFiniteSet(Nets(c)), NEW stem \in Nets(c),
         NEW new, new = Cardinality(Nets(c)), new \notin Nets(c)
  PROVE  IsBranched(Branch(c, stem), c, stem, new)
<1> DEFINE N == Nets(c) \union {new}
           More(f, x) == [n \in N |-> IF n = new THEN x ELSE f[n]]
           t == c.type
           i == c.in
           o == c.out
           a == c.pi
           b == c.po
           t2 == More(t, "FOUT")
           i2 == More(i, <<>>)
           o2 == More(o, <<>>)
           r1 == [c EXCEPT !.type = t2]
           r2 == [r1 EXCEPT !.in = i2]
           r3 == [r2 EXCEPT !.out = o2]
<1>1. Branch(c, stem) = Wire([c EXCEPT !.type = t2, !.in = i2, !.out = o2], stem, new)
  BY DEF Branch
<1>2. [c EXCEPT !.type = t2, !.in = i2, !.out = o2] = r3
  OBVIOUS
<1>3. r3 = [type |-> t2, in |-> i2, out |-> o2, pi |-> a, po |-> b]
  <2>1. c = [type |-> t, in |-> i, out |-> o, pi |-> a, po |-> b]
    BY DEF Recorded
  <2> HIDE DEF t, i, o, a, b, t2, i2, o2
  <2>2. r1 = [type |-> t2, in |-> i, out |-> o, pi |-> a, po |-> b]
    BY <2>1, PutType
  <2> HIDE DEF r1
  <2>3. r2 = [type |-> t2, in |-> i2, out |-> o, pi |-> a, po |-> b]
    BY <2>2, PutIn
  <2> HIDE DEF r2
  <2> QED BY <2>3, PutOut
<1> HIDE DEF r3
<1>4. /\ r3.type = t2 /\ r3.in = i2 /\ r3.out = o2 /\ r3.pi = a /\ r3.po = b
  BY <1>3
<1>5. Nets(r3) = N
  BY <1>4 DEF Nets
<1>6. Recorded(r3)
  <2>1. r3 = [type |-> r3.type, in |-> r3.in, out |-> r3.out, pi |-> r3.pi, po |-> r3.po]
    BY <1>3, <1>4
  <2> QED BY <1>4, <1>5, <2>1 DEF Recorded
<1> DEFINE w == Wire(r3, stem, new)
<1>7. /\ Recorded(w) /\ w.type = t2 /\ w.pi = a /\ w.po = b
      /\ w.in = [n \in N |-> IF n = new THEN Append(i2[n], stem) ELSE i2[n]]
      /\ w.out = [n \in N |-> IF n = stem THEN Append(o2[n], new) ELSE o2[n]]
  <2>1. stem \in Nets(r3) /\ new \in Nets(r3)
    BY <1>5
  <2>2. /\ Recorded(w) /\ w.type = r3.type /\ w.pi = r3.pi /\ w.po = r3.po
        /\ w.in = [n \in Nets(r3) |-> IF n = new THEN Append(r3.in[n], stem) ELSE r3.in[n]]
        /\ w.out = [n \in Nets(r3) |-> IF n = stem THEN Append(r3.out[n], new) ELSE r3.out[n]]
    <3>1. IsWired(w, r3, stem, new)
      BY <1>6, <2>1, WireFields
    <3> QED BY <3>1 DEF IsWired
  <2> HIDE DEF t2, i2, o2, a, b, N, w
  <2> QED BY <1>4, <1>5, <2>2
<1>8. Branch(c, stem) = w
  BY <1>1, <1>2
<1> HIDE DEF w
<1>9. Nets(w) = N
  BY <1>7 DEF Nets
<1>10. w.in = [n \in N |-> IF n = new THEN <<stem>> ELSE i[n]]
  <2>1. Append(<<>>, stem) = <<stem>>
    OBVIOUS
  <2> QED BY <1>7, <2>1
<1>11. w.out = [n \in N |-> IF n = new THEN <<>> ELSE IF n = stem THEN Append(o[n], new) ELSE o[n]]
  BY <1>7
<1>12. LastNet(w) = new
  <2>1. Cardinality(N) = Cardinality(Nets(c)) + 1 /\ Cardinality(Nets(c)) \in Nat
    BY FS_AddElement, FS_CardinalityType
  <2> QED BY <1>9, <2>1 DEF LastNet
<1> QED BY <1>7, <1>8, <1>9, <1>10, <1>11, <1>12 DEF IsBranched

-----------------------------------------------------------------------------
(* Sequences *)

\* A list with one element more, place by place.
LEMMA Appended ==
  ASSUME NEW S, NEW T, S \subseteq T, NEW s \in Seq(S), NEW x \in T, NEW m, m = Append(s, x)
  PROVE  /\ m \in Seq(T)
         /\ Len(s) \in Nat /\ DOMAIN s = 1 .. Len(s)
         /\ Len(m) = Len(s) + 1
         /\ DOMAIN m = DOMAIN s \union {Len(s) + 1}
         /\ Len(s) + 1 \notin DOMAIN s
         /\ \A i \in DOMAIN s : m[i] = s[i] /\ s[i] \in S
         /\ m[Len(s) + 1] = x
<1>1. Len(s) \in Nat /\ DOMAIN s = 1 .. Len(s) /\ \A i \in DOMAIN s : s[i] \in S
  OBVIOUS
<1>2. s \in Seq(T)
  OBVIOUS
<1>3. /\ m \in Seq(T) /\ Len(m) = Len(s) + 1
      /\ \A i \in 1 .. Len(s) : m[i] = s[i]
      /\ m[Len(s) + 1] = x
  BY <1>2, AppendProperties
<1>4. DOMAIN m = 1 .. Len(s) + 1
  BY <1>3
<1>5. 1 .. Len(s) + 1 = (1 .. Len(s)) \union {Len(s) + 1} /\ Len(s) + 1 \notin 1 .. Len(s)
  BY <1>1
<1> QED BY <1>1, <1>3, <1>4, <1>5

\* A list with one element more has one element more.
LEMMA AppendedIn ==
  ASSUME NEW T, NEW s \in Seq(T), NEW x \in T
  PROVE  Append(s, x) \in Seq(T) /\ Range(Append(s, x)) = Range(s) \union {x}
<1> DEFINE m == Append(s, x)
<1>1. Len(s) \in Nat /\ DOMAIN s = 1 .. Len(s)
  OBVIOUS
<1>3. /\ m \in Seq(T) /\ Len(m) = Len(s) + 1
      /\ \A i \in 1 .. Len(s) : m[i] = s[i]
      /\ m[Len(s) + 1] = x
  BY AppendProperties
<1> HIDE DEF m
<1>4. DOMAIN m = 1 .. Len(s) + 1
  BY <1>3
<1>5. 1 .. Len(s) + 1 = (1 .. Len(s)) \union {Len(s) + 1}
  BY <1>1
<1>6. Range(m) = Range(s) \union {x}
  BY <1>1, <1>3, <1>4, <1>5 DEF Range
<1> QED BY <1>3, <1>6 DEF m

-----------------------------------------------------------------------------
(* Designs *)

\* The nets of the design; all others are branches.
Named(d) == 0 .. d.nets - 1

\* Part of IsDesign, in the form the steps use.
Readable(d) ==
  /\ d.nets \in Nat /\ IsFiniteSet(Named(d)) /\ Cardinality(Named(d)) = d.nets
  /\ d.pi \in Seq(Named(d)) /\ d.po \in Seq(Named(d))
  /\ \A g \in DOMAIN d.gates :
       /\ d.gates[g].in \in Seq(Named(d)) /\ d.gates[g].in # <<>>
       /\ d.gates[g].out \in Named(d)
       /\ d.gates[g].type \in (GateTypes \ {"FOUT"}) \union {"DFF"}
  /\ \A g, h \in DOMAIN d.gates : d.gates[g].out = d.gates[h].out => g = h

\* The numbers below n are n numbers.
LEMMA NumbersBelow ==
  ASSUME NEW n \in Nat
  PROVE  IsFiniteSet(0 .. n - 1) /\ Cardinality(0 .. n - 1) = n
<1> DEFINE b == n - 1
<1>1. b \in Int /\ (0 > b <=> n = 0) /\ (IF 0 > b THEN 0 ELSE b - 0 + 1) = n
  OBVIOUS
<1> HIDE DEF b
<1>2. IsFiniteSet(0 .. b) /\ Cardinality(0 .. b) = (IF 0 > b THEN 0 ELSE b - 0 + 1)
  BY <1>1, FS_Interval
<1> QED BY <1>1, <1>2 DEF b

\* What the steps use of a design.
LEMMA DesignRead ==
  ASSUME NEW d, IsDesign(d)
  PROVE  /\ Readable(d)
         /\ \A q \in Pins(d) : /\ q = <<q[1], q[2]>> /\ q[1] \in DOMAIN d.gates
                              /\ q[2] \in DOMAIN d.gates[q[1]].in
                              /\ Source(d, q) \in Named(d) /\ Sink(d, q) \in Named(d)
         /\ \A g \in DOMAIN d.gates, p \in Nat : p \in DOMAIN d.gates[g].in => <<g, p>> \in Pins(d)
         /\ DOMAIN d.gates = 1 .. Len(d.gates) /\ Len(d.gates) \in Nat
<1>1. Readable(d)
  <2>1. IsFiniteSet(Named(d)) /\ Cardinality(Named(d)) = d.nets
    <3>1. d.nets \in Nat
      BY DEF IsDesign
    <3> QED BY <3>1, NumbersBelow DEF Named
  <2>2. ASSUME NEW g \in DOMAIN d.gates
        PROVE  /\ d.gates[g].type \in (GateTypes \ {"FOUT"}) \union {"DFF"}
               /\ d.gates[g].in \in Seq(Named(d)) /\ d.gates[g].out \in Named(d)
    <3> DEFINE R == [type : (GateTypes \ {"FOUT"}) \union {"DFF"}, in : Seq(Named(d)), out : Named(d)]
    <3>1. d.gates \in Seq(R)
      BY DEF IsDesign, Named
    <3>2. d.gates[g] \in R
      <4> HIDE DEF R
      <4> QED BY <3>1
    <3> QED BY <3>2
  <2>3. d.pi \in Seq(Named(d)) /\ d.po \in Seq(Named(d)) /\ d.nets \in Nat
    BY DEF IsDesign, Named
  <2>4. /\ \A g \in DOMAIN d.gates : d.gates[g].in # <<>>
        /\ \A g, h \in DOMAIN d.gates : d.gates[g].out = d.gates[h].out => g = h
    BY DEF IsDesign
  <2> HIDE DEF Named
  <2> QED BY <2>1, <2>2, <2>3, <2>4 DEF Readable
<1>2. \A q \in Pins(d) : q = <<q[1], q[2]>> /\ q[1] \in DOMAIN d.gates /\ q[2] \in DOMAIN d.gates[q[1]].in
  BY DEF Pins
<1>3. \A q \in Pins(d) : Source(d, q) \in Named(d) /\ Sink(d, q) \in Named(d)
  BY <1>1, <1>2 DEF Source, Sink, Readable
<1>4. \A g \in DOMAIN d.gates, p \in Nat : p \in DOMAIN d.gates[g].in => <<g, p>> \in Pins(d)
  BY DEF Pins
<1>5. DOMAIN d.gates = 1 .. Len(d.gates) /\ Len(d.gates) \in Nat
  BY DEF IsDesign
<1> QED BY <1>1, <1>2, <1>3, <1>4, <1>5

\* What the steps use of a pin.
LEMMA PinRead ==
  ASSUME NEW d, IsDesign(d), NEW q \in Pins(d)
  PROVE  /\ q[1] \in DOMAIN d.gates /\ q[1] \in Nat /\ q[2] \in DOMAIN d.gates[q[1]].in /\ q[2] \in Nat
         /\ Source(d, q) = d.gates[q[1]].in[q[2]] /\ Source(d, q) \in Named(d)
         /\ Sink(d, q) = d.gates[q[1]].out /\ Sink(d, q) \in Named(d)
         /\ \A g, p : <<g, p>> = q <=> g = q[1] /\ p = q[2]
<1>1. q = <<q[1], q[2]>> /\ q[1] \in DOMAIN d.gates /\ q[2] \in DOMAIN d.gates[q[1]].in
  BY DEF Pins
<1>2. Source(d, q) \in Named(d) /\ Sink(d, q) \in Named(d)
  BY DesignRead
<1>3. q[1] \in Nat
  <2>1. DOMAIN d.gates = 1 .. Len(d.gates) /\ Len(d.gates) \in Nat
    BY DesignRead
  <2> QED BY <1>1, <2>1
<1>4. q[2] \in Nat
  <2>1. d.gates[q[1]].in \in Seq(Named(d))
    BY <1>1, DesignRead DEF Readable
  <2>2. \A l \in Seq(Named(d)) : \A i \in DOMAIN l : i \in Nat
    OBVIOUS
  <2> QED BY <1>1, <2>1, <2>2
<1>5. ASSUME NEW g, NEW p PROVE <<g, p>> = q <=> g = q[1] /\ p = q[2]
  <2> DEFINE x == q[1]
             y == q[2]
  <2>1. q = <<x, y>>
    BY <1>1
  <2> HIDE DEF x, y
  <2>2. <<g, p>> = <<x, y>> <=> g = x /\ p = y
    OBVIOUS
  <2> QED BY <2>1, <2>2 DEF x, y
<1> QED BY <1>1, <1>2, <1>3, <1>4, <1>5 DEF Source, Sink

\* What the steps use of a module.
LEMMA GateRead ==
  ASSUME NEW d, IsDesign(d), NEW g \in DOMAIN d.gates
  PROVE  /\ d.gates[g].in \in Seq(Named(d)) /\ d.gates[g].in # <<>>
         /\ d.gates[g].out \in Named(d) /\ ~ IsInput(d, d.gates[g].out)
         /\ d.gates[g].type \in (GateTypes \ {"FOUT"}) \union {"DFF"}
         /\ \A h \in DOMAIN d.gates : d.gates[g].out = d.gates[h].out => g = h
<1>1. Readable(d)
  BY DesignRead
<1> QED BY <1>1 DEF Readable, IsInput

-----------------------------------------------------------------------------
(* The three ways the circuit grows *)

\* w is c with a direct edge.
Direct(w, c, stem, sink) ==
  /\ Recorded(w) /\ Nets(w) = Nets(c)
  /\ w.type = c.type /\ w.pi = c.pi /\ w.po = c.po
  /\ w.in[sink] = Append(c.in[sink], stem)
  /\ \A n \in Nets(c) \ {sink} : w.in[n] = c.in[n]
  /\ w.out[stem] = Append(c.out[stem], sink)
  /\ \A n \in Nets(c) \ {stem} : w.out[n] = c.out[n]

\* w is c with a branch that leads to a pin.
ViaBranch(w, c, stem, sink, new) ==
  /\ Recorded(w) /\ Nets(w) = Nets(c) \union {new}
  /\ w.pi = c.pi /\ w.po = c.po
  /\ w.type[new] = "FOUT" /\ w.in[new] = <<stem>> /\ w.out[new] = <<sink>>
  /\ \A n \in Nets(c) : w.type[n] = c.type[n]
  /\ w.in[sink] = Append(c.in[sink], new)
  /\ \A n \in Nets(c) \ {sink} : w.in[n] = c.in[n]
  /\ w.out[stem] = Append(c.out[stem], new)
  /\ \A n \in Nets(c) \ {stem} : w.out[n] = c.out[n]

\* w is c with a branch that an output port moves to.
ToPort(w, c, stem, port, new) ==
  /\ Recorded(w) /\ Nets(w) = Nets(c) \union {new}
  /\ w.pi = c.pi /\ w.po = [c.po EXCEPT ![port] = new]
  /\ w.type[new] = "FOUT" /\ w.in[new] = <<stem>> /\ w.out[new] = <<>>
  /\ \A n \in Nets(c) : w.type[n] = c.type[n]
  /\ \A n \in Nets(c) : w.in[n] = c.in[n]
  /\ w.out[stem] = Append(c.out[stem], new)
  /\ \A n \in Nets(c) \ {stem} : w.out[n] = c.out[n]

\* A net with one use is wired to it (no_fout).
LEMMA DirectStep ==
  ASSUME NEW c, Recorded(c), NEW stem \in Nets(c), NEW sink \in Nets(c)
  PROVE  Direct(Wire(c, stem, sink), c, stem, sink)
<1> DEFINE w == Wire(c, stem, sink)
<1>1. IsWired(w, c, stem, sink)
  BY WireFields
<1> HIDE DEF w
<1>2. /\ Recorded(w) /\ w.type = c.type /\ w.pi = c.pi /\ w.po = c.po
      /\ \A n \in Nets(c) : w.in[n] = IF n = sink THEN Append(c.in[n], stem) ELSE c.in[n]
      /\ \A n \in Nets(c) : w.out[n] = IF n = stem THEN Append(c.out[n], sink) ELSE c.out[n]
  BY <1>1 DEF IsWired
<1>3. Nets(w) = Nets(c)
  BY <1>2 DEF Nets
<1>4. /\ w.in[sink] = Append(c.in[sink], stem)
      /\ \A n \in Nets(c) \ {sink} : w.in[n] = c.in[n]
      /\ w.out[stem] = Append(c.out[stem], sink)
      /\ \A n \in Nets(c) \ {stem} : w.out[n] = c.out[n]
  BY <1>2
<1>5. Direct(w, c, stem, sink)
  BY <1>2, <1>3, <1>4 DEF Direct
<1> QED BY <1>5 DEF w

\* Branch, net by net.
LEMMA BranchPointwise ==
  ASSUME NEW c, Recorded(c), IsFiniteSet(Nets(c)), NEW stem \in Nets(c),
         NEW new, new = Cardinality(Nets(c)), new \notin Nets(c)
  PROVE  /\ Recorded(Branch(c, stem))
         /\ Nets(Branch(c, stem)) = Nets(c) \union {new}
         /\ LastNet(Branch(c, stem)) = new
         /\ Branch(c, stem).pi = c.pi /\ Branch(c, stem).po = c.po
         /\ Branch(c, stem).type[new] = "FOUT"
         /\ Branch(c, stem).in[new] = <<stem>>
         /\ Branch(c, stem).out[new] = <<>>
         /\ \A n \in Nets(c) : Branch(c, stem).type[n] = c.type[n] /\ Branch(c, stem).in[n] = c.in[n]
         /\ Branch(c, stem).out[stem] = Append(c.out[stem], new)
         /\ \A n \in Nets(c) \ {stem} : Branch(c, stem).out[n] = c.out[n]
<1> DEFINE b == Branch(c, stem)
<1>1. IsBranched(b, c, stem, new)
  BY BranchFields
<1> HIDE DEF b
<1>2. /\ Recorded(b) /\ Nets(b) = Nets(c) \union {new} /\ LastNet(b) = new /\ b.pi = c.pi /\ b.po = c.po
  BY <1>1 DEF IsBranched
<1>3. b.type[new] = "FOUT" /\ \A n \in Nets(c) : b.type[n] = c.type[n]
  BY <1>1 DEF IsBranched
<1>4. b.in[new] = <<stem>> /\ \A n \in Nets(c) : b.in[n] = c.in[n]
  BY <1>1 DEF IsBranched
<1>5. /\ b.out[new] = <<>> /\ b.out[stem] = Append(c.out[stem], new)
      /\ \A n \in Nets(c) \ {stem} : b.out[n] = c.out[n]
  BY <1>1 DEF IsBranched
<1> QED BY <1>2, <1>3, <1>4, <1>5 DEF b

\* A net with several uses gets a branch for the pin (yes_fout).
LEMMA ViaBranchStep ==
  ASSUME NEW c, Recorded(c), IsFiniteSet(Nets(c)), NEW stem \in Nets(c), NEW sink \in Nets(c),
         NEW new, new = Cardinality(Nets(c)), new \notin Nets(c)
  PROVE  /\ LastNet(Branch(c, stem)) = new
         /\ ViaBranch(Wire(Branch(c, stem), new, sink), c, stem, sink, new)
<1> DEFINE b == Branch(c, stem)
           w == Wire(b, new, sink)
<1>1. /\ Recorded(b) /\ Nets(b) = Nets(c) \union {new} /\ LastNet(b) = new /\ b.pi = c.pi /\ b.po = c.po
      /\ b.type[new] = "FOUT" /\ b.in[new] = <<stem>> /\ b.out[new] = <<>>
      /\ \A n \in Nets(c) : b.type[n] = c.type[n] /\ b.in[n] = c.in[n]
      /\ b.out[stem] = Append(c.out[stem], new)
      /\ \A n \in Nets(c) \ {stem} : b.out[n] = c.out[n]
  BY BranchPointwise
<1> HIDE DEF b
<1>2. Direct(w, b, new, sink)
  BY <1>1, DirectStep
<1> HIDE DEF w
<1>3. /\ Recorded(w) /\ Nets(w) = Nets(b) /\ w.type = b.type /\ w.pi = b.pi /\ w.po = b.po
      /\ w.in[sink] = Append(b.in[sink], new)
      /\ \A n \in Nets(b) \ {sink} : w.in[n] = b.in[n]
      /\ w.out[new] = Append(b.out[new], sink)
      /\ \A n \in Nets(b) \ {new} : w.out[n] = b.out[n]
  BY <1>2 DEF Direct
<1>4. Append(<<>>, sink) = <<sink>>
  OBVIOUS
<1>5. ViaBranch(w, c, stem, sink, new)
  BY <1>1, <1>3, <1>4 DEF ViaBranch
<1> QED BY <1>1, <1>5 DEF b, w

\* The branch an output port moves to (po_fout).
LEMMA ToPortStep ==
  ASSUME NEW c, Recorded(c), IsFiniteSet(Nets(c)), NEW stem \in Nets(c),
         NEW new, new = Cardinality(Nets(c)), new \notin Nets(c),
         NEW port \in DOMAIN c.po, c.po[port] = stem,
         \A k \in DOMAIN c.po : c.po[k] = stem => k = port
  PROVE  ToPort(BranchToPort(c, stem), c, stem, port, new)
<1> DEFINE b == Branch(c, stem)
           q == [b.po EXCEPT ![port] = new]
           w == [b EXCEPT !.po = q]
<1>1. /\ Recorded(b) /\ Nets(b) = Nets(c) \union {new} /\ LastNet(b) = new /\ b.pi = c.pi /\ b.po = c.po
      /\ b.type[new] = "FOUT" /\ b.in[new] = <<stem>> /\ b.out[new] = <<>>
      /\ \A n \in Nets(c) : b.type[n] = c.type[n] /\ b.in[n] = c.in[n]
      /\ b.out[stem] = Append(c.out[stem], new)
      /\ \A n \in Nets(c) \ {stem} : b.out[n] = c.out[n]
  BY BranchPointwise
<1>2. (CHOOSE k \in DOMAIN c.po : c.po[k] = stem) = port
  OBVIOUS
<1>3. BranchToPort(c, stem) = [b EXCEPT !.po[port] = LastNet(b)]
  BY <1>2 DEF BranchToPort
<1> HIDE DEF b
<1>4. BranchToPort(c, stem) = w
  BY <1>1, <1>3
<1>5. w = [type |-> b.type, in |-> b.in, out |-> b.out, pi |-> b.pi, po |-> q]
  <2>1. b = [type |-> b.type, in |-> b.in, out |-> b.out, pi |-> b.pi, po |-> b.po]
    BY <1>1 DEF Recorded
  <2> HIDE DEF q
  <2> QED BY <2>1, PutPo
<1> HIDE DEF w
<1>6. w.type = b.type /\ w.in = b.in /\ w.out = b.out /\ w.pi = b.pi /\ w.po = q
  BY <1>5
<1>7. Nets(w) = Nets(b)
  BY <1>6 DEF Nets
<1>8. Recorded(w)
  <2>1. w = [type |-> w.type, in |-> w.in, out |-> w.out, pi |-> w.pi, po |-> w.po]
    BY <1>5, <1>6
  <2>2. /\ b.type = [n \in Nets(b) |-> b.type[n]] /\ b.in = [n \in Nets(b) |-> b.in[n]]
        /\ b.out = [n \in Nets(b) |-> b.out[n]]
    BY <1>1 DEF Recorded
  <2> QED BY <1>6, <1>7, <2>1, <2>2 DEF Recorded
<1>9. ToPort(w, c, stem, port, new)
  BY <1>1, <1>6, <1>7, <1>8 DEF ToPort
<1> QED BY <1>4, <1>9

-----------------------------------------------------------------------------
(* Uses of a net *)

\* The uses of a net among some pins, and its ports among some ports.
UsesIn(d, D, n) == {q \in D : Source(d, q) = n}
PortsIn(d, P, n) == {k \in P : d.po[k] = n}

\* A design has finitely many pins.
LEMMA PinsFinite ==
  ASSUME NEW d, IsDesign(d)
  PROVE  IsFiniteSet(Pins(d))
<1> DEFINE G == DOMAIN d.gates
           F(g) == {g} \X DOMAIN d.gates[g].in
           U == {F(g) : g \in G}
<1>1. IsFiniteSet(G)
  <2>1. G = 1 .. Len(d.gates) /\ Len(d.gates) \in Nat
    BY DesignRead
  <2> QED BY <2>1, FS_Interval
<1>2. ASSUME NEW g \in G PROVE IsFiniteSet(F(g))
  <2>1. d.gates[g].in \in Seq(Named(d))
    BY DesignRead DEF Readable
  <2>2. DOMAIN d.gates[g].in = 1 .. Len(d.gates[g].in) /\ Len(d.gates[g].in) \in Nat
    <3> HIDE DEF G
    <3> QED BY <2>1
  <2>3. IsFiniteSet(DOMAIN d.gates[g].in)
    BY <2>2, FS_Interval
  <2> QED BY <2>3, FS_Singleton, FS_Product
<1>3. IsFiniteSet(U)
  <2> DEFINE f == [g \in G |-> F(g)]
  <2>1. f \in Surjection(G, U)
    BY DEF Surjection
  <2> HIDE DEF f, U
  <2> QED BY <1>1, <2>1, FS_Surjection
<1>4. Pins(d) = UNION U
  BY DEF Pins
<1>5. \A u \in U : IsFiniteSet(u)
  BY <1>2
<1> HIDE DEF U
<1> QED BY <1>3, <1>4, <1>5, FS_UNION

\* A net is an output port at most once.
LEMMA PortsOnce ==
  ASSUME NEW d, IsDesign(d)
  PROVE  /\ DOMAIN d.po = 1 .. Len(d.po) /\ Len(d.po) \in Nat /\ IsFiniteSet(DOMAIN d.po)
         /\ \A k \in DOMAIN d.po : d.po[k] \in Named(d)
         /\ \A i, j \in DOMAIN d.po : d.po[i] = d.po[j] => i = j
<1>1. d.po \in Seq(Named(d)) /\ \A i, j \in DOMAIN d.po : d.po[i] = d.po[j] => i = j
  BY DEF IsDesign, Named
<1>2. DOMAIN d.po = 1 .. Len(d.po) /\ Len(d.po) \in Nat /\ \A k \in DOMAIN d.po : d.po[k] \in Named(d)
  <2> HIDE DEF Named
  <2> QED BY <1>1
<1>3. IsFiniteSet(DOMAIN d.po)
  BY <1>2, FS_Interval
<1> QED BY <1>1, <1>2, <1>3

\* Two pins, or a pin and a port, of a net make two uses of it.
LEMMA UseCounts ==
  ASSUME NEW d, IsDesign(d), NEW n
  PROVE  /\ Uses(d, n) \in Nat
         /\ \A q \in Pins(d) : Source(d, q) = n => Uses(d, n) >= 1
         /\ \A q, r \in Pins(d) : Source(d, q) = n /\ Source(d, r) = n /\ q # r => Uses(d, n) >= 2
         /\ OutCount(d, n) \in Nat /\ Uses(d, n) <= OutCount(d, n)
         /\ \A k \in DOMAIN d.po : d.po[k] = n /\ Uses(d, n) >= 1 => OutCount(d, n) >= 2
<1> DEFINE S == UsesIn(d, Pins(d), n)
<1>1. IsFiniteSet(S) /\ Uses(d, n) = Cardinality(S)
  BY PinsFinite, FS_Subset DEF UsesIn, Uses
<1>2. Cardinality(S) \in Nat
  BY <1>1, FS_CardinalityType
<1>3. ASSUME NEW q \in S PROVE Cardinality(S) >= 1
  <2> HIDE DEF S
  <2>1. Cardinality(S) # 0
    BY <1>1, <1>3, FS_EmptySet
  <2> QED BY <1>2, <2>1
<1>4. ASSUME NEW q \in S, NEW r \in S, q # r PROVE Cardinality(S) >= 2
  <2> DEFINE T == S \ {q}
  <2>1. r \in T
    BY <1>4
  <2> HIDE DEF S
  <2>2. IsFiniteSet(T) /\ Cardinality(T) = Cardinality(S) - 1
    BY <1>1, FS_RemoveElement
  <2> HIDE DEF T
  <2>3. Cardinality(T) # 0
    BY <2>1, <2>2, FS_EmptySet
  <2>4. Cardinality(T) \in Nat
    BY <2>2, FS_CardinalityType
  <2> QED BY <1>2, <2>2, <2>3, <2>4
<1>5. \A q \in Pins(d) : Source(d, q) = n => q \in S
  BY DEF UsesIn
<1> HIDE DEF S
<1>6. Uses(d, n) \in Nat
  BY <1>1, <1>2
<1>7. OutCount(d, n) \in Nat /\ Uses(d, n) <= OutCount(d, n)
  BY <1>6 DEF OutCount
<1>8. \A k \in DOMAIN d.po : d.po[k] = n /\ Uses(d, n) >= 1 => OutCount(d, n) >= 2
  BY <1>6 DEF OutCount
<1> QED BY <1>1, <1>3, <1>4, <1>5, <1>6, <1>7, <1>8

\* One pin more is one use more of its source and of no other net.
LEMMA MorePins ==
  ASSUME NEW d, NEW D, IsFiniteSet(D), NEW n, NEW q, q \notin D
  PROVE  /\ Cardinality(D) \in Nat /\ Cardinality(UsesIn(d, D, n)) \in Nat
         /\ IsFiniteSet(D \union {q}) /\ Cardinality(D \union {q}) = Cardinality(D) + 1
         /\ Cardinality(UsesIn(d, D \union {q}, n)) =
              Cardinality(UsesIn(d, D, n)) + (IF Source(d, q) = n THEN 1 ELSE 0)
<1> DEFINE U == UsesIn(d, D, n)
<1>1. IsFiniteSet(U)
  BY FS_Subset DEF UsesIn
<1>2. Cardinality(D) \in Nat /\ Cardinality(U) \in Nat
  BY <1>1, FS_CardinalityType
<1>3. IsFiniteSet(D \union {q}) /\ Cardinality(D \union {q}) = Cardinality(D) + 1
  BY FS_AddElement
<1>4. CASE Source(d, q) = n
  <2>1. UsesIn(d, D \union {q}, n) = U \union {q} /\ q \notin U
    BY <1>4 DEF UsesIn
  <2> HIDE DEF U
  <2>2. Cardinality(U \union {q}) = Cardinality(U) + 1
    BY <1>1, <2>1, FS_AddElement
  <2> QED BY <1>2, <1>3, <1>4, <2>1, <2>2 DEF U
<1>5. CASE Source(d, q) # n
  <2>1. UsesIn(d, D \union {q}, n) = U
    BY <1>5 DEF UsesIn
  <2> HIDE DEF U
  <2> QED BY <1>2, <1>3, <1>5, <2>1 DEF U
<1> QED BY <1>4, <1>5

\* One port moved is one more of its net and of no other.
LEMMA MorePorts ==
  ASSUME NEW d, NEW P, IsFiniteSet(P), NEW n, NEW k, k \notin P
  PROVE  /\ Cardinality(P) \in Nat /\ Cardinality(PortsIn(d, P, n)) \in Nat
         /\ IsFiniteSet(P \union {k}) /\ Cardinality(P \union {k}) = Cardinality(P) + 1
         /\ Cardinality(PortsIn(d, P \union {k}, n)) =
              Cardinality(PortsIn(d, P, n)) + (IF d.po[k] = n THEN 1 ELSE 0)
<1> DEFINE V == PortsIn(d, P, n)
<1>1. IsFiniteSet(V)
  BY FS_Subset DEF PortsIn
<1>2. Cardinality(P) \in Nat /\ Cardinality(V) \in Nat
  BY <1>1, FS_CardinalityType
<1>3. IsFiniteSet(P \union {k}) /\ Cardinality(P \union {k}) = Cardinality(P) + 1
  BY FS_AddElement
<1>4. CASE d.po[k] = n
  <2>1. PortsIn(d, P \union {k}, n) = V \union {k} /\ k \notin V
    BY <1>4 DEF PortsIn
  <2> HIDE DEF V
  <2>2. Cardinality(V \union {k}) = Cardinality(V) + 1
    BY <1>1, <2>1, FS_AddElement
  <2> QED BY <1>2, <1>3, <1>4, <2>1, <2>2 DEF V
<1>5. CASE d.po[k] # n
  <2>1. PortsIn(d, P \union {k}, n) = V
    BY <1>5 DEF PortsIn
  <2> HIDE DEF V
  <2> QED BY <1>2, <1>3, <1>5, <2>1 DEF V
<1> QED BY <1>4, <1>5

-----------------------------------------------------------------------------
(***************************************************************************)
(* The invariant of the connection: the circuit after the pins D have been *)
(* connected and the output ports P have moved to a branch.                *)
(***************************************************************************)
\* The net a pin is fed by.
Feed(d, c, q) == c.in[Sink(d, q)][q[2]]
Branches(d, c) == Nets(c) \ Named(d)

\* The parts of the invariant.  Lists of nets, numbered without gaps.
Shaped(d, c) ==
  /\ Recorded(c) /\ IsFiniteSet(Nets(c)) /\ Nets(c) = 0 .. Cardinality(Nets(c)) - 1
  /\ Named(d) \subseteq Nets(c)
  /\ \A n \in Nets(c) : c.in[n] \in Seq(Nets(c)) /\ c.out[n] \in Seq(Nets(c))
  /\ c.pi = d.pi /\ c.po \in Seq(Nets(c)) /\ DOMAIN c.po = DOMAIN d.po

\* Types are the design's, and branches are branches.
Typed(d, c) ==
  \A n \in Nets(c) : c.type[n] = IF n \in Named(d) THEN Unconnected(d).type[n] ELSE "FOUT"

\* Both ends of an edge agree.
Edged(c) == \A m, n \in Nets(c) : m \in Inputs(c, n) <=> n \in Outputs(c, m)

\* The pins of a module in D are its first ones, and each is fed by the net
\* it names, when that has no other use, or by a branch of it.
Fed(d, c, D) ==
  /\ \A g \in DOMAIN d.gates, p \in Nat : <<g, p>> \in D <=> p \in DOMAIN c.in[d.gates[g].out]
  /\ \A n \in Named(d) : IsInput(d, n) => c.in[n] = <<>>
  /\ \A q \in D :
       /\ Feed(d, c, q) \in Nets(c)
       /\ Feed(d, c, q) \in Named(d) => Feed(d, c, q) = Source(d, q) /\ OutCount(d, Source(d, q)) = 1
       /\ Feed(d, c, q) \notin Named(d) => c.in[Feed(d, c, q)] = <<Source(d, q)>>

\* No net feeds two pins, or a pin and a port.
Apart(d, c, D, P) ==
  /\ \A q, r \in D : Feed(d, c, q) = Feed(d, c, r) => q = r
  /\ \A q \in D, k \in P : Feed(d, c, q) # c.po[k]

\* A branch leads to one place and has a source with several uses.
Branching(d, c) ==
  \A b \in Branches(d, c) :
    /\ Len(c.out[b]) <= 1
    /\ \E s \in Named(d) : c.in[b] = <<s>> /\ OutCount(d, s) >= 2

\* A net with several uses leads to branches only.
Led(d, c) ==
  \A n \in Named(d) : OutCount(d, n) >= 2 => Outputs(c, n) \intersect Named(d) = {}

\* The ports that have moved are branches, the others are where they were.
Ported(d, c, P) ==
  \A k \in DOMAIN d.po :
    /\ k \notin P => c.po[k] = d.po[k]
    /\ k \in P => /\ c.po[k] \in Branches(d, c)
                  /\ c.in[c.po[k]] = <<d.po[k]>> /\ c.out[c.po[k]] = <<>>

\* A net has as many outputs as it has uses so far.
Counted(d, c, D, P) ==
  \A n \in Named(d) :
    Len(c.out[n]) = Cardinality(UsesIn(d, D, n)) + Cardinality(PortsIn(d, P, n))

\* There is at most one branch for every pin and every port.
Sized(d, c, D, P) == Cardinality(Nets(c)) <= d.nets + Cardinality(D) + Cardinality(P)

\* What the circuit is when the pins D are connected and the ports P have moved.
Assembled(d, c, D, P) ==
  /\ D \subseteq Pins(d) /\ P \subseteq DOMAIN d.po
  /\ Shaped(d, c) /\ Typed(d, c) /\ Edged(c) /\ Fed(d, c, D) /\ Apart(d, c, D, P)
  /\ Branching(d, c) /\ Led(d, c) /\ Ported(d, c, P) /\ Counted(d, c, D, P) /\ Sized(d, c, D, P)

\* The pin that comes next.
IsNext(d, c, D, q) ==
  q \in Pins(d) \ D /\ q[2] = Len(c.in[Sink(d, q)]) + 1

\* The input list of one net has got longer.
GivesInput(w, c, s, f) ==
  w.in[s] = Append(c.in[s], f) /\ \A n \in Nets(c) \ {s} : w.in[n] = c.in[n]

\* What one more pin does to the input lists.
LEMMA NextPin ==
  ASSUME NEW d, IsDesign(d), NEW c, NEW D, D \subseteq Pins(d), Shaped(d, c), Fed(d, c, D),
         NEW q, IsNext(d, c, D, q), NEW w, NEW f,
         GivesInput(w, c, Sink(d, q), f)
  PROVE  /\ Feed(d, w, q) = f
         /\ \A r \in D : Feed(d, w, r) = Feed(d, c, r)
         /\ \A g \in DOMAIN d.gates, p \in Nat :
              <<g, p>> \in D \union {q} <=> p \in DOMAIN w.in[d.gates[g].out]
         /\ \A n \in Named(d) : IsInput(d, n) => w.in[n] = <<>>
<1> DEFINE s == Sink(d, q)
<1>0. q \in Pins(d) /\ q \notin D /\ q[2] = Len(c.in[s]) + 1
  BY DEF IsNext
<1>1. q[1] \in DOMAIN d.gates /\ q[2] \in Nat /\ s = d.gates[q[1]].out /\ s \in Named(d)
  BY <1>0, PinRead
<1>2. Named(d) \subseteq Nets(c) /\ \A n \in Nets(c) : c.in[n] \in Seq(Nets(c))
  BY DEF Shaped
<1>3. /\ Len(c.in[s]) \in Nat /\ DOMAIN c.in[s] = 1 .. Len(c.in[s])
      /\ DOMAIN w.in[s] = DOMAIN c.in[s] \union {q[2]} /\ q[2] \notin DOMAIN c.in[s]
      /\ \A i \in DOMAIN c.in[s] : w.in[s][i] = c.in[s][i]
      /\ w.in[s][q[2]] = f
  <2> DEFINE l == c.in[s]
             T == Nets(c) \union {f}
  <2>1. l \in Seq(Nets(c)) /\ Nets(c) \subseteq T /\ f \in T
    BY <1>1, <1>2
  <2>2. w.in[s] = Append(l, f)
    BY DEF GivesInput
  <2> DEFINE m == w.in[s]
  <2>3. m = Append(l, f)
    BY <2>2
  <2> HIDE DEF l, s, T, m
  <2>4. /\ Len(l) \in Nat /\ DOMAIN l = 1 .. Len(l)
        /\ DOMAIN m = DOMAIN l \union {Len(l) + 1} /\ Len(l) + 1 \notin DOMAIN l
        /\ \A i \in DOMAIN l : m[i] = l[i]
        /\ m[Len(l) + 1] = f
    BY <2>1, <2>3, Appended
  <2> QED BY <1>0, <2>4 DEF l, m
<1>8. \A n \in Nets(c) : n # s => w.in[n] = c.in[n]
  BY DEF GivesInput
<1> HIDE DEF s
<1>4. Feed(d, w, q) = f
  BY <1>3 DEF Feed, s
<1>5. ASSUME NEW r \in D PROVE Feed(d, w, r) = Feed(d, c, r)
  <2>1. /\ r[1] \in DOMAIN d.gates /\ r[2] \in Nat /\ Sink(d, r) = d.gates[r[1]].out
        /\ Sink(d, r) \in Named(d) /\ <<r[1], r[2]>> = r
    BY PinRead
  <2>2. r[2] \in DOMAIN c.in[Sink(d, r)]
    BY <2>1 DEF Fed
  <2>3. Sink(d, r) \in Nets(c)
    BY <1>2, <2>1
  <2>4. CASE Sink(d, r) = s
    BY <1>3, <2>2, <2>4 DEF Feed
  <2>5. CASE Sink(d, r) # s
    BY <1>8, <2>3, <2>5 DEF Feed
  <2> QED BY <2>4, <2>5
<1>6. ASSUME NEW g \in DOMAIN d.gates, NEW p \in Nat
      PROVE  <<g, p>> \in D \union {q} <=> p \in DOMAIN w.in[d.gates[g].out]
  <2>1. <<g, p>> \in D <=> p \in DOMAIN c.in[d.gates[g].out]
    BY DEF Fed
  <2>2. <<g, p>> = q <=> g = q[1] /\ p = q[2]
    BY <1>0, PinRead
  <2>3. CASE g = q[1]
    <3>1. d.gates[g].out = s
      BY <1>1, <2>3
    <3> QED BY <1>3, <2>1, <2>2, <2>3, <3>1
  <2>4. CASE g # q[1]
    <3>1. d.gates[g].out # s
      BY <1>1, <2>4, GateRead
    <3>2. d.gates[g].out \in Nets(c)
      BY <1>2, GateRead
    <3>3. w.in[d.gates[g].out] = c.in[d.gates[g].out]
      BY <1>8, <3>1, <3>2
    <3> QED BY <2>1, <2>2, <2>4, <3>3
  <2> QED BY <2>3, <2>4
<1>7. ASSUME NEW n \in Named(d), IsInput(d, n) PROVE w.in[n] = <<>>
  <2>1. n # s
    BY <1>1, <1>7, GateRead
  <2>2. c.in[n] = <<>>
    BY <1>7 DEF Fed
  <2> QED BY <1>2, <1>8, <2>1, <2>2
<1> QED BY <1>4, <1>5, <1>6, <1>7

\* The output list of one net has got longer.
GivesOutput(w, c, s, t) ==
  w.out[s] = Append(c.out[s], t) /\ \A n \in Nets(c) \ {s} : w.out[n] = c.out[n]

\* What one more input changes.
LEMMA LongerInputs ==
  ASSUME NEW d, NEW c, Shaped(d, c), NEW s \in Nets(c), NEW f, NEW w, GivesInput(w, c, s, f),
         NEW T, Nets(c) \subseteq T, f \in T
  PROVE  /\ \A n \in Nets(c) : w.in[n] \in Seq(T)
         /\ Inputs(w, s) = Inputs(c, s) \union {f}
         /\ \A n \in Nets(c) : n # s => Inputs(w, n) = Inputs(c, n)
         /\ \A n \in Nets(c) : Inputs(c, n) \subseteq Nets(c)
<1>1. \A n \in Nets(c) : c.in[n] \in Seq(Nets(c))
  BY DEF Shaped
<1>2. w.in[s] = Append(c.in[s], f) /\ \A n \in Nets(c) : n # s => w.in[n] = c.in[n]
  BY DEF GivesInput
<1>3. \A n \in Nets(c) : Inputs(c, n) = Range(c.in[n]) /\ Inputs(w, n) = Range(w.in[n])
  BY DEF Inputs, Range
<1>4. w.in[s] \in Seq(T) /\ Range(w.in[s]) = Range(c.in[s]) \union {f}
  <2> DEFINE l == c.in[s]
             m == w.in[s]
             A == Nets(c)
  <2>1. l \in Seq(A) /\ m = Append(l, f) /\ A \subseteq T
    BY <1>1, <1>2
  <2> HIDE DEF l, m, A
  <2>3. l \in Seq(T)
    BY <2>1
  <2>2. m \in Seq(T) /\ Range(m) = Range(l) \union {f}
    BY <2>1, <2>3, AppendedIn
  <2> QED BY <2>2 DEF l, m
<1>5. \A l \in Seq(Nets(c)) : l \in Seq(T) /\ Range(l) \subseteq Nets(c)
  BY DEF Range
<1>6. \A n \in Nets(c) : c.in[n] \in Seq(T) /\ Range(c.in[n]) \subseteq Nets(c)
  BY <1>1, <1>5
<1>7. \A n \in Nets(c) : w.in[n] \in Seq(T)
  BY <1>2, <1>4, <1>6
<1>8. \A n \in Nets(c) : n # s => Inputs(w, n) = Inputs(c, n)
  BY <1>2, <1>3
<1> QED BY <1>3, <1>4, <1>6, <1>7, <1>8

\* What one more output changes.
LEMMA LongerOutputs ==
  ASSUME NEW d, NEW c, Shaped(d, c), NEW s \in Nets(c), NEW t, NEW w, GivesOutput(w, c, s, t),
         NEW T, Nets(c) \subseteq T, t \in T
  PROVE  /\ \A n \in Nets(c) : w.out[n] \in Seq(T)
         /\ Outputs(w, s) = Outputs(c, s) \union {t}
         /\ \A n \in Nets(c) : n # s => Outputs(w, n) = Outputs(c, n)
         /\ \A n \in Nets(c) : Outputs(c, n) \subseteq Nets(c)
<1>1. \A n \in Nets(c) : c.out[n] \in Seq(Nets(c))
  BY DEF Shaped
<1>2. w.out[s] = Append(c.out[s], t) /\ \A n \in Nets(c) : n # s => w.out[n] = c.out[n]
  BY DEF GivesOutput
<1>3. \A n \in Nets(c) : Outputs(c, n) = Range(c.out[n]) /\ Outputs(w, n) = Range(w.out[n])
  BY DEF Outputs, Range
<1>4. w.out[s] \in Seq(T) /\ Range(w.out[s]) = Range(c.out[s]) \union {t}
  <2> DEFINE l == c.out[s]
             m == w.out[s]
             A == Nets(c)
  <2>1. l \in Seq(A) /\ m = Append(l, t) /\ A \subseteq T
    BY <1>1, <1>2
  <2> HIDE DEF l, m, A
  <2>3. l \in Seq(T)
    BY <2>1
  <2>2. m \in Seq(T) /\ Range(m) = Range(l) \union {t}
    BY <2>1, <2>3, AppendedIn
  <2> QED BY <2>2 DEF l, m
<1>5. \A l \in Seq(Nets(c)) : l \in Seq(T) /\ Range(l) \subseteq Nets(c)
  BY DEF Range
<1>6. \A n \in Nets(c) : c.out[n] \in Seq(T) /\ Range(c.out[n]) \subseteq Nets(c)
  BY <1>1, <1>5
<1>7. \A n \in Nets(c) : w.out[n] \in Seq(T)
  BY <1>2, <1>4, <1>6
<1>8. \A n \in Nets(c) : n # s => Outputs(w, n) = Outputs(c, n)
  BY <1>2, <1>3
<1> QED BY <1>3, <1>4, <1>6, <1>7, <1>8

\* Lengths after one more output.
LEMMA MoreOutputs ==
  ASSUME NEW d, NEW c, Shaped(d, c), NEW s \in Nets(c), NEW t, NEW w, GivesOutput(w, c, s, t)
  PROVE  /\ \A n \in Nets(c) : Len(c.out[n]) \in Nat
         /\ \A n \in Nets(c) : n # s => Len(w.out[n]) = Len(c.out[n])
         /\ Len(w.out[s]) = Len(c.out[s]) + 1
<1>1. \A n \in Nets(c) : c.out[n] \in Seq(Nets(c))
  BY DEF Shaped
<1>2. w.out[s] = Append(c.out[s], t) /\ \A n \in Nets(c) : n # s => w.out[n] = c.out[n]
  BY DEF GivesOutput
<1>3. \A l \in Seq(Nets(c)) : Len(l) \in Nat
  OBVIOUS
<1>4. Len(w.out[s]) = Len(c.out[s]) + 1
  <2> DEFINE l == c.out[s]
             m == w.out[s]
             T == Nets(c) \union {t}
  <2>1. l \in Seq(Nets(c)) /\ m = Append(l, t)
    BY <1>1, <1>2
  <2>2. Nets(c) \subseteq T /\ t \in T
    OBVIOUS
  <2> HIDE DEF l, m, T
  <2>3. Len(m) = Len(l) + 1
    BY <2>1, <2>2, Appended
  <2> QED BY <2>3 DEF l, m
<1> QED BY <1>1, <1>2, <1>3, <1>4

\* What every part of the invariant needs to know of a pin to connect.
LEMMA NextRead ==
  ASSUME NEW d, IsDesign(d), NEW c, NEW D, NEW P, Assembled(d, c, D, P), NEW q, IsNext(d, c, D, q)
  PROVE  /\ q \in Pins(d) /\ q \notin D
         /\ Source(d, q) \in Named(d) /\ Source(d, q) \in Nets(c)
         /\ Sink(d, q) \in Named(d) /\ Sink(d, q) \in Nets(c)
         /\ OutCount(d, Source(d, q)) \in Nat /\ OutCount(d, Source(d, q)) >= 1
<1>1. q \in Pins(d) /\ q \notin D /\ Named(d) \subseteq Nets(c)
  BY DEF IsNext, Assembled, Shaped
<1>2. Source(d, q) \in Named(d) /\ Sink(d, q) \in Named(d)
  BY <1>1, PinRead
<1>3. Uses(d, Source(d, q)) \in Nat /\ Uses(d, Source(d, q)) >= 1
      /\ OutCount(d, Source(d, q)) \in Nat /\ Uses(d, Source(d, q)) <= OutCount(d, Source(d, q))
  BY <1>1, UseCounts
<1> QED BY <1>1, <1>2, <1>3

-----------------------------------------------------------------------------
(* A direct edge *)

\* A direct edge as one more input and one more output.
LEMMA DirectGives ==
  ASSUME NEW w, NEW c, NEW stem, NEW sink, Direct(w, c, stem, sink)
  PROVE  /\ Recorded(w) /\ Nets(w) = Nets(c)
         /\ w.type = c.type /\ w.pi = c.pi /\ w.po = c.po
         /\ GivesInput(w, c, sink, stem) /\ GivesOutput(w, c, stem, sink)
BY DEF Direct, GivesInput, GivesOutput

\* Connecting the only use of a net keeps the invariant.
LEMMA DirectKeeps ==
  ASSUME NEW d, IsDesign(d), NEW c, NEW D, NEW P, Assembled(d, c, D, P), NEW q, IsNext(d, c, D, q),
         OutCount(d, Source(d, q)) = 1, NEW w, Direct(w, c, Source(d, q), Sink(d, q))
  PROVE  Assembled(d, w, D \union {q}, P)
<1> DEFINE stem == Source(d, q)
           sink == Sink(d, q)
           N == Nets(c)
           D2 == D \union {q}
<1>1. /\ q \in Pins(d) /\ q \notin D /\ D \subseteq Pins(d) /\ P \subseteq DOMAIN d.po
      /\ stem \in Named(d) /\ stem \in N /\ sink \in Named(d) /\ sink \in N
  BY NextRead DEF Assembled
<1>2. /\ Recorded(w) /\ Nets(w) = N
      /\ w.type = c.type /\ w.pi = c.pi /\ w.po = c.po
      /\ GivesInput(w, c, sink, stem) /\ GivesOutput(w, c, stem, sink)
  BY DirectGives
<1>3. /\ Shaped(d, c) /\ Typed(d, c) /\ Edged(c) /\ Fed(d, c, D) /\ Apart(d, c, D, P)
      /\ Branching(d, c) /\ Led(d, c) /\ Ported(d, c, P) /\ Counted(d, c, D, P) /\ Sized(d, c, D, P)
  BY DEF Assembled
<1>4. /\ \A n \in N : w.in[n] \in Seq(N)
      /\ Inputs(w, sink) = Inputs(c, sink) \union {stem}
      /\ \A n \in N : n # sink => Inputs(w, n) = Inputs(c, n)
  BY <1>1, <1>2, <1>3, LongerInputs
<1>5. /\ \A n \in N : w.out[n] \in Seq(N)
      /\ Outputs(w, stem) = Outputs(c, stem) \union {sink}
      /\ \A n \in N : n # stem => Outputs(w, n) = Outputs(c, n)
  BY <1>1, <1>2, <1>3, LongerOutputs
<1>23. /\ \A n \in N : Len(c.out[n]) \in Nat
       /\ \A n \in N : n # stem => Len(w.out[n]) = Len(c.out[n])
       /\ Len(w.out[stem]) = Len(c.out[stem]) + 1
  BY <1>1, <1>2, <1>3, MoreOutputs
<1>6. /\ Feed(d, w, q) = stem
      /\ \A r \in D : Feed(d, w, r) = Feed(d, c, r)
      /\ \A g \in DOMAIN d.gates, p \in Nat :
           <<g, p>> \in D2 <=> p \in DOMAIN w.in[d.gates[g].out]
      /\ \A n \in Named(d) : IsInput(d, n) => w.in[n] = <<>>
  BY <1>1, <1>2, <1>3, NextPin
<1>7. \A b \in Branches(d, c) : w.in[b] = c.in[b] /\ w.out[b] = c.out[b]
  BY <1>1, <1>2 DEF Branches, GivesInput, GivesOutput
<1>8. ASSUME NEW r \in D PROVE Feed(d, c, r) # stem
  <2>1. r \in Pins(d) /\ r # q
    BY <1>1
  <2>2. Feed(d, c, r) = stem => Source(d, r) = stem
    BY <1>1, <1>3 DEF Fed
  <2>3. Source(d, r) = stem => OutCount(d, stem) >= 2
    BY <1>1, <2>1, UseCounts
  <2> QED BY <2>2, <2>3
<1>9. \A k \in P : c.po[k] \in Branches(d, c)
  BY <1>1, <1>3 DEF Ported
<1>10. Branches(d, w) = Branches(d, c) /\ stem \notin Branches(d, c)
  BY <1>1, <1>2 DEF Branches
<1>11. D2 \subseteq Pins(d)
  BY <1>1
<1>12. Shaped(d, w)
  BY <1>2, <1>3, <1>4, <1>5 DEF Shaped
<1>13. Typed(d, w)
  BY <1>2, <1>3 DEF Typed
<1>14. Edged(w)
  BY <1>1, <1>2, <1>3, <1>4, <1>5 DEF Edged
<1>15. Fed(d, w, D2)
  <2>1. ASSUME NEW r \in D
        PROVE  /\ Feed(d, w, r) \in Nets(w)
               /\ Feed(d, w, r) \in Named(d) => Feed(d, w, r) = Source(d, r) /\ OutCount(d, Source(d, r)) = 1
               /\ Feed(d, w, r) \notin Named(d) => w.in[Feed(d, w, r)] = <<Source(d, r)>>
    <3>1. Feed(d, w, r) = Feed(d, c, r)
      BY <1>6
    <3>2. /\ Feed(d, c, r) \in N
          /\ Feed(d, c, r) \in Named(d) => Feed(d, c, r) = Source(d, r) /\ OutCount(d, Source(d, r)) = 1
          /\ Feed(d, c, r) \notin Named(d) => c.in[Feed(d, c, r)] = <<Source(d, r)>>
      BY <1>3 DEF Fed
    <3>3. Feed(d, c, r) \notin Named(d) => w.in[Feed(d, c, r)] = c.in[Feed(d, c, r)]
      BY <1>7, <3>2 DEF Branches
    <3> QED BY <1>2, <3>1, <3>2, <3>3
  <2>2. /\ Feed(d, w, q) \in Nets(w)
        /\ Feed(d, w, q) \in Named(d) /\ Feed(d, w, q) = Source(d, q) /\ OutCount(d, Source(d, q)) = 1
    BY <1>1, <1>2, <1>6
  <2> QED BY <1>6, <2>1, <2>2 DEF Fed
<1>16. Apart(d, w, D2, P)
  BY <1>2, <1>3, <1>6, <1>8, <1>9, <1>10 DEF Apart
<1>17. Branching(d, w)
  BY <1>3, <1>7, <1>10 DEF Branching
<1>18. Led(d, w)
  <2>1. ASSUME NEW n \in Named(d), OutCount(d, n) >= 2
        PROVE  Outputs(w, n) \intersect Named(d) = {}
    <3>1. n # stem
      BY <2>1
    <3>2. n \in N
      BY <1>3 DEF Shaped
    <3> QED BY <1>3, <1>5, <2>1, <3>1, <3>2 DEF Led
  <2> QED BY <2>1 DEF Led
<1>19. Ported(d, w, P)
  <2>1. ASSUME NEW k \in DOMAIN d.po, k \in P
        PROVE  /\ w.po[k] \in Branches(d, w)
               /\ w.in[w.po[k]] = <<d.po[k]>> /\ w.out[w.po[k]] = <<>>
    <3>1. c.po[k] \in Branches(d, c) /\ c.in[c.po[k]] = <<d.po[k]>> /\ c.out[c.po[k]] = <<>>
      BY <1>3, <2>1 DEF Ported
    <3> QED BY <1>2, <1>7, <1>10, <3>1
  <2>2. ASSUME NEW k \in DOMAIN d.po, k \notin P PROVE w.po[k] = d.po[k]
    BY <1>2, <1>3, <2>2 DEF Ported
  <2> QED BY <2>1, <2>2 DEF Ported
<1>20. IsFiniteSet(D) /\ IsFiniteSet(P)
  BY <1>1, PinsFinite, PortsOnce, FS_Subset
<1>21. Counted(d, w, D2, P)
  <2>1. ASSUME NEW n \in Named(d)
        PROVE  Len(w.out[n]) = Cardinality(UsesIn(d, D2, n)) + Cardinality(PortsIn(d, P, n))
    <3>1. n \in N
      BY <1>3 DEF Shaped
    <3>2. Len(c.out[n]) = Cardinality(UsesIn(d, D, n)) + Cardinality(PortsIn(d, P, n))
      BY <1>3 DEF Counted
    <3>3. /\ Cardinality(UsesIn(d, D, n)) \in Nat
          /\ Cardinality(UsesIn(d, D2, n)) = Cardinality(UsesIn(d, D, n)) + (IF Source(d, q) = n THEN 1 ELSE 0)
      BY <1>1, <1>20, MorePins
    <3>4. Cardinality(PortsIn(d, P, n)) \in Nat
      BY <1>20, FS_Subset, FS_CardinalityType DEF PortsIn
    <3>5. Len(w.out[n]) = Len(c.out[n]) + (IF stem = n THEN 1 ELSE 0) /\ Len(c.out[n]) \in Nat
      <4>1. CASE n = stem
        BY <1>23, <3>1, <4>1
      <4>2. CASE n # stem
        <5>1. Len(w.out[n]) = Len(c.out[n]) /\ Len(c.out[n]) \in Nat
          BY <1>23, <3>1, <4>2
        <5> DEFINE x == Len(w.out[n])
                   y == Len(c.out[n])
                   e == IF stem = n THEN 1 ELSE 0
        <5>2. x = y /\ y \in Nat
          BY <5>1
        <5>3. e = 0
          BY <4>2
        <5> HIDE DEF x, y, e
        <5>4. x = y + e
          BY <5>2, <5>3
        <5> QED BY <5>2, <5>4 DEF x, y, e
      <4> QED BY <4>1, <4>2
    <3> QED BY <3>2, <3>3, <3>4, <3>5
  <2> QED BY <2>1 DEF Counted
<1>22. Sized(d, w, D2, P)
  <2>1. /\ Cardinality(D) \in Nat /\ Cardinality(P) \in Nat /\ Cardinality(D2) = Cardinality(D) + 1
    BY <1>1, <1>20, MorePins, FS_CardinalityType
  <2>2. Cardinality(N) \in Nat /\ d.nets \in Nat
    BY <1>3, FS_CardinalityType, DesignRead DEF Shaped, Readable
  <2> QED BY <1>2, <1>3, <2>1, <2>2 DEF Sized
<1> QED BY <1>1, <1>11, <1>12, <1>13, <1>14, <1>15, <1>16, <1>17, <1>18, <1>19, <1>21, <1>22 DEF Assembled

-----------------------------------------------------------------------------
(* A branch *)

\* Number new extends the nets of c, which hold the design's.
Fresh(d, c, new) ==
  /\ Cardinality(Nets(c)) \in Nat /\ new \notin Nets(c) /\ new \notin Named(d)
  /\ IsFiniteSet(Nets(c) \union {new})
  /\ Cardinality(Nets(c) \union {new}) = Cardinality(Nets(c)) + 1
  /\ Nets(c) \union {new} = 0 .. Cardinality(Nets(c) \union {new}) - 1
  /\ \A s \in Seq(Nets(c)) : s \in Seq(Nets(c) \union {new})

\* The next free number is a new net.
LEMMA NewNet ==
  ASSUME NEW d, NEW c, Shaped(d, c), NEW new, new = Cardinality(Nets(c))
  PROVE  Fresh(d, c, new)
<1> DEFINE N == Nets(c)
           k == Cardinality(N)
<1>1. IsFiniteSet(N) /\ N = 0 .. k - 1 /\ Named(d) \subseteq N
  BY DEF Shaped
<1> HIDE DEF N
<1>2. k \in Nat
  BY <1>1, FS_CardinalityType
<1> HIDE DEF k
<1>3. k \notin N
  BY <1>1, <1>2
<1>4. IsFiniteSet(N \union {k}) /\ Cardinality(N \union {k}) = k + 1
  BY <1>1, <1>3, FS_AddElement DEF k
<1>5. N \union {k} = 0 .. (k + 1) - 1
  BY <1>1, <1>2
<1>6. \A s \in Seq(N) : s \in Seq(N \union {k})
  OBVIOUS
<1>7. new = k
  BY DEF k, N
<1> QED BY <1>1, <1>2, <1>3, <1>4, <1>5, <1>6, <1>7 DEF k, N, Fresh

\* A branch as one more input, one more output and a net.
LEMMA ViaBranchGives ==
  ASSUME NEW w, NEW c, NEW stem, NEW sink, NEW new, ViaBranch(w, c, stem, sink, new)
  PROVE  /\ Recorded(w) /\ Nets(w) = Nets(c) \union {new} /\ w.pi = c.pi /\ w.po = c.po
         /\ w.type[new] = "FOUT" /\ w.in[new] = <<stem>> /\ w.out[new] = <<sink>>
         /\ \A n \in Nets(c) : w.type[n] = c.type[n]
         /\ GivesInput(w, c, sink, new) /\ GivesOutput(w, c, stem, new)
BY DEF ViaBranch, GivesInput, GivesOutput

\* A list of one.
LEMMA Single ==
  ASSUME NEW T, NEW x \in T
  PROVE  <<x>> \in Seq(T) /\ Len(<<x>>) = 1 /\ Range(<<x>>) = {x}
<1>1. <<x>> \in Seq(T) /\ Len(<<x>>) = 1
  OBVIOUS
<1>2. DOMAIN <<x>> = {1} /\ <<x>>[1] = x
  OBVIOUS
<1> QED BY <1>1, <1>2 DEF Range

\* Connecting a pin by a branch keeps the invariant.
LEMMA BranchKeeps ==
  ASSUME NEW d, IsDesign(d), NEW c, NEW D, NEW P, Assembled(d, c, D, P), NEW q, IsNext(d, c, D, q),
         OutCount(d, Source(d, q)) >= 2, NEW new, new = Cardinality(Nets(c)),
         NEW w, ViaBranch(w, c, Source(d, q), Sink(d, q), new)
  PROVE  Assembled(d, w, D \union {q}, P)
<1> DEFINE stem == Source(d, q)
           sink == Sink(d, q)
           N == Nets(c)
           N2 == N \union {new}
           D2 == D \union {q}
<1>1. /\ q \in Pins(d) /\ q \notin D /\ D \subseteq Pins(d) /\ P \subseteq DOMAIN d.po
      /\ stem \in Named(d) /\ stem \in N /\ sink \in Named(d) /\ sink \in N
  BY NextRead DEF Assembled
<1>2. /\ Recorded(w) /\ Nets(w) = N2 /\ w.pi = c.pi /\ w.po = c.po
      /\ w.type[new] = "FOUT" /\ w.in[new] = <<stem>> /\ w.out[new] = <<sink>>
      /\ \A n \in N : w.type[n] = c.type[n]
      /\ GivesInput(w, c, sink, new) /\ GivesOutput(w, c, stem, new)
  BY ViaBranchGives
<1>3. /\ Shaped(d, c) /\ Typed(d, c) /\ Edged(c) /\ Fed(d, c, D) /\ Apart(d, c, D, P)
      /\ Branching(d, c) /\ Led(d, c) /\ Ported(d, c, P) /\ Counted(d, c, D, P) /\ Sized(d, c, D, P)
  BY DEF Assembled
<1>24. /\ Cardinality(N) \in Nat /\ new \notin N /\ new \notin Named(d)
       /\ IsFiniteSet(N2) /\ Cardinality(N2) = Cardinality(N) + 1
       /\ N2 = 0 .. Cardinality(N2) - 1
       /\ \A s \in Seq(N) : s \in Seq(N2)
       /\ N \subseteq N2 /\ new \in N2
  <2>1. Shaped(d, c)
    BY <1>3
  <2>2. Fresh(d, c, new)
    BY <2>1, NewNet
  <2>3. N \subseteq N2 /\ new \in N2
    OBVIOUS
  <2> QED BY <2>2, <2>3 DEF Fresh
<1>4. /\ \A n \in N : w.in[n] \in Seq(N2)
      /\ Inputs(w, sink) = Inputs(c, sink) \union {new}
      /\ \A n \in N : n # sink => Inputs(w, n) = Inputs(c, n)
      /\ \A n \in N : Inputs(c, n) \subseteq N
  BY <1>1, <1>2, <1>3, <1>24, LongerInputs
<1>5. /\ \A n \in N : w.out[n] \in Seq(N2)
      /\ Outputs(w, stem) = Outputs(c, stem) \union {new}
      /\ \A n \in N : n # stem => Outputs(w, n) = Outputs(c, n)
      /\ \A n \in N : Outputs(c, n) \subseteq N
  BY <1>1, <1>2, <1>3, <1>24, LongerOutputs
<1>23. /\ \A n \in N : Len(c.out[n]) \in Nat
       /\ \A n \in N : n # stem => Len(w.out[n]) = Len(c.out[n])
       /\ Len(w.out[stem]) = Len(c.out[stem]) + 1
  BY <1>1, <1>2, <1>3, MoreOutputs
<1>25. /\ w.in[new] \in Seq(N2) /\ Inputs(w, new) = {stem}
       /\ w.out[new] \in Seq(N2) /\ Len(w.out[new]) = 1 /\ Outputs(w, new) = {sink}
  <2>1. stem \in N2 /\ sink \in N2
    BY <1>1
  <2>2. /\ <<stem>> \in Seq(N2) /\ Range(<<stem>>) = {stem}
        /\ <<sink>> \in Seq(N2) /\ Len(<<sink>>) = 1 /\ Range(<<sink>>) = {sink}
    <3> HIDE DEF stem, sink, N2
    <3> QED BY <2>1, Single
  <2>3. Inputs(w, new) = Range(w.in[new]) /\ Outputs(w, new) = Range(w.out[new])
    BY DEF Inputs, Outputs, Range
  <2> QED BY <1>2, <2>2, <2>3
<1>6. /\ Feed(d, w, q) = new
      /\ \A r \in D : Feed(d, w, r) = Feed(d, c, r)
      /\ \A g \in DOMAIN d.gates, p \in Nat :
           <<g, p>> \in D2 <=> p \in DOMAIN w.in[d.gates[g].out]
      /\ \A n \in Named(d) : IsInput(d, n) => w.in[n] = <<>>
  BY <1>1, <1>2, <1>3, NextPin
<1>7. \A b \in Branches(d, c) : b \in N /\ w.in[b] = c.in[b] /\ w.out[b] = c.out[b]
  BY <1>1, <1>2 DEF Branches, GivesInput, GivesOutput
<1>8. \A r \in D : Feed(d, c, r) \in N
  BY <1>3 DEF Fed
<1>9. \A k \in P : c.po[k] \in Branches(d, c)
  BY <1>1, <1>3 DEF Ported
<1>10. Branches(d, w) = Branches(d, c) \union {new}
  BY <1>2, <1>24 DEF Branches
<1>11. D2 \subseteq Pins(d)
  BY <1>1
<1>12. Shaped(d, w)
  <2>1. Named(d) \subseteq N2 /\ w.pi = d.pi /\ w.po \in Seq(N2) /\ DOMAIN w.po = DOMAIN d.po
    BY <1>2, <1>3, <1>24 DEF Shaped
  <2>2. \A n \in N2 : w.in[n] \in Seq(N2) /\ w.out[n] \in Seq(N2)
    BY <1>4, <1>5, <1>25
  <2> HIDE DEF N2
  <2> QED BY <1>2, <1>24, <2>1, <2>2 DEF Shaped
<1>13. Typed(d, w)
  BY <1>2, <1>3, <1>24 DEF Typed
<1>14. Edged(w)
  <2>1. ASSUME NEW m \in N, NEW n \in N PROVE m \in Inputs(w, n) <=> n \in Outputs(w, m)
    <3>1. m \in Inputs(c, n) <=> n \in Outputs(c, m)
      BY <1>3 DEF Edged
    <3>2. m \in Inputs(w, n) <=> m \in Inputs(c, n)
      BY <1>4, <1>24
    <3>3. n \in Outputs(w, m) <=> n \in Outputs(c, m)
      BY <1>5, <1>24
    <3> QED BY <3>1, <3>2, <3>3
  <2>2. ASSUME NEW n \in N PROVE new \in Inputs(w, n) <=> n \in Outputs(w, new)
    BY <1>4, <1>24, <1>25
  <2>3. ASSUME NEW m \in N PROVE m \in Inputs(w, new) <=> new \in Outputs(w, m)
    BY <1>5, <1>24, <1>25
  <2>4. new \notin Inputs(w, new) /\ new \notin Outputs(w, new)
    BY <1>1, <1>24, <1>25
  <2> QED BY <1>2, <2>1, <2>2, <2>3, <2>4 DEF Edged
<1>15. Fed(d, w, D2)
  <2>1. ASSUME NEW r \in D
        PROVE  /\ Feed(d, w, r) \in Nets(w)
               /\ Feed(d, w, r) \in Named(d) => Feed(d, w, r) = Source(d, r) /\ OutCount(d, Source(d, r)) = 1
               /\ Feed(d, w, r) \notin Named(d) => w.in[Feed(d, w, r)] = <<Source(d, r)>>
    <3>1. Feed(d, w, r) = Feed(d, c, r)
      BY <1>6
    <3>2. /\ Feed(d, c, r) \in N
          /\ Feed(d, c, r) \in Named(d) => Feed(d, c, r) = Source(d, r) /\ OutCount(d, Source(d, r)) = 1
          /\ Feed(d, c, r) \notin Named(d) => c.in[Feed(d, c, r)] = <<Source(d, r)>>
      BY <1>3 DEF Fed
    <3>3. Feed(d, c, r) \notin Named(d) => w.in[Feed(d, c, r)] = c.in[Feed(d, c, r)]
      BY <1>7, <3>2 DEF Branches
    <3> QED BY <1>2, <3>1, <3>2, <3>3
  <2>2. /\ Feed(d, w, q) \in Nets(w)
        /\ Feed(d, w, q) \notin Named(d) /\ w.in[Feed(d, w, q)] = <<Source(d, q)>>
    BY <1>2, <1>6, <1>24
  <2> QED BY <1>6, <2>1, <2>2 DEF Fed
<1>16. Apart(d, w, D2, P)
  <2>1. \A k \in P : w.po[k] = c.po[k] /\ c.po[k] \in N
    BY <1>2, <1>7, <1>9
  <2> QED BY <1>3, <1>6, <1>8, <1>24, <2>1 DEF Apart
<1>17. Branching(d, w)
  <2>1. ASSUME NEW b \in Branches(d, c)
        PROVE  Len(w.out[b]) <= 1 /\ \E s \in Named(d) : w.in[b] = <<s>> /\ OutCount(d, s) >= 2
    BY <1>3, <1>7 DEF Branching
  <2>2. Len(w.out[new]) <= 1 /\ \E s \in Named(d) : w.in[new] = <<s>> /\ OutCount(d, s) >= 2
    BY <1>1, <1>2, <1>25
  <2> QED BY <1>10, <2>1, <2>2 DEF Branching
<1>18. Led(d, w)
  <2>1. ASSUME NEW n \in Named(d), OutCount(d, n) >= 2
        PROVE  Outputs(w, n) \intersect Named(d) = {}
    <3>1. n \in N
      BY <1>3 DEF Shaped
    <3>2. Outputs(w, n) \subseteq Outputs(c, n) \union {new}
      BY <1>5, <3>1
    <3> QED BY <1>3, <1>24, <2>1, <3>2 DEF Led
  <2> QED BY <2>1 DEF Led
<1>19. Ported(d, w, P)
  <2>1. ASSUME NEW k \in DOMAIN d.po, k \in P
        PROVE  /\ w.po[k] \in Branches(d, w)
               /\ w.in[w.po[k]] = <<d.po[k]>> /\ w.out[w.po[k]] = <<>>
    <3>1. c.po[k] \in Branches(d, c) /\ c.in[c.po[k]] = <<d.po[k]>> /\ c.out[c.po[k]] = <<>>
      BY <1>3, <2>1 DEF Ported
    <3> QED BY <1>2, <1>7, <1>10, <3>1
  <2>2. ASSUME NEW k \in DOMAIN d.po, k \notin P PROVE w.po[k] = d.po[k]
    BY <1>2, <1>3, <2>2 DEF Ported
  <2> QED BY <2>1, <2>2 DEF Ported
<1>20. IsFiniteSet(D) /\ IsFiniteSet(P)
  BY <1>1, PinsFinite, PortsOnce, FS_Subset
<1>21. Counted(d, w, D2, P)
  <2>1. ASSUME NEW n \in Named(d)
        PROVE  Len(w.out[n]) = Cardinality(UsesIn(d, D2, n)) + Cardinality(PortsIn(d, P, n))
    <3> DEFINE x == Len(w.out[n])
               y == Len(c.out[n])
               e == IF stem = n THEN 1 ELSE 0
    <3>1. n \in N
      BY <1>3 DEF Shaped
    <3>2. y = Cardinality(UsesIn(d, D, n)) + Cardinality(PortsIn(d, P, n))
      BY <1>3 DEF Counted
    <3>3. /\ Cardinality(UsesIn(d, D, n)) \in Nat
          /\ Cardinality(UsesIn(d, D2, n)) = Cardinality(UsesIn(d, D, n)) + e
      BY <1>1, <1>20, MorePins
    <3>4. Cardinality(PortsIn(d, P, n)) \in Nat
      BY <1>20, FS_Subset, FS_CardinalityType DEF PortsIn
    <3>6. e \in {0, 1} /\ (e = 1 <=> n = stem)
      OBVIOUS
    <3>5. x = y + e /\ y \in Nat
      <4>1. CASE n = stem
        BY <1>23, <3>1, <4>1
      <4>2. CASE n # stem
        <5>2. x = y /\ y \in Nat
          BY <1>23, <3>1, <4>2
        <5>3. e = 0
          BY <4>2
        <5> HIDE DEF x, y, e
        <5>4. x = y + e
          BY <5>2, <5>3
        <5> QED BY <5>2, <5>4 DEF x, y, e
      <4> QED BY <4>1, <4>2
    <3> HIDE DEF x, y, e
    <3>7. x = Cardinality(UsesIn(d, D2, n)) + Cardinality(PortsIn(d, P, n))
      BY <3>2, <3>3, <3>4, <3>5, <3>6
    <3> QED BY <3>7 DEF x
  <2> QED BY <2>1 DEF Counted
<1>22. Sized(d, w, D2, P)
  <2>1. /\ Cardinality(D) \in Nat /\ Cardinality(P) \in Nat /\ Cardinality(D2) = Cardinality(D) + 1
    BY <1>1, <1>20, MorePins, FS_CardinalityType
  <2>2. d.nets \in Nat
    BY DesignRead DEF Readable
  <2> HIDE DEF N2, D2
  <2> QED BY <1>2, <1>3, <1>24, <2>1, <2>2 DEF Sized, N2, D2
<1> QED BY <1>1, <1>11, <1>12, <1>13, <1>14, <1>15, <1>16, <1>17, <1>18, <1>19, <1>21, <1>22 DEF Assembled

\* A list with one element replaced.
LEMMA Replaced ==
  ASSUME NEW T, NEW s \in Seq(T), NEW k \in DOMAIN s, NEW x \in T
  PROVE  /\ [s EXCEPT ![k] = x] \in Seq(T) /\ DOMAIN [s EXCEPT ![k] = x] = DOMAIN s
         /\ [s EXCEPT ![k] = x][k] = x
         /\ \A i \in DOMAIN s : i # k => [s EXCEPT ![k] = x][i] = s[i]
OBVIOUS

\* Moving an output port to its branch keeps the invariant.
LEMMA PortKeeps ==
  ASSUME NEW d, IsDesign(d), NEW c, NEW D, NEW P, Assembled(d, c, D, P),
         NEW port \in DOMAIN d.po, port \notin P,
         OutCount(d, d.po[port]) >= 2, NEW new, new = Cardinality(Nets(c)),
         NEW w, ToPort(w, c, d.po[port], port, new)
  PROVE  Assembled(d, w, D, P \union {port})
<1> DEFINE stem == d.po[port]
           N == Nets(c)
           N2 == N \union {new}
           P2 == P \union {port}
<1>3. /\ Shaped(d, c) /\ Typed(d, c) /\ Edged(c) /\ Fed(d, c, D) /\ Apart(d, c, D, P)
      /\ Branching(d, c) /\ Led(d, c) /\ Ported(d, c, P) /\ Counted(d, c, D, P) /\ Sized(d, c, D, P)
      /\ D \subseteq Pins(d) /\ P \subseteq DOMAIN d.po
  BY DEF Assembled
<1>1. stem \in Named(d) /\ stem \in N /\ Named(d) \subseteq N /\ P2 \subseteq DOMAIN d.po
  BY <1>3, PortsOnce DEF Shaped
<1>2. /\ Recorded(w) /\ Nets(w) = N2 /\ w.pi = c.pi /\ w.po = [c.po EXCEPT ![port] = new]
      /\ w.type[new] = "FOUT" /\ w.in[new] = <<stem>> /\ w.out[new] = <<>>
      /\ \A n \in N : w.type[n] = c.type[n] /\ w.in[n] = c.in[n]
      /\ GivesOutput(w, c, stem, new)
  <2>1. ToPort(w, c, stem, port, new)
    OBVIOUS
  <2> HIDE DEF stem
  <2> QED BY <2>1 DEF ToPort, GivesOutput
<1>24. /\ Cardinality(N) \in Nat /\ new \notin N /\ new \notin Named(d)
       /\ IsFiniteSet(N2) /\ Cardinality(N2) = Cardinality(N) + 1
       /\ N2 = 0 .. Cardinality(N2) - 1
       /\ \A s \in Seq(N) : s \in Seq(N2)
       /\ N \subseteq N2 /\ new \in N2
  <2>1. Shaped(d, c)
    BY <1>3
  <2>2. Fresh(d, c, new)
    BY <2>1, NewNet
  <2>3. N \subseteq N2 /\ new \in N2
    OBVIOUS
  <2> QED BY <2>2, <2>3 DEF Fresh
<1>4. /\ \A n \in N : w.in[n] \in Seq(N2)
      /\ \A n \in N : Inputs(w, n) = Inputs(c, n) /\ Inputs(c, n) \subseteq N
  <2>1. \A n \in N : c.in[n] \in Seq(N)
    BY <1>3 DEF Shaped
  <2>2. \A s \in Seq(N) : Range(s) \subseteq N
    BY DEF Range
  <2>3. \A n \in N : Inputs(c, n) = Range(c.in[n]) /\ Inputs(w, n) = Range(w.in[n])
    BY DEF Inputs, Range
  <2> HIDE DEF N2
  <2> QED BY <1>2, <1>24, <2>1, <2>2, <2>3
<1>5. /\ \A n \in N : w.out[n] \in Seq(N2)
      /\ Outputs(w, stem) = Outputs(c, stem) \union {new}
      /\ \A n \in N : n # stem => Outputs(w, n) = Outputs(c, n)
      /\ \A n \in N : Outputs(c, n) \subseteq N
  BY <1>1, <1>2, <1>3, <1>24, LongerOutputs
<1>23. /\ \A n \in N : Len(c.out[n]) \in Nat
       /\ \A n \in N : n # stem => Len(w.out[n]) = Len(c.out[n])
       /\ Len(w.out[stem]) = Len(c.out[stem]) + 1
  BY <1>1, <1>2, <1>3, MoreOutputs
<1>25. /\ w.in[new] \in Seq(N2) /\ Inputs(w, new) = {stem}
       /\ w.out[new] \in Seq(N2) /\ Len(w.out[new]) = 0 /\ Outputs(w, new) = {}
  <2>1. stem \in N2
    BY <1>1
  <2>2. <<stem>> \in Seq(N2) /\ Range(<<stem>>) = {stem}
    <3> HIDE DEF stem, N2
    <3> QED BY <2>1, Single
  <2>3. Inputs(w, new) = Range(w.in[new])
    BY DEF Inputs, Range
  <2>4. <<>> \in Seq(N2) /\ Len(<<>>) = 0 /\ DOMAIN <<>> = {}
    <3> HIDE DEF N2
    <3> QED OBVIOUS
  <2> QED BY <1>2, <2>2, <2>3, <2>4 DEF Outputs
<1>26. /\ w.po \in Seq(N2) /\ DOMAIN w.po = DOMAIN d.po /\ w.po[port] = new
       /\ \A k \in DOMAIN d.po : k # port => w.po[k] = c.po[k]
  <2>1. c.po \in Seq(N2) /\ DOMAIN c.po = DOMAIN d.po
    BY <1>3, <1>24 DEF Shaped
  <2> HIDE DEF N2
  <2> QED BY <1>2, <1>24, <2>1, Replaced
<1>6. \A r \in D : Feed(d, w, r) = Feed(d, c, r) /\ Feed(d, c, r) \in N
  <2>1. ASSUME NEW r \in D PROVE Sink(d, r) \in N
    BY <1>1, <1>3, PinRead
  <2> QED BY <1>2, <1>3, <2>1 DEF Feed, Fed
<1>7. \A b \in Branches(d, c) : b \in N /\ w.in[b] = c.in[b] /\ w.out[b] = c.out[b]
  BY <1>1, <1>2 DEF Branches, GivesOutput
<1>9. \A k \in P : c.po[k] \in Branches(d, c)
  BY <1>1, <1>3 DEF Ported
<1>10. Branches(d, w) = Branches(d, c) \union {new}
  BY <1>2, <1>24 DEF Branches
<1>12. Shaped(d, w)
  <2>1. Named(d) \subseteq N2 /\ w.pi = d.pi
    BY <1>2, <1>3, <1>24 DEF Shaped
  <2>2. \A n \in N2 : w.in[n] \in Seq(N2) /\ w.out[n] \in Seq(N2)
    BY <1>4, <1>5, <1>25
  <2> HIDE DEF N2
  <2> QED BY <1>2, <1>24, <1>26, <2>1, <2>2 DEF Shaped
<1>13. Typed(d, w)
  BY <1>2, <1>3, <1>24 DEF Typed
<1>14. Edged(w)
  <2>1. ASSUME NEW m \in N, NEW n \in N PROVE m \in Inputs(w, n) <=> n \in Outputs(w, m)
    <3>1. m \in Inputs(c, n) <=> n \in Outputs(c, m)
      BY <1>3 DEF Edged
    <3>2. m \in Inputs(w, n) <=> m \in Inputs(c, n)
      BY <1>4
    <3>3. n \in Outputs(w, m) <=> n \in Outputs(c, m)
      BY <1>5, <1>24
    <3> QED BY <3>1, <3>2, <3>3
  <2>2. ASSUME NEW n \in N PROVE new \in Inputs(w, n) <=> n \in Outputs(w, new)
    BY <1>4, <1>24, <1>25
  <2>3. ASSUME NEW m \in N PROVE m \in Inputs(w, new) <=> new \in Outputs(w, m)
    BY <1>5, <1>24, <1>25
  <2>4. new \notin Inputs(w, new) /\ new \notin Outputs(w, new)
    BY <1>1, <1>24, <1>25
  <2> QED BY <1>2, <2>1, <2>2, <2>3, <2>4 DEF Edged
<1>15. Fed(d, w, D)
  <2>1. ASSUME NEW r \in D
        PROVE  /\ Feed(d, w, r) \in Nets(w)
               /\ Feed(d, w, r) \in Named(d) => Feed(d, w, r) = Source(d, r) /\ OutCount(d, Source(d, r)) = 1
               /\ Feed(d, w, r) \notin Named(d) => w.in[Feed(d, w, r)] = <<Source(d, r)>>
    <3>1. Feed(d, w, r) = Feed(d, c, r)
      BY <1>6
    <3>2. /\ Feed(d, c, r) \in N
          /\ Feed(d, c, r) \in Named(d) => Feed(d, c, r) = Source(d, r) /\ OutCount(d, Source(d, r)) = 1
          /\ Feed(d, c, r) \notin Named(d) => c.in[Feed(d, c, r)] = <<Source(d, r)>>
      BY <1>3 DEF Fed
    <3> QED BY <1>2, <3>1, <3>2
  <2>2. ASSUME NEW g \in DOMAIN d.gates PROVE w.in[d.gates[g].out] = c.in[d.gates[g].out]
    BY <1>1, <1>2, GateRead
  <2>3. /\ \A g \in DOMAIN d.gates, p \in Nat : <<g, p>> \in D <=> p \in DOMAIN c.in[d.gates[g].out]
        /\ \A n \in Named(d) : IsInput(d, n) => c.in[n] = <<>>
    BY <1>3 DEF Fed
  <2>4. \A n \in Named(d) : w.in[n] = c.in[n]
    BY <1>1, <1>2
  <2> QED BY <2>1, <2>2, <2>3, <2>4 DEF Fed
<1>16. Apart(d, w, D, P2)
  <2>1. \A k \in P : w.po[k] = c.po[k]
    BY <1>3, <1>26
  <2>2. \A r \in D, k \in P : Feed(d, c, r) # c.po[k]
    BY <1>3 DEF Apart
  <2>3. \A r \in D : Feed(d, c, r) # w.po[port]
    BY <1>6, <1>24, <1>26
  <2>4. \A r, q \in D : Feed(d, c, r) = Feed(d, c, q) => r = q
    BY <1>3 DEF Apart
  <2>5. \A r \in D, k \in P2 : Feed(d, w, r) # w.po[k]
    BY <1>6, <2>1, <2>2, <2>3
  <2>6. \A r, q \in D : Feed(d, w, r) = Feed(d, w, q) => r = q
    BY <1>6, <2>4
  <2> QED BY <2>5, <2>6 DEF Apart
<1>17. Branching(d, w)
  <2>1. ASSUME NEW b \in Branches(d, c)
        PROVE  Len(w.out[b]) <= 1 /\ \E s \in Named(d) : w.in[b] = <<s>> /\ OutCount(d, s) >= 2
    BY <1>3, <1>7 DEF Branching
  <2>2. Len(w.out[new]) <= 1 /\ \E s \in Named(d) : w.in[new] = <<s>> /\ OutCount(d, s) >= 2
    BY <1>1, <1>2, <1>25
  <2> QED BY <1>10, <2>1, <2>2 DEF Branching
<1>18. Led(d, w)
  <2>1. ASSUME NEW n \in Named(d), OutCount(d, n) >= 2
        PROVE  Outputs(w, n) \intersect Named(d) = {}
    <3>1. n \in N
      BY <1>1
    <3>2. Outputs(w, n) \subseteq Outputs(c, n) \union {new}
      BY <1>5, <3>1
    <3> QED BY <1>3, <1>24, <2>1, <3>2 DEF Led
  <2> QED BY <2>1 DEF Led
<1>19. Ported(d, w, P2)
  <2>1. ASSUME NEW k \in P
        PROVE  /\ w.po[k] \in Branches(d, w)
               /\ w.in[w.po[k]] = <<d.po[k]>> /\ w.out[w.po[k]] = <<>>
    <3>1. c.po[k] \in Branches(d, c) /\ c.in[c.po[k]] = <<d.po[k]>> /\ c.out[c.po[k]] = <<>>
      BY <1>3, <2>1 DEF Ported
    <3>2. w.po[k] = c.po[k]
      BY <1>3, <1>26, <2>1
    <3> QED BY <1>7, <1>10, <3>1, <3>2
  <2>2. ASSUME NEW k \in DOMAIN d.po, k \notin P2 PROVE w.po[k] = d.po[k]
    BY <1>3, <1>26, <2>2 DEF Ported
  <2>3. w.po[port] \in Branches(d, w) /\ w.in[w.po[port]] = <<d.po[port]>> /\ w.out[w.po[port]] = <<>>
    BY <1>2, <1>10, <1>26
  <2> QED BY <2>1, <2>2, <2>3 DEF Ported
<1>20. IsFiniteSet(D) /\ IsFiniteSet(P)
  BY <1>3, PinsFinite, PortsOnce, FS_Subset
<1>21. Counted(d, w, D, P2)
  <2>1. ASSUME NEW n \in Named(d)
        PROVE  Len(w.out[n]) = Cardinality(UsesIn(d, D, n)) + Cardinality(PortsIn(d, P2, n))
    <3> DEFINE x == Len(w.out[n])
               y == Len(c.out[n])
               e == IF stem = n THEN 1 ELSE 0
    <3>1. n \in N
      BY <1>1
    <3>2. y = Cardinality(UsesIn(d, D, n)) + Cardinality(PortsIn(d, P, n))
      BY <1>3 DEF Counted
    <3>3. /\ Cardinality(PortsIn(d, P, n)) \in Nat
          /\ Cardinality(PortsIn(d, P2, n)) = Cardinality(PortsIn(d, P, n)) + e
      BY <1>20, MorePorts
    <3>4. Cardinality(UsesIn(d, D, n)) \in Nat
      BY <1>20, FS_Subset, FS_CardinalityType DEF UsesIn
    <3>6. e \in {0, 1} /\ (e = 1 <=> n = stem)
      OBVIOUS
    <3>5. x = y + e /\ y \in Nat
      <4>1. CASE n = stem
        BY <1>23, <3>1, <4>1
      <4>2. CASE n # stem
        <5>2. x = y /\ y \in Nat
          BY <1>23, <3>1, <4>2
        <5>3. e = 0
          BY <4>2
        <5> HIDE DEF x, y, e
        <5>4. x = y + e
          BY <5>2, <5>3
        <5> QED BY <5>2, <5>4 DEF x, y, e
      <4> QED BY <4>1, <4>2
    <3> HIDE DEF x, y, e
    <3>7. x = Cardinality(UsesIn(d, D, n)) + Cardinality(PortsIn(d, P2, n))
      BY <3>2, <3>3, <3>4, <3>5, <3>6
    <3> QED BY <3>7 DEF x
  <2> QED BY <2>1 DEF Counted
<1>22. Sized(d, w, D, P2)
  <2>1. /\ Cardinality(D) \in Nat /\ Cardinality(P) \in Nat /\ Cardinality(P2) = Cardinality(P) + 1
    BY <1>20, MorePorts, FS_CardinalityType
  <2>2. d.nets \in Nat
    BY DesignRead DEF Readable
  <2>3. Cardinality(N) <= d.nets + Cardinality(D) + Cardinality(P)
    BY <1>3 DEF Sized
  <2>4. Cardinality(Nets(w)) = Cardinality(N) + 1 /\ Cardinality(N) \in Nat
    BY <1>2, <1>24
  <2> HIDE DEF N, P2
  <2>5. Cardinality(Nets(w)) <= d.nets + Cardinality(D) + Cardinality(P2)
    BY <2>1, <2>2, <2>3, <2>4
  <2> QED BY <2>5 DEF Sized, P2
<1> QED BY <1>1, <1>3, <1>12, <1>13, <1>14, <1>15, <1>16, <1>17, <1>18, <1>19, <1>21, <1>22 DEF Assembled

-----------------------------------------------------------------------------
(* One pin, and all of them *)

\* The pins connected before pin p of module g, and the ports that moved with them.
Before(d, g, p) == {q \in Pins(d) : q[1] < g \/ (q[1] = g /\ q[2] < p)}
Moved(d, D) == {k \in DOMAIN d.po : UsesIn(d, D, d.po[k]) # {}}

\* A pin moves the port of its source and no other.
LEMMA MovedGrows ==
  ASSUME NEW d, NEW D, NEW q, NEW k \in DOMAIN d.po
  PROVE  /\ k \in Moved(d, D) => k \in Moved(d, D \union {q})
         /\ d.po[k] = Source(d, q) => k \in Moved(d, D \union {q})
         /\ d.po[k] # Source(d, q) => (k \in Moved(d, D) <=> k \in Moved(d, D \union {q}))
BY DEF Moved, UsesIn

\* Connecting the next pin, ports included, keeps the invariant.
LEMMA ConnectKeeps ==
  ASSUME NEW d, IsDesign(d), NEW c, NEW D, Assembled(d, c, D, Moved(d, D)), NEW q, IsNext(d, c, D, q)
  PROVE  Assembled(d, ConnectPin(d, c, q), D \union {q}, Moved(d, D \union {q}))
<1> DEFINE stem == Source(d, q)
           sink == Sink(d, q)
           P == Moved(d, D)
           D2 == D \union {q}
           P2 == Moved(d, D2)
           new == Cardinality(Nets(c))
<1>1. /\ q \in Pins(d) /\ q \notin D /\ stem \in Named(d) /\ stem \in Nets(c)
      /\ sink \in Named(d) /\ sink \in Nets(c)
      /\ OutCount(d, stem) \in Nat /\ OutCount(d, stem) >= 1
  BY NextRead
<1>2. /\ Shaped(d, c) /\ Recorded(c) /\ IsFiniteSet(Nets(c)) /\ new \notin Nets(c)
  <2>1. Shaped(d, c)
    BY DEF Assembled
  <2> QED BY <2>1, NewNet DEF Shaped, Fresh
<1>3. CASE OutCount(d, stem) = 1
  <2>1. ConnectPin(d, c, q) = Wire(c, stem, sink)
    BY <1>3 DEF ConnectPin
  <2>2. Direct(Wire(c, stem, sink), c, stem, sink)
    BY <1>1, <1>2, DirectStep
  <2>3. Assembled(d, Wire(c, stem, sink), D2, P)
    BY <1>3, <2>2, DirectKeeps
  <2>4. \A k \in DOMAIN d.po : d.po[k] # stem
    <3>1. Uses(d, stem) >= 1
      BY <1>1, UseCounts
    <3>2. \A k \in DOMAIN d.po : d.po[k] = stem => OutCount(d, stem) >= 2
      BY <3>1, UseCounts
    <3> QED BY <1>3, <3>2
  <2>5. \A k \in DOMAIN d.po : k \in P <=> k \in P2
    BY <2>4, MovedGrows
  <2>6. P2 = P
    BY <2>5 DEF Moved
  <2> QED BY <2>1, <2>3, <2>6
<1>4. CASE OutCount(d, stem) # 1
  <2> DEFINE b == Branch(c, stem)
             w == Wire(b, new, sink)
  <2>1. OutCount(d, stem) >= 2
    BY <1>1, <1>4
  <2>2. LastNet(b) = new /\ ViaBranch(w, c, stem, sink, new)
    BY <1>1, <1>2, ViaBranchStep
  <2>3. ConnectPin(d, c, q) = BranchToPort(w, stem)
    BY <1>4, <2>2 DEF ConnectPin
  <2>4. Assembled(d, w, D2, P)
    BY <2>1, <2>2, BranchKeeps
  <2> HIDE DEF b, w
  <2> DEFINE new2 == Cardinality(Nets(w))
  <2>5. /\ Shaped(d, w) /\ Recorded(w) /\ IsFiniteSet(Nets(w)) /\ new2 \notin Nets(w)
    <3>1. Shaped(d, w)
      BY <2>4 DEF Assembled
    <3> QED BY <3>1, NewNet DEF Shaped, Fresh
  <2>6. /\ DOMAIN w.po = DOMAIN d.po /\ stem \in Nets(w)
        /\ \A k \in DOMAIN d.po : k \notin P => w.po[k] = d.po[k]
        /\ \A k \in DOMAIN d.po : k \in P => w.po[k] # stem
    <3>1. Ported(d, w, P)
      BY <2>4 DEF Assembled
    <3> QED BY <1>1, <2>5, <3>1 DEF Shaped, Ported, Branches
  <2>7. CASE \E k \in DOMAIN w.po : w.po[k] = stem
    <3>1. PICK k \in DOMAIN w.po : w.po[k] = stem
      BY <2>7
    <3>2. /\ k \in DOMAIN d.po /\ k \notin P /\ d.po[k] = stem
          /\ \A j \in DOMAIN d.po : d.po[j] = stem => j = k
      BY <2>6, <3>1, PortsOnce
    <3>3. \A j \in DOMAIN w.po : w.po[j] = stem => j = k
      BY <2>6, <3>2
    <3>4. ToPort(BranchToPort(w, stem), w, stem, k, new2)
      <4> HIDE DEF stem
      <4> QED BY <2>5, <2>6, <3>1, <3>3, ToPortStep
    <3>5. Assembled(d, BranchToPort(w, stem), D2, P \union {k})
      BY <2>1, <2>4, <3>2, <3>4, PortKeeps
    <3>6. \A j \in DOMAIN d.po : j \in P2 <=> j \in P \union {k}
      BY <3>2, MovedGrows
    <3>7. P2 = P \union {k}
      BY <3>2, <3>6 DEF Moved
    <3> QED BY <2>3, <3>5, <3>7
  <2>8. CASE ~ \E k \in DOMAIN w.po : w.po[k] = stem
    <3>1. BranchToPort(w, stem) = w
      BY <2>8 DEF BranchToPort
    <3>2. \A j \in DOMAIN d.po : d.po[j] = stem => j \in P
      BY <2>6, <2>8
    <3>3. \A j \in DOMAIN d.po : j \in P2 <=> j \in P
      BY <3>2, MovedGrows
    <3>4. P2 = P
      BY <3>3 DEF Moved
    <3> QED BY <2>3, <2>4, <3>1, <3>4
  <2> QED BY <2>7, <2>8
<1> QED BY <1>3, <1>4

\* The invariant holds before any pin is connected.
LEMMA NothingConnected ==
  ASSUME NEW d, IsDesign(d)
  PROVE  Assembled(d, Unconnected(d), {}, Moved(d, {}))
<1> DEFINE c == Unconnected(d)
           N == Named(d)
           t == [n \in N |-> IF IsInput(d, n) THEN "IN" ELSE d.gates[Driver(d, n)].type]
           e == [n \in N |-> <<>>]
<1>1. c = [type |-> t, in |-> e, out |-> e, pi |-> d.pi, po |-> d.po]
  BY DEF Unconnected, Named
<1>2. Moved(d, {}) = {}
  BY DEF Moved, UsesIn
<1>3. /\ d.nets \in Nat /\ IsFiniteSet(N) /\ Cardinality(N) = d.nets
      /\ d.pi \in Seq(N) /\ d.po \in Seq(N)
  BY DesignRead DEF Readable
<1>4. t = [n \in N |-> t[n]] /\ e = [n \in N |-> e[n]] /\ DOMAIN t = N /\ \A n \in N : e[n] = <<>>
  OBVIOUS
<1> HIDE DEF t, e, c
<1>5. /\ c.type = t /\ c.in = e /\ c.out = e /\ c.pi = d.pi /\ c.po = d.po
  BY <1>1
<1>6. Nets(c) = N
  BY <1>4, <1>5 DEF Nets
<1>7. Recorded(c)
  BY <1>1, <1>4, <1>5, <1>6 DEF Recorded
<1>8. \A n \in N : Inputs(c, n) = {} /\ Outputs(c, n) = {}
  BY <1>4, <1>5 DEF Inputs, Outputs
<1>9. Branches(d, c) = {}
  BY <1>6 DEF Branches
<1>10. Shaped(d, c)
  <2>1. <<>> \in Seq(N)
    OBVIOUS
  <2>2. N = 0 .. Cardinality(N) - 1
    BY <1>3 DEF Named
  <2> HIDE DEF N
  <2> QED BY <1>3, <1>4, <1>5, <1>6, <1>7, <2>1, <2>2 DEF Shaped, N
<1>11. Typed(d, c)
  BY <1>6 DEF Typed, c
<1>12. Edged(c)
  BY <1>6, <1>8 DEF Edged
<1>13. Fed(d, c, {})
  <2>1. \A g \in DOMAIN d.gates : c.in[d.gates[g].out] = <<>>
    BY <1>4, <1>5, GateRead
  <2>2. DOMAIN <<>> = {}
    OBVIOUS
  <2> QED BY <1>4, <1>5, <2>1, <2>2 DEF Fed
<1>14. Apart(d, c, {}, {}) /\ Branching(d, c) /\ Led(d, c)
  BY <1>8, <1>9 DEF Apart, Branching, Led
<1>15. Ported(d, c, {})
  BY <1>5 DEF Ported
<1>16. Counted(d, c, {}, {})
  <2>1. \A n \in N : UsesIn(d, {}, n) = {} /\ PortsIn(d, {}, n) = {}
    BY DEF UsesIn, PortsIn
  <2>2. Cardinality({}) = 0 /\ Len(<<>>) = 0
    BY FS_EmptySet
  <2>3. ASSUME NEW n \in N
        PROVE  Len(c.out[n]) = Cardinality(UsesIn(d, {}, n)) + Cardinality(PortsIn(d, {}, n))
    <3>1. c.out[n] = <<>>
      BY <1>4, <1>5
    <3>2. Len(c.out[n]) = 0
      BY <2>2, <3>1
    <3>3. Cardinality(UsesIn(d, {}, n)) = 0 /\ Cardinality(PortsIn(d, {}, n)) = 0
      BY <2>1, <2>2
    <3> DEFINE x == Len(c.out[n])
    <3> HIDE DEF x
    <3>4. x = Cardinality(UsesIn(d, {}, n)) + Cardinality(PortsIn(d, {}, n))
      BY <3>2, <3>3 DEF x
    <3> QED BY <3>4 DEF x
  <2> QED BY <2>3 DEF Counted
<1>17. Sized(d, c, {}, {})
  <2>1. Cardinality({}) = 0
    BY FS_EmptySet
  <2> HIDE DEF N
  <2> QED BY <1>3, <1>6, <2>1 DEF Sized
<1>18. Assembled(d, c, {}, {})
  BY <1>10, <1>11, <1>12, <1>13, <1>14, <1>15, <1>16, <1>17 DEF Assembled
<1> QED BY <1>2, <1>18 DEF c

-----------------------------------------------------------------------------
(* The steps of the specification *)

\* The finished circuit.
IsBuiltFrom(d, c, w) ==
  w = IF FlipFlops(c) = <<>> THEN StuckAtCircuit(c) ELSE Expanded(c)

\* While the pins are connected, the circuit has those of the modules and pins
\* before the next one; then all, and in the end the finished circuit is made
\* from that.
BuildInv ==
  /\ design \in Designs
  /\ phase \in {"connect", "finish", "built"}
  /\ module \in Nat /\ pin \in Nat
  /\ phase = "connect" =>
       /\ module <= Len(design.gates) => module >= 1 /\ <<module, pin>> \in Pins(design)
       /\ module > Len(design.gates) => pin = 1
       /\ Assembled(design, circuit, Before(design, module, pin), Moved(design, Before(design, module, pin)))
  /\ phase = "finish" => Assembled(design, circuit, Pins(design), Moved(design, Pins(design)))
  /\ phase = "built" =>
       \E c : Assembled(design, c, Pins(design), Moved(design, Pins(design))) /\ IsBuiltFrom(design, c, circuit)

\* Every module has a first pin.
LEMMA FirstPin ==
  ASSUME NEW d, IsDesign(d), NEW g \in DOMAIN d.gates
  PROVE  <<g, 1>> \in Pins(d)
<1>1. d.gates[g].in \in Seq(Named(d)) /\ d.gates[g].in # <<>>
  BY GateRead
<1>2. 1 \in DOMAIN d.gates[g].in
  BY <1>1
<1> QED BY <1>2, DesignRead

\* No pin is before the first.
LEMMA NoneBefore ==
  ASSUME NEW d, IsDesign(d)
  PROVE  Before(d, 1, 1) = {}
<1>1. ASSUME NEW q \in Pins(d) PROVE ~ (q[1] < 1 \/ (q[1] = 1 /\ q[2] < 1))
  <2>1. q[1] \in DOMAIN d.gates /\ q[2] \in DOMAIN d.gates[q[1]].in
    BY PinRead
  <2>2. DOMAIN d.gates = 1 .. Len(d.gates) /\ Len(d.gates) \in Nat
    BY DesignRead
  <2>3. d.gates[q[1]].in \in Seq(Named(d))
    BY <2>1, GateRead
  <2>4. \A s \in Seq(Named(d)) : \A i \in DOMAIN s : i \in Nat /\ i >= 1
    OBVIOUS
  <2>5. q[2] \in Nat /\ q[2] >= 1
    BY <2>1, <2>3, <2>4
  <2>6. q[1] \in Nat /\ q[1] >= 1
    BY <2>1, <2>2
  <2> QED BY <2>5, <2>6
<1> QED BY <1>1 DEF Before

\* Behind the last module all pins have been connected.
LEMMA AllBefore ==
  ASSUME NEW d, IsDesign(d), NEW g \in Nat, g > Len(d.gates), NEW p
  PROVE  Before(d, g, p) = Pins(d)
<1>1. ASSUME NEW q \in Pins(d) PROVE q[1] < g
  <2>1. q[1] \in DOMAIN d.gates
    BY PinRead
  <2>2. DOMAIN d.gates = 1 .. Len(d.gates) /\ Len(d.gates) \in Nat
    BY DesignRead
  <2> QED BY <2>1, <2>2
<1> QED BY <1>1 DEF Before

\* A pin among the others.
Placed(d, g, p) ==
  /\ g \in DOMAIN d.gates /\ DOMAIN d.gates[g].in = 1 .. Len(d.gates[g].in)
  /\ Len(d.gates[g].in) \in Nat /\ p >= 1 /\ p <= Len(d.gates[g].in)
  /\ \A r \in Pins(d) : /\ r[1] \in Nat /\ r[2] \in Nat
                        /\ r = <<g, p>> <=> r[1] = g /\ r[2] = p
  /\ \A r \in Pins(d) : r[2] >= 1 /\ (r[1] = g => r[2] <= Len(d.gates[g].in))

\* What there is to say of its place.
LEMMA PinPlace ==
  ASSUME NEW d, IsDesign(d), NEW g \in Nat, NEW p \in Nat, <<g, p>> \in Pins(d)
  PROVE  Placed(d, g, p)
<1> DEFINE q == <<g, p>>
           l == d.gates[g].in
<1>1. /\ g \in DOMAIN d.gates /\ p \in DOMAIN l
      /\ q[1] = g /\ q[2] = p
  <2>1. q[1] = g /\ q[2] = p
    OBVIOUS
  <2>2. q[1] \in DOMAIN d.gates /\ q[2] \in DOMAIN d.gates[q[1]].in
    BY PinRead
  <2> QED BY <2>1, <2>2
<1>2. DOMAIN l = 1 .. Len(l) /\ Len(l) \in Nat
  <2>1. l \in Seq(Named(d))
    BY <1>1, GateRead
  <2> HIDE DEF l
  <2> QED BY <2>1
<1>3. p >= 1 /\ p <= Len(l)
  BY <1>1, <1>2
<1>4. \A r \in Pins(d) : /\ r[1] \in Nat /\ r[2] \in Nat
                         /\ r = q <=> r[1] = g /\ r[2] = p
  BY PinRead
<1>5. \A r \in Pins(d) : r[2] >= 1 /\ (r[1] = g => r[2] <= Len(l))
  <2> SUFFICES ASSUME NEW r \in Pins(d) PROVE r[2] >= 1 /\ (r[1] = g => r[2] <= Len(l))
    OBVIOUS
  <2>1. r[1] \in DOMAIN d.gates /\ r[2] \in DOMAIN d.gates[r[1]].in
    BY PinRead
  <2>2. d.gates[r[1]].in \in Seq(Named(d))
    BY <2>1, GateRead
  <2>3. \A s \in Seq(Named(d)) : \A i \in DOMAIN s : i >= 1 /\ i <= Len(s)
    OBVIOUS
  <2> QED BY <2>1, <2>2, <2>3
<1> QED BY <1>1, <1>2, <1>3, <1>4, <1>5 DEF Placed

\* The next pin of the same module.
LEMMA BeforeNext ==
  ASSUME NEW d, IsDesign(d), NEW g \in Nat, NEW p \in Nat, <<g, p>> \in Pins(d),
         p < Len(d.gates[g].in)
  PROVE  /\ <<g, p + 1>> \in Pins(d)
         /\ Before(d, g, p + 1) = Before(d, g, p) \union {<<g, p>>}
<1> DEFINE q == <<g, p>>
<1>10. Placed(d, g, p)
  BY PinPlace
<1>1. /\ g \in DOMAIN d.gates /\ DOMAIN d.gates[g].in = 1 .. Len(d.gates[g].in)
      /\ Len(d.gates[g].in) \in Nat
      /\ \A r \in Pins(d) : /\ r[1] \in Nat /\ r[2] \in Nat
                            /\ r = q <=> r[1] = g /\ r[2] = p
  BY <1>10 DEF Placed
<1>2. p + 1 \in DOMAIN d.gates[g].in /\ p + 1 \in Nat
  BY <1>1
<1>3. <<g, p + 1>> \in Pins(d)
  BY <1>1, <1>2, DesignRead
<1>4. q \in Pins(d)
  OBVIOUS
<1> HIDE DEF q
<1>5. \A r \in Pins(d) : r[1] < g \/ (r[1] = g /\ r[2] < p + 1) <=> (r[1] < g \/ (r[1] = g /\ r[2] < p)) \/ r = q
  BY <1>1
<1>6. Before(d, g, p + 1) = Before(d, g, p) \union {q}
  BY <1>4, <1>5 DEF Before
<1> QED BY <1>3, <1>6 DEF q

\* The last pin of a module.
LEMMA BeforeModule ==
  ASSUME NEW d, IsDesign(d), NEW g \in Nat, NEW p \in Nat, <<g, p>> \in Pins(d),
         p = Len(d.gates[g].in)
  PROVE  Before(d, g + 1, 1) = Before(d, g, p) \union {<<g, p>>}
<1> DEFINE q == <<g, p>>
<1>10. Placed(d, g, p)
  BY PinPlace
<1>1. /\ \A r \in Pins(d) : /\ r[1] \in Nat /\ r[2] \in Nat
                            /\ r = q <=> r[1] = g /\ r[2] = p
      /\ \A r \in Pins(d) : r[2] >= 1 /\ (r[1] = g => r[2] <= p)
  BY <1>10 DEF Placed
<1>2. q \in Pins(d)
  OBVIOUS
<1> HIDE DEF q
<1>3. \A r \in Pins(d) : r[1] < g + 1 \/ (r[1] = g + 1 /\ r[2] < 1) <=> (r[1] < g \/ (r[1] = g /\ r[2] < p)) \/ r = q
  BY <1>1
<1>4. Before(d, g + 1, 1) = Before(d, g, p) \union {q}
  BY <1>2, <1>3 DEF Before
<1> QED BY <1>4 DEF q

\* A module's pins are connected in order, so a pin's input lands in its place.
LEMMA NextFits ==
  ASSUME NEW d, IsDesign(d), NEW g \in Nat, NEW p \in Nat, <<g, p>> \in Pins(d),
         NEW c, NEW P, Assembled(d, c, Before(d, g, p), P)
  PROVE  IsNext(d, c, Before(d, g, p), <<g, p>>)
<1> DEFINE q == <<g, p>>
           D == Before(d, g, p)
           l == c.in[Sink(d, q)]
<1>1. q[1] = g /\ q[2] = p
  OBVIOUS
<1>2. g \in DOMAIN d.gates /\ p \in DOMAIN d.gates[g].in /\ Sink(d, q) = d.gates[g].out /\ Sink(d, q) \in Named(d)
  BY <1>1, PinRead
<1>3. q \notin D
  BY <1>1 DEF Before
<1>4. DOMAIN d.gates[g].in = 1 .. Len(d.gates[g].in) /\ Len(d.gates[g].in) \in Nat
  <2>1. d.gates[g].in \in Seq(Named(d))
    BY <1>2, GateRead
  <2> QED BY <2>1
<1>5. ASSUME NEW i \in Nat PROVE <<g, i>> \in D <=> i \in 1 .. p - 1
  <2>1. <<g, i>>[1] = g /\ <<g, i>>[2] = i
    OBVIOUS
  <2>2. <<g, i>> \in D <=> <<g, i>> \in Pins(d) /\ i < p
    BY <2>1 DEF Before
  <2>3. <<g, i>> \in Pins(d) <=> i \in DOMAIN d.gates[g].in
    <3>1. <<g, i>> \in Pins(d) => i \in DOMAIN d.gates[g].in
      BY <2>1, PinRead
    <3> QED BY <1>2, <3>1, DesignRead
  <2> QED BY <1>2, <1>4, <2>2, <2>3
<1>6. \A i \in Nat : <<g, i>> \in D <=> i \in DOMAIN l
  BY <1>2 DEF Assembled, Fed
<1>7. l \in Seq(Nets(c))
  BY <1>2 DEF Assembled, Shaped
<1> HIDE DEF l, q, D
<1>8. DOMAIN l = 1 .. Len(l) /\ Len(l) \in Nat
  BY <1>7
<1>9. \A i \in Nat : i \in 1 .. Len(l) <=> i \in 1 .. p - 1
  BY <1>5, <1>6, <1>8
<1>10. p >= 1
  BY <1>2, <1>4
<1>11. Len(l) = p - 1
  <2>1. Len(l) <= p - 1
    <3>1. Len(l) = 0 \/ Len(l) \in 1 .. Len(l)
      BY <1>8
    <3> QED BY <1>8, <1>9, <1>10, <3>1
  <2>2. p - 1 <= Len(l)
    <3>1. p - 1 \in Nat /\ (p - 1 = 0 \/ p - 1 \in 1 .. p - 1)
      BY <1>10
    <3> QED BY <1>8, <1>9, <1>10, <3>1
  <2> QED BY <1>8, <1>10, <2>1, <2>2
<1>12. q \in Pins(d)
  BY DEF q
<1> QED BY <1>1, <1>3, <1>8, <1>11, <1>12 DEF IsNext, l, q, D

\* The invariant holds at first.
LEMMA BuildInvInit ==
  Init => BuildInv
<1> SUFFICES ASSUME Init PROVE BuildInv
  OBVIOUS
<1>1. /\ design \in Designs /\ IsDesign(design)
      /\ module = 1 /\ pin = 1 /\ circuit = Unconnected(design) /\ phase = "connect"
  BY DesignsAssumption DEF Init
<1>2. Before(design, module, pin) = {}
  BY <1>1, NoneBefore
<1>3. Assembled(design, circuit, {}, Moved(design, {}))
  BY <1>1, NothingConnected
<1>4. module <= Len(design.gates) => <<module, pin>> \in Pins(design)
  <2>1. DOMAIN design.gates = 1 .. Len(design.gates) /\ Len(design.gates) \in Nat
    BY <1>1, DesignRead
  <2>2. 1 <= Len(design.gates) => 1 \in DOMAIN design.gates
    BY <2>1
  <2> QED BY <1>1, <2>2, FirstPin
<1>5. Assembled(design, circuit, Before(design, module, pin), Moved(design, Before(design, module, pin)))
  BY <1>2, <1>3
<1> QED BY <1>1, <1>4, <1>5 DEF BuildInv

\* Every step keeps the invariant.
LEMMA BuildInvStep ==
  BuildInv /\ [Next]_vars => BuildInv'
<1> SUFFICES ASSUME BuildInv, [Next]_vars PROVE BuildInv'
  OBVIOUS
<1>1. design \in Designs /\ IsDesign(design) /\ module \in Nat /\ pin \in Nat
  BY DesignsAssumption DEF BuildInv
<1>2. DOMAIN design.gates = 1 .. Len(design.gates) /\ Len(design.gates) \in Nat
  BY <1>1, DesignRead
<1>3. CASE Connect
  <2> DEFINE q == <<module, pin>>
             D == Before(design, module, pin)
             D2 == D \union {q}
  <2>1. /\ phase = "connect" /\ module <= Len(design.gates)
        /\ circuit' = ConnectPin(design, circuit, q)
        /\ design' = design /\ phase' = phase
    BY <1>3 DEF Connect
  <2>2. q \in Pins(design) /\ module >= 1 /\ Assembled(design, circuit, D, Moved(design, D))
    BY <2>1 DEF BuildInv
  <2>3. IsNext(design, circuit, D, q)
    BY <1>1, <2>2, NextFits
  <2>4. Assembled(design, circuit', D2, Moved(design, D2))
    BY <1>1, <2>1, <2>2, <2>3, ConnectKeeps
  <2>5. CASE pin < Len(design.gates[module].in)
    <3>1. pin' = pin + 1 /\ module' = module
      BY <1>3, <2>5 DEF Connect
    <3>2. Before(design, module, pin + 1) = D2 /\ <<module, pin + 1>> \in Pins(design)
      BY <1>1, <2>2, <2>5, BeforeNext
    <3>3. pin + 1 \in Nat /\ ~ (module > Len(design.gates))
      BY <1>1, <1>2, <2>1
    <3> HIDE DEF D2
    <3> QED BY <1>1, <2>1, <2>2, <2>4, <3>1, <3>2, <3>3 DEF BuildInv
  <2>6. CASE ~ (pin < Len(design.gates[module].in))
    <3>1. pin' = 1 /\ module' = module + 1
      BY <1>3, <2>6 DEF Connect
    <3>2. pin = Len(design.gates[module].in)
      <4>1. module \in DOMAIN design.gates
        BY <1>1, <1>2, <2>1, <2>2
      <4>2. design.gates[module].in \in Seq(Named(design))
        BY <1>1, <4>1, GateRead
      <4>3. \A s \in Seq(Named(design)) : Len(s) \in Nat
        OBVIOUS
      <4>4. Len(design.gates[module].in) \in Nat
        BY <4>2, <4>3
      <4>5. pin <= Len(design.gates[module].in)
        BY <1>1, <2>2, PinPlace DEF Placed
      <4> QED BY <1>1, <2>6, <4>4, <4>5
    <3>3. Before(design, module + 1, 1) = D2
      BY <1>1, <2>2, <3>2, BeforeModule
    <3>4. module + 1 <= Len(design.gates) => <<module + 1, 1>> \in Pins(design)
      <4>1. module + 1 <= Len(design.gates) => module + 1 \in DOMAIN design.gates
        BY <1>1, <1>2, <2>2
      <4> QED BY <1>1, <4>1, FirstPin
    <3>5. module + 1 \in Nat /\ module + 1 >= 1
      BY <1>1, <2>2
    <3> HIDE DEF D2
    <3> QED BY <1>1, <2>1, <2>4, <3>1, <3>3, <3>4, <3>5 DEF BuildInv
  <2> QED BY <2>5, <2>6
<1>4. CASE AllConnected
  <2>1. /\ phase = "connect" /\ module > Len(design.gates) /\ phase' = "finish"
        /\ design' = design /\ module' = module /\ pin' = pin /\ circuit' = circuit
    BY <1>4 DEF AllConnected
  <2>2. Before(design, module, pin) = Pins(design)
    BY <1>1, <2>1, AllBefore
  <2> QED BY <1>1, <2>1, <2>2 DEF BuildInv
<1>5. CASE Finish
  <2>1. /\ phase = "finish" /\ phase' = "built" /\ IsBuiltFrom(design, circuit, circuit')
        /\ design' = design /\ module' = module /\ pin' = pin
    BY <1>5 DEF Finish, IsBuiltFrom
  <2>2. Assembled(design, circuit, Pins(design), Moved(design, Pins(design)))
    BY <2>1 DEF BuildInv
  <2> QED BY <1>1, <2>1, <2>2 DEF BuildInv
<1>6. CASE UNCHANGED vars
  BY <1>6 DEF BuildInv, vars
<1>7. CASE Built
  BY <1>6, <1>7 DEF Built
<1> QED BY <1>3, <1>4, <1>5, <1>6, <1>7 DEF Next

\* In every state of the construction, of any design, the circuit is the
\* one the pins connected so far call for: BuildInv, of which the three
\* properties of the module are consequences.
THEOREM BuildInvariant ==
  Spec => []BuildInv
<1> QED BY BuildInvInit, BuildInvStep, PTL DEF Spec

-----------------------------------------------------------------------------
(* The arrays *)

\* Every net is declared as an input or driven by a module.
LEMMA NetsDeclared ==
  ASSUME NEW d, IsDesign(d)
  PROVE  /\ Len(d.pi) \in Nat /\ Len(d.gates) \in Nat
         /\ d.nets <= Len(d.pi) + Len(d.gates)
<1> DEFINE N == Named(d)
           a == Len(d.pi)
           b == Len(d.gates)
           I == 1 .. a + b
           f == [i \in I |-> IF i <= a THEN d.pi[i] ELSE d.gates[i - a].out]
<1>1. /\ a \in Nat /\ DOMAIN d.pi = 1 .. a /\ \A i \in DOMAIN d.pi : d.pi[i] \in N
  <2>1. d.pi \in Seq(N)
    BY DesignRead DEF Readable
  <2> HIDE DEF N
  <2> QED BY <2>1
<1>2. b \in Nat /\ DOMAIN d.gates = 1 .. b /\ \A g \in DOMAIN d.gates : d.gates[g].out \in N
  BY DesignRead, GateRead
<1>3. /\ IsFiniteSet(N) /\ Cardinality(N) = d.nets /\ d.nets \in Nat
  BY DesignRead DEF Readable
<1>4. \A n \in N : IsInput(d, n) => \E i \in DOMAIN d.pi : d.pi[i] = n
  BY DEF IsDesign, Named
<1> HIDE DEF N, a, b
<1>5. IsFiniteSet(I) /\ Cardinality(I) = a + b
  <2> DEFINE k == a + b
  <2>1. k \in Nat
    BY <1>1, <1>2
  <2> HIDE DEF k
  <2>2. IsFiniteSet(1 .. k) /\ Cardinality(1 .. k) = k
    BY <2>1, FS_Interval
  <2> QED BY <2>2 DEF k
<1>6. f \in [I -> N]
  <2>1. ASSUME NEW i \in I, i <= a PROVE d.pi[i] \in N
    BY <1>1, <1>2, <2>1
  <2>2. ASSUME NEW i \in I, ~ (i <= a) PROVE d.gates[i - a].out \in N
    <3>1. i - a \in 1 .. b
      BY <1>1, <1>2, <2>2
    <3> QED BY <1>2, <3>1
  <2> QED BY <2>1, <2>2
<1>7. \A n \in N : \E i \in I : f[i] = n
  <2> SUFFICES ASSUME NEW n \in N PROVE \E i \in I : f[i] = n
    OBVIOUS
  <2>1. CASE IsInput(d, n)
    <3>1. PICK i \in DOMAIN d.pi : d.pi[i] = n
      BY <1>4, <2>1
    <3>2. i \in I /\ i <= a
      BY <1>1, <1>2
    <3> QED BY <3>1, <3>2
  <2>2. CASE ~ IsInput(d, n)
    <3>1. PICK g \in DOMAIN d.gates : d.gates[g].out = n
      BY <2>2 DEF IsInput
    <3>2. g + a \in I /\ ~ (g + a <= a) /\ (g + a) - a = g
      BY <1>1, <1>2
    <3> QED BY <3>1, <3>2
  <2> QED BY <2>1, <2>2
<1>8. f \in Surjection(I, N)
  BY <1>6, <1>7 DEF Surjection
<1> HIDE DEF f, I
<1>9. Cardinality(N) <= Cardinality(I)
  BY <1>5, <1>8, FS_Surjection
<1> QED BY <1>1, <1>2, <1>3, <1>5, <1>9 DEF a, b

\* Of the uses of a net those so far are some.
LEMMA UsesSoFar ==
  ASSUME NEW d, IsDesign(d), NEW D, D \subseteq Pins(d), NEW n
  PROVE  /\ Cardinality(UsesIn(d, D, n)) \in Nat /\ Cardinality(PortsIn(d, Moved(d, D), n)) \in Nat
         /\ Cardinality(UsesIn(d, D, n)) + Cardinality(PortsIn(d, Moved(d, D), n)) <= OutCount(d, n)
         /\ D = Pins(d) =>
              Cardinality(UsesIn(d, D, n)) + Cardinality(PortsIn(d, Moved(d, D), n)) = OutCount(d, n)
<1> DEFINE U == UsesIn(d, D, n)
           A == UsesIn(d, Pins(d), n)
           Q == PortsIn(d, Moved(d, D), n)
<1>1. IsFiniteSet(A) /\ Uses(d, n) = Cardinality(A)
  BY PinsFinite, FS_Subset DEF UsesIn, Uses
<1>2. U \subseteq A /\ (D = Pins(d) => U = A)
  BY DEF UsesIn
<1>3. ASSUME NEW k \in Q PROVE U # {} /\ k \in DOMAIN d.po /\ d.po[k] = n
  BY DEF PortsIn, Moved
<1>4. ASSUME NEW k \in DOMAIN d.po, d.po[k] = n, U # {} PROVE k \in Q
  BY <1>4 DEF PortsIn, Moved
<1> HIDE DEF U, A, Q
<1>5. IsFiniteSet(U) /\ Cardinality(U) <= Cardinality(A) /\ Cardinality(U) \in Nat /\ Cardinality(A) \in Nat
  BY <1>1, <1>2, FS_Subset, FS_CardinalityType
<1>6. Cardinality(U) = 0 <=> U = {}
  BY <1>5, FS_EmptySet
<1>7. CASE Q = {}
  <2>1. Cardinality(Q) = 0
    BY <1>7, FS_EmptySet
  <2>2. D = Pins(d) => OutCount(d, n) = Uses(d, n)
    <3> SUFFICES ASSUME D = Pins(d) PROVE ~ (Uses(d, n) >= 1 /\ \E k \in DOMAIN d.po : d.po[k] = n)
      BY <1>1, <1>5 DEF OutCount
    <3> QED BY <1>1, <1>2, <1>4, <1>6, <1>7
  <2>3. Uses(d, n) <= OutCount(d, n) /\ OutCount(d, n) \in Nat
    BY UseCounts
  <2> QED BY <1>1, <1>2, <1>5, <2>1, <2>2, <2>3 DEF U, Q
<1>8. CASE Q # {}
  <2>1. PICK k : k \in Q
    BY <1>8
  <2>2. U # {} /\ k \in DOMAIN d.po /\ d.po[k] = n
    BY <1>3, <2>1
  <2>3. Q = {k}
    BY <1>3, <2>1, <2>2, PortsOnce
  <2>4. Cardinality(Q) = 1
    BY <2>3, FS_Singleton
  <2>5. Uses(d, n) >= 1
    BY <1>1, <1>5, <1>6, <2>2
  <2>6. OutCount(d, n) = Uses(d, n) + 1
    BY <2>2, <2>5 DEF OutCount
  <2> QED BY <1>1, <1>2, <1>5, <2>4, <2>6 DEF U, Q
<1> QED BY <1>7, <1>8

\* There are never more nets than were reserved.
LEMMA EnoughRoom ==
  ASSUME NEW d, IsDesign(d), NEW c, NEW D, Assembled(d, c, D, Moved(d, D))
  PROVE  Cardinality(Nets(c)) <= AllocatedNets(d)
<1> DEFINE P == Moved(d, D)
<1>1. D \subseteq Pins(d) /\ P \subseteq DOMAIN d.po
  BY DEF Assembled
<1>2. Cardinality(Nets(c)) <= d.nets + Cardinality(D) + Cardinality(P)
  BY DEF Assembled, Sized
<1>3. Cardinality(D) <= Cardinality(Pins(d)) /\ Cardinality(D) \in Nat /\ Cardinality(Pins(d)) \in Nat
  BY <1>1, PinsFinite, FS_Subset, FS_CardinalityType
<1>4. Cardinality(P) <= Len(d.po) /\ Cardinality(P) \in Nat /\ Len(d.po) \in Nat
  <2>1. DOMAIN d.po = 1 .. Len(d.po) /\ Len(d.po) \in Nat /\ IsFiniteSet(DOMAIN d.po)
    BY PortsOnce
  <2>2. Cardinality(DOMAIN d.po) = Len(d.po)
    BY <2>1, FS_Interval
  <2>3. IsFiniteSet(P) /\ Cardinality(P) <= Cardinality(DOMAIN d.po)
    BY <1>1, <2>1, FS_Subset
  <2> QED BY <2>1, <2>2, <2>3, FS_CardinalityType
<1>5. d.nets \in Nat /\ Len(d.pi) \in Nat /\ Len(d.gates) \in Nat /\ d.nets <= Len(d.pi) + Len(d.gates)
  BY NetsDeclared, DesignRead DEF Readable
<1>6. Cardinality(Nets(c)) \in Nat
  BY FS_CardinalityType DEF Assembled, Shaped
<1> DEFINE x == Cardinality(Nets(c))
           i == Len(d.pi)
           o == Len(d.po)
           g == Len(d.gates)
           u == Cardinality(D)
           v == Cardinality(Pins(d))
           p == Cardinality(P)
           n == d.nets
<1>7. /\ x <= n + u + p /\ u <= v /\ p <= o /\ n <= i + g
      /\ x \in Nat /\ i \in Nat /\ o \in Nat /\ g \in Nat
      /\ u \in Nat /\ v \in Nat /\ p \in Nat /\ n \in Nat
  BY <1>2, <1>3, <1>4, <1>5, <1>6
<1> HIDE DEF x, i, o, g, u, v, p, n
<1>8. x <= i + o + g + v
  BY <1>7
<1> QED BY <1>8 DEF AllocatedNets, x, i, o, g, v

\* A net's slots are filled up and never written beyond.
LEMMA SlotsSuffice ==
  ASSUME NEW d, IsDesign(d), NEW c, NEW D, Assembled(d, c, D, Moved(d, D)), NEW n \in Named(d)
  PROVE  /\ Len(c.out[n]) <= OutCount(d, n) /\ Len(c.in[n]) <= InCount(d, n)
         /\ D = Pins(d) => Len(c.out[n]) = OutCount(d, n) /\ Len(c.in[n]) = InCount(d, n)
<1>1. D \subseteq Pins(d)
  BY DEF Assembled
<1>2. /\ Len(c.out[n]) <= OutCount(d, n)
      /\ D = Pins(d) => Len(c.out[n]) = OutCount(d, n)
  <2>1. Len(c.out[n]) = Cardinality(UsesIn(d, D, n)) + Cardinality(PortsIn(d, Moved(d, D), n))
    BY DEF Assembled, Counted
  <2> DEFINE x == Len(c.out[n])
             y == Cardinality(UsesIn(d, D, n)) + Cardinality(PortsIn(d, Moved(d, D), n))
  <2>2. x = y
    BY <2>1
  <2>3. y <= OutCount(d, n) /\ (D = Pins(d) => y = OutCount(d, n))
    BY <1>1, UsesSoFar
  <2> HIDE DEF x, y
  <2>4. x <= OutCount(d, n) /\ (D = Pins(d) => x = OutCount(d, n))
    BY <2>2, <2>3
  <2> QED BY <2>4 DEF x
<1>3. /\ Len(c.in[n]) <= InCount(d, n)
      /\ D = Pins(d) => Len(c.in[n]) = InCount(d, n)
  <2> DEFINE l == c.in[n]
  <2>1. l \in Seq(Nets(c))
    BY DEF Assembled, Shaped
  <2>2. Fed(d, c, D)
    BY DEF Assembled
  <2>3. CASE IsInput(d, n)
    <3>1. l = <<>> /\ DrivenBy(d, n) = <<>>
      BY <2>2, <2>3 DEF Fed, DrivenBy
    <3> QED BY <3>1 DEF InCount
  <2>4. CASE ~ IsInput(d, n)
    <3> DEFINE g == Driver(d, n)
               r == d.gates[g].in
    <3>1. g \in DOMAIN d.gates /\ d.gates[g].out = n
      BY <2>4 DEF IsInput, Driver
    <3>2. InCount(d, n) = Len(r)
      BY <2>4 DEF InCount, DrivenBy
    <3>3. r \in Seq(Named(d))
      BY <3>1, GateRead
    <3>4. \A p \in Nat : <<g, p>> \in D <=> p \in DOMAIN l
      BY <2>2, <3>1 DEF Fed
    <3>5. ASSUME NEW p \in Nat PROVE <<g, p>> \in Pins(d) <=> p \in DOMAIN r
      <4>1. <<g, p>>[1] = g /\ <<g, p>>[2] = p
        OBVIOUS
      <4>2. <<g, p>> \in Pins(d) => p \in DOMAIN r
        BY <4>1, PinRead
      <4> QED BY <3>1, <4>2, DesignRead
    <3> HIDE DEF l, g, r
    <3>6. DOMAIN l = 1 .. Len(l) /\ Len(l) \in Nat
      BY <2>1
    <3>7. DOMAIN r = 1 .. Len(r) /\ Len(r) \in Nat
      BY <3>3
    <3>8. \A p \in Nat : p \in 1 .. Len(l) => p \in 1 .. Len(r)
      BY <1>1, <3>4, <3>5, <3>6, <3>7
    <3>9. Len(l) <= Len(r)
      <4>1. Len(l) = 0 \/ Len(l) \in 1 .. Len(l)
        BY <3>6
      <4> QED BY <3>6, <3>7, <3>8, <4>1
    <3>10. D = Pins(d) => Len(l) = Len(r)
      <4> SUFFICES ASSUME D = Pins(d) PROVE Len(l) = Len(r)
        OBVIOUS
      <4>1. \A p \in Nat : p \in 1 .. Len(r) => p \in 1 .. Len(l)
        BY <3>4, <3>5, <3>6, <3>7
      <4>2. Len(r) = 0 \/ Len(r) \in 1 .. Len(r)
        BY <3>7
      <4>3. Len(r) <= Len(l)
        BY <3>6, <3>7, <4>1, <4>2
      <4> DEFINE x == Len(l)
                 y == Len(r)
      <4>4. x \in Nat /\ y \in Nat /\ x <= y /\ y <= x
        BY <3>6, <3>7, <3>9, <4>3
      <4> HIDE DEF x, y
      <4>5. x = y
        BY <4>4
      <4> QED BY <4>5 DEF x, y
    <3> QED BY <3>2, <3>9, <3>10 DEF l
  <2> QED BY <2>3, <2>4
<1> QED BY <1>2, <1>3

\* What is reserved before connecting suffices for it.
THEOREM EveryArraySuffices ==
  Spec => []ArraysSuffice
<1>1. BuildInv => ArraysSuffice
  <2> SUFFICES ASSUME BuildInv, phase # "built" PROVE ArraysSuffice
    BY DEF ArraysSuffice
  <2>1. IsDesign(design)
    BY DesignsAssumption DEF BuildInv
  <2> DEFINE D == IF phase = "connect" THEN Before(design, module, pin) ELSE Pins(design)
  <2>2. Assembled(design, circuit, D, Moved(design, D)) /\ (phase = "finish" => D = Pins(design))
    BY DEF BuildInv
  <2> HIDE DEF D
  <2>3. Cardinality(Nets(circuit)) <= AllocatedNets(design)
    BY <2>1, <2>2, EnoughRoom
  <2>4. ASSUME NEW n \in Named(design)
        PROVE  /\ Len(circuit.out[n]) <= OutCount(design, n)
               /\ phase = "finish" => Len(circuit.out[n]) = OutCount(design, n)
               /\ Len(circuit.in[n]) <= InCount(design, n)
               /\ phase = "finish" => Len(circuit.in[n]) = InCount(design, n)
    BY <2>1, <2>2, SlotsSuffice
  <2> QED BY <2>3, <2>4 DEF ArraysSuffice, Named
<1> QED BY <1>1, BuildInvariant, PTL

-----------------------------------------------------------------------------
(* Levels *)

\* The maximum of finitely many numbers.
LEMMA Largest ==
  ASSUME NEW S, IsFiniteSet(S), S \subseteq Nat, S # {}
  PROVE  Max(S) \in S /\ \A y \in S : y <= Max(S)
<1>1. Cardinality(S) \in Nat /\ Cardinality(S) # 0
  BY FS_CardinalityType, FS_EmptySet
<1>2. Cardinality(S) \in 1 .. Cardinality(S)
  BY <1>1
<1>3. PICK x \in S : Position(x, S) = Cardinality(S)
  BY <1>2, PositionsTaken
<1> DEFINE T == {m \in S : m <= x}
<1>4. T = S
  <2>1. T \subseteq S /\ Cardinality(T) = Cardinality(S)
    BY <1>3 DEF Position
  <2> HIDE DEF T
  <2> QED BY <2>1, FS_Subset
<1>5. \A y \in S : y <= x
  BY <1>4
<1>6. \A y \in S : x >= y
  BY <1>5
<1>7. \E z \in S : \A y \in S : z >= y
  BY <1>6
<1>8. Max(S) \in S /\ \A y \in S : Max(S) >= y
  BY <1>7 DEF Max
<1> QED BY <1>8

\* Along the inputs of its nets a circuit does not run in circles.
Ranks(c, r, b) ==
  /\ b \in Nat /\ r \in [Nets(c) -> 0 .. b]
  /\ \A n \in Nets(c) : c.type[n] # "IN" =>
       Inputs(c, n) # {} /\ IsFiniteSet(Inputs(c, n))
       /\ \A m \in Inputs(c, n) : m \in Nets(c) /\ r[m] < r[n]

\* Of some nets one is lowest.
LEMMA LowestRank ==
  ASSUME NEW N, NEW r, NEW b \in Nat, r \in [N -> 0 .. b], NEW S, S \subseteq N, S # {}
  PROVE  \E n \in S : \A m \in S : r[n] <= r[m]
<1> DEFINE T == {r[n] : n \in S}
<1>1. T \subseteq Nat /\ T # {}
  OBVIOUS
<1>2. PICK x \in T : \A y \in T : x <= y
  <2> HIDE DEF T
  <2> QED BY <1>1, LeastNumber
<1>3. PICK n \in S : x = r[n]
  BY <1>2
<1> QED BY <1>2, <1>3

\* Levels are well defined.
LEMMA LevelsExist ==
  ASSUME NEW c, NEW r, NEW b, Ranks(c, r, b)
  PROVE  /\ Levels(c) = [n \in Nets(c) |-> Levels(c)[n]]
         /\ \A n \in Nets(c) :
              Levels(c)[n] = IF c.type[n] = "IN" THEN 0 ELSE 1 + Max({Levels(c)[m] : m \in Inputs(c, n)})
<1> DEFINE N == Nets(c)
           E(v, n) == IF c.type[n] = "IN" THEN 0 ELSE 1 + Max({v[m] : m \in Inputs(c, n)})
           Upto(v, k) == \A n \in N : r[n] < k => v[n] = E(v, n)
<1>1. b \in Nat /\ r \in [N -> 0 .. b] /\ \A n \in N : r[n] \in Nat /\ r[n] <= b
  BY DEF Ranks
<1>20. \A n \in N : c.type[n] # "IN" => \A m \in Inputs(c, n) : m \in N /\ r[m] < r[n]
  BY DEF Ranks
<1>2. ASSUME NEW n \in N, NEW v, NEW w, \A m \in Inputs(c, n) : c.type[n] # "IN" => v[m] = w[m]
      PROVE  E(v, n) = E(w, n)
  <2>1. CASE c.type[n] = "IN"
    BY <2>1
  <2>2. CASE c.type[n] # "IN"
    <3>1. {v[m] : m \in Inputs(c, n)} = {w[m] : m \in Inputs(c, n)}
      BY <1>2, <2>2
    <3> QED BY <2>2, <3>1
  <2> QED BY <2>1, <2>2
<1> HIDE DEF E
<1>3. ASSUME NEW k \in Nat, NEW v, NEW w, Upto(v, k), Upto(w, k)
      PROVE  \A n \in N : r[n] < k => v[n] = w[n]
  <2> DEFINE S == {n \in N : r[n] < k /\ v[n] # w[n]}
  <2> SUFFICES ASSUME S # {} PROVE FALSE
    OBVIOUS
  <2>1. PICK n \in S : \A m \in S : r[n] <= r[m]
    <3>1. S \subseteq N
      OBVIOUS
    <3> HIDE DEF S
    <3> QED BY <1>1, <3>1, LowestRank
  <2>2. ASSUME NEW m \in Inputs(c, n), c.type[n] # "IN" PROVE v[m] = w[m]
    <3>1. m \in N /\ r[m] < r[n]
      BY <1>20, <2>2
    <3> QED BY <1>1, <2>1, <3>1
  <2>3. E(v, n) = E(w, n)
    BY <1>2, <2>2
  <2> QED BY <1>3, <2>3
<1>4. ASSUME NEW k \in Nat PROVE \E v : Upto(v, k)
  <2> DEFINE T == {j \in Nat : ~ \E v : Upto(v, j)}
  <2> SUFFICES ASSUME T # {} PROVE FALSE
    OBVIOUS
  <2>1. PICK j \in T : \A i \in T : j <= i
    <3>1. T \subseteq Nat
      OBVIOUS
    <3> HIDE DEF T
    <3> QED BY <3>1, LeastNumber
  <2>2. j # 0
    <3>1. \A n \in N : ~ (r[n] < 0)
      BY <1>1
    <3>2. Upto(<<>>, 0)
      BY <3>1
    <3> QED BY <3>2
  <2>3. j - 1 \in Nat /\ j - 1 \notin T
    BY <2>1, <2>2
  <2>4. PICK v : Upto(v, j - 1)
    BY <2>3
  <2> DEFINE w == [n \in N |-> E(v, n)]
  <2>5. ASSUME NEW n \in N, r[n] < j PROVE w[n] = E(w, n)
    <3>1. ASSUME NEW m \in Inputs(c, n), c.type[n] # "IN" PROVE v[m] = w[m]
      <4>1. m \in N /\ r[m] < r[n]
        BY <1>20, <3>1
      <4>2. r[m] < j - 1
        BY <1>1, <2>5, <4>1
      <4> QED BY <2>4, <4>1, <4>2
    <3>2. E(v, n) = E(w, n)
      <4> HIDE DEF w
      <4> QED BY <1>2, <3>1
    <3> QED BY <3>2
  <2>6. Upto(w, j)
    <3> HIDE DEF w
    <3> QED BY <2>5
  <2> QED BY <2>1, <2>6
<1>5. b + 1 \in Nat /\ \A n \in N : r[n] < b + 1
  BY <1>1
<1>6. PICK v : Upto(v, b + 1)
  BY <1>4, <1>5
<1> DEFINE w == [n \in N |-> v[n]]
<1>7. \A n \in N : w[n] = E(w, n)
  <2> SUFFICES ASSUME NEW n \in N PROVE w[n] = E(w, n)
    OBVIOUS
  <2>1. v[n] = E(v, n)
    BY <1>5, <1>6
  <2>2. ASSUME NEW m \in Inputs(c, n), c.type[n] # "IN" PROVE v[m] = w[m]
    BY <1>20, <2>2
  <2>3. E(v, n) = E(w, n)
    <3> HIDE DEF w
    <3> QED BY <1>2, <2>2
  <2> QED BY <2>1, <2>3
<1>8. w = [n \in N |-> E(w, n)]
  BY <1>7
<1>9. Levels(c) = CHOOSE l : l = [n \in N |-> E(l, n)]
  BY DEF Levels, E
<1>10. Levels(c) = [n \in N |-> E(Levels(c), n)]
  <2> HIDE DEF w
  <2> QED BY <1>8, <1>9
<1>11. \A n \in N : Levels(c)[n] = E(Levels(c), n)
  BY <1>10
<1>12. Levels(c) = [n \in N |-> Levels(c)[n]]
  BY <1>10, <1>11
<1> QED BY <1>11, <1>12 DEF E

\* Levels are numbers and rise along every edge.
LEMMA LevelsRise ==
  ASSUME NEW c, NEW r, NEW b, Ranks(c, r, b)
  PROVE  /\ Levels(c) \in [Nets(c) -> Nat]
         /\ \A n \in Nets(c) : c.type[n] # "IN" =>
              \A m \in Inputs(c, n) : Levels(c)[m] < Levels(c)[n]
<1> DEFINE N == Nets(c)
           l == Levels(c)
           F(n) == {l[m] : m \in Inputs(c, n)}
           S == {n \in N : l[n] \notin Nat}
<1>1. b \in Nat /\ r \in [N -> 0 .. b] /\ \A n \in N : r[n] \in Nat
  BY DEF Ranks
<1>2. ASSUME NEW n \in N, c.type[n] # "IN"
      PROVE  /\ Inputs(c, n) # {} /\ IsFiniteSet(Inputs(c, n))
             /\ \A m \in Inputs(c, n) : m \in N /\ r[m] < r[n]
  BY <1>2 DEF Ranks
<1>3. \A n \in N : l[n] = IF c.type[n] = "IN" THEN 0 ELSE 1 + Max(F(n))
  BY LevelsExist
<1>4. ASSUME NEW n \in N, c.type[n] # "IN", \A m \in Inputs(c, n) : l[m] \in Nat
      PROVE  l[n] \in Nat /\ \A m \in Inputs(c, n) : l[m] < l[n]
  <2> DEFINE I == Inputs(c, n)
             f == [m \in I |-> l[m]]
  <2>1. F(n) \subseteq Nat /\ F(n) # {} /\ \A m \in I : l[m] \in F(n)
    BY <1>2, <1>4
  <2>2. IsFiniteSet(F(n))
    <3>1. f \in Surjection(I, F(n))
      BY DEF Surjection
    <3>2. IsFiniteSet(I)
      BY <1>2, <1>4
    <3> HIDE DEF f, F, I
    <3> QED BY <3>1, <3>2, FS_Surjection
  <2> HIDE DEF F
  <2>3. Max(F(n)) \in F(n) /\ \A y \in F(n) : y <= Max(F(n))
    BY <2>1, <2>2, Largest
  <2>4. l[n] = 1 + Max(F(n))
    BY <1>3, <1>4
  <2>5. \A m \in I : l[m] <= Max(F(n))
    BY <2>1, <2>3
  <2>6. Max(F(n)) \in Nat
    BY <2>1, <2>3
  <2> HIDE DEF l
  <2> QED BY <1>4, <2>4, <2>5, <2>6
<1>5. S = {}
  <2> SUFFICES ASSUME S # {} PROVE FALSE
    OBVIOUS
  <2>1. PICK n \in S : \A m \in S : r[n] <= r[m]
    <3>1. S \subseteq N
      OBVIOUS
    <3> HIDE DEF S, N
    <3> QED BY <1>1, <3>1, LowestRank
  <2>2. c.type[n] # "IN"
    <3> HIDE DEF l, F
    <3>1. n \in N /\ l[n] \notin Nat
      BY <2>1
    <3>2. c.type[n] = "IN" => l[n] = 0
      BY <1>3, <3>1
    <3> QED BY <3>1, <3>2
  <2>3. ASSUME NEW m \in Inputs(c, n) PROVE l[m] \in Nat
    <3>1. m \in N /\ r[m] < r[n]
      BY <1>2, <2>2
    <3> QED BY <1>1, <2>1, <3>1
  <2> QED BY <1>4, <2>1, <2>2, <2>3
<1>6. l = [n \in N |-> l[n]]
  BY LevelsExist
<1>7. \A n \in N : l[n] \in Nat
  BY <1>5
<1>8. \A n \in N : c.type[n] # "IN" => \A m \in Inputs(c, n) : l[m] < l[n]
  BY <1>2, <1>4, <1>7
<1> HIDE DEF l
<1>9. l \in [N -> Nat]
  BY <1>6, <1>7
<1> QED BY <1>8, <1>9 DEF l

-----------------------------------------------------------------------------
(* Filtered sequences *)

\* What is in the set, each as often as before; nothing is lost.
LEMMA Sieved ==
  ASSUME NEW T, NEW s \in Seq(T), NEW set
  PROVE  /\ Filtered(s, set) \in Seq(T)
         /\ Range(Filtered(s, set)) = Range(s) \intersect set
         /\ (\A i, j \in DOMAIN s : s[i] = s[j] => i = j) =>
              \A i, j \in DOMAIN Filtered(s, set) : Filtered(s, set)[i] = Filtered(s, set)[j] => i = j
<1> DEFINE places == {k \in DOMAIN s : s[k] \in set}
           n == Cardinality(places)
           At(i) == CHOOSE k \in places : Position(k, places) = i
           f == [i \in 1 .. n |-> s[At(i)]]
<1>1. f = Filtered(s, set)
  BY DEF Filtered
<1>2. DOMAIN s = 1 .. Len(s) /\ Len(s) \in Nat /\ \A k \in DOMAIN s : s[k] \in T
  OBVIOUS
<1>3. IsFiniteSet(places) /\ places \subseteq Nat
  <2>1. IsFiniteSet(DOMAIN s)
    BY <1>2, FS_Interval
  <2>2. places \subseteq DOMAIN s /\ places \subseteq Nat
    BY <1>2
  <2> HIDE DEF places
  <2> QED BY <2>1, <2>2, FS_Subset
<1>4. \A k \in places : k \in DOMAIN s /\ s[k] \in set
  OBVIOUS
<1>5. \A k \in DOMAIN s : s[k] \in set => k \in places
  OBVIOUS
<1> HIDE DEF places
<1>6. /\ n \in Nat
      /\ \A k \in places : Position(k, places) \in 1 .. n
      /\ \A k, j \in places : Position(k, places) = Position(j, places) => k = j
  BY <1>3, Positions
<1>7. \A i \in 1 .. n : At(i) \in places /\ Position(At(i), places) = i
  <2> SUFFICES ASSUME NEW i \in 1 .. n PROVE At(i) \in places /\ Position(At(i), places) = i
    OBVIOUS
  <2>1. \E k \in places : Position(k, places) = i
    BY <1>3, PositionsTaken
  <2> QED BY <2>1
<1> HIDE DEF n, At
<1>8. \A k \in places : \E i \in 1 .. n : At(i) = k
  BY <1>6, <1>7
<1>9. f \in Seq(T) /\ DOMAIN f = 1 .. n
  <2>1. \A i \in 1 .. n : s[At(i)] \in T
    BY <1>2, <1>4, <1>7
  <2> QED BY <1>6, <2>1
<1>10. \A i \in 1 .. n : f[i] = s[At(i)]
  OBVIOUS
<1> HIDE DEF f
<1>11. Range(f) \subseteq Range(s) \intersect set
  BY <1>4, <1>7, <1>9, <1>10 DEF Range
<1>12. Range(s) \intersect set \subseteq Range(f)
  <2> SUFFICES ASSUME NEW k \in DOMAIN s, s[k] \in set PROVE s[k] \in Range(f)
    BY DEF Range
  <2>1. PICK i \in 1 .. n : At(i) = k
    BY <1>5, <1>8
  <2>2. f[i] = s[k] /\ i \in DOMAIN f
    BY <1>9, <1>10, <2>1
  <2> QED BY <2>2 DEF Range
<1>13. ASSUME \A i, j \in DOMAIN s : s[i] = s[j] => i = j
       PROVE  \A i, j \in DOMAIN f : f[i] = f[j] => i = j
  BY <1>4, <1>7, <1>9, <1>10, <1>13
<1> QED BY <1>1, <1>9, <1>11, <1>12, <1>13

\* The flip-flops, each once.
LEMMA FlipFlopsListed ==
  ASSUME NEW c, NEW k \in Nat, Cardinality(Nets(c)) = k, Nets(c) = 0 .. k - 1
  PROVE  /\ FlipFlops(c) \in Seq(Nets(c))
         /\ \A n \in Nets(c) : c.type[n] = "DFF" <=> \E i \in DOMAIN FlipFlops(c) : FlipFlops(c)[i] = n
         /\ \A i, j \in DOMAIN FlipFlops(c) : FlipFlops(c)[i] = FlipFlops(c)[j] => i = j
<1> DEFINE N == Nets(c)
           s == [i \in 1 .. k |-> i - 1]
           D == {n \in N : c.type[n] = "DFF"}
           f == Filtered(s, D)
<1>1. f = FlipFlops(c)
  BY DEF FlipFlops
<1>2. s \in Seq(N) /\ DOMAIN s = 1 .. k
  <2>1. \A i \in 1 .. k : i - 1 \in 0 .. k - 1
    OBVIOUS
  <2> HIDE DEF N
  <2> QED BY <2>1 DEF N
<1>3. \A i, j \in DOMAIN s : s[i] = s[j] => i = j
  OBVIOUS
<1>4. \A n \in N : \E i \in DOMAIN s : s[i] = n
  <2> SUFFICES ASSUME NEW n \in 0 .. k - 1 PROVE \E i \in DOMAIN s : s[i] = n
    OBVIOUS
  <2>1. n + 1 \in DOMAIN s /\ s[n + 1] = n
    OBVIOUS
  <2> QED BY <2>1
<1> HIDE DEF s, N
<1>5. /\ f \in Seq(N) /\ Range(f) = Range(s) \intersect D
      /\ \A i, j \in DOMAIN f : f[i] = f[j] => i = j
  BY <1>2, <1>3, Sieved
<1>6. \A n \in N : n \in Range(f) <=> c.type[n] = "DFF"
  BY <1>4, <1>5 DEF Range
<1> HIDE DEF f
<1> QED BY <1>1, <1>5, <1>6 DEF Range, N

-----------------------------------------------------------------------------
(***************************************************************************)
(* A circuit with all its pins connected, apart from the design: what the  *)
(* last step needs to know of it.                                          *)
(***************************************************************************)
\* What the connected circuit is to the steps that finish it.
Joined(c, r, b) ==
  /\ Recorded(c) /\ IsFiniteSet(Nets(c)) /\ Nets(c) = 0 .. Cardinality(Nets(c)) - 1
  /\ Edged(c)
  /\ \A n \in Nets(c) :
       /\ c.type[n] \in GateTypes \union {"IN", "DFF"}
       /\ c.in[n] \in Seq(Nets(c)) /\ c.out[n] \in Seq(Nets(c))
       /\ c.type[n] = "IN" <=> c.in[n] = <<>>
       /\ c.type[n] \in {"BUF", "FOUT", "INV", "DFF"} => Len(c.in[n]) = 1
       /\ c.type[n] \in {"EXOR", "EXNOR"} => Len(c.in[n]) = 2
       /\ \A i, j \in DOMAIN c.in[n] : c.in[n][i] = c.in[n][j] => i = j
       /\ \A m, k \in Outputs(c, n) : m # k => c.type[m] = "FOUT"
  /\ InputsListed(c)
  /\ c.po \in Seq(Nets(c))
  /\ \A k \in DOMAIN c.po : Outputs(c, c.po[k]) = {}
  /\ b \in Nat /\ r \in [Nets(c) -> 0 .. b]
  /\ \A n \in Nets(c) : c.type[n] # "DFF" => \A m \in Inputs(c, n) : r[m] < r[n]

\* Several outputs are several places of the output list.
LEMMA FewOutputs ==
  ASSUME NEW T, NEW s \in Seq(T)
  PROVE  /\ Len(s) <= 1 => \A x, y \in Range(s) : x = y
         /\ Len(s) = 0 => Range(s) = {}
<1>1. DOMAIN s = 1 .. Len(s) /\ Len(s) \in Nat
  OBVIOUS
<1>2. Len(s) <= 1 => \A i, j \in DOMAIN s : i = j
  BY <1>1
<1>3. Len(s) = 0 => DOMAIN s = {}
  BY <1>1
<1> QED BY <1>2, <1>3 DEF Range

\* The ranks: those of the design doubled, with the branches in between.
DoubledRank(d, c, rank) ==
  [n \in Nets(c) |-> IF n \in Named(d) THEN 2 * rank[n] ELSE 2 * rank[c.in[n][1]] + 1]

\* All inputs of a net that a module drives, when all pins are connected.
LEMMA FeedOf ==
  ASSUME NEW d, IsDesign(d), NEW c, NEW P, Assembled(d, c, Pins(d), P), NEW n \in Named(d)
  PROVE  /\ IsInput(d, n) => c.in[n] = <<>>
         /\ ~ IsInput(d, n) =>
              /\ Driver(d, n) \in DOMAIN d.gates /\ d.gates[Driver(d, n)].out = n
              /\ c.type[n] = d.gates[Driver(d, n)].type
              /\ Len(c.in[n]) = Len(d.gates[Driver(d, n)].in)
              /\ DOMAIN c.in[n] = DOMAIN d.gates[Driver(d, n)].in
              /\ \A i \in DOMAIN c.in[n] :
                   /\ <<Driver(d, n), i>> \in Pins(d)
                   /\ Feed(d, c, <<Driver(d, n), i>>) = c.in[n][i]
                   /\ Source(d, <<Driver(d, n), i>>) = d.gates[Driver(d, n)].in[i]
         /\ IsInput(d, n) => c.type[n] = "IN"
<1>1. Fed(d, c, Pins(d)) /\ Typed(d, c) /\ n \in Nets(c) /\ c.in[n] \in Seq(Nets(c))
  BY DEF Assembled, Shaped
<1>2. Unconnected(d).type[n] = IF IsInput(d, n) THEN "IN" ELSE d.gates[Driver(d, n)].type
  BY DEF Unconnected, Named
<1>3. c.type[n] = IF IsInput(d, n) THEN "IN" ELSE d.gates[Driver(d, n)].type
  BY <1>1, <1>2 DEF Typed
<1>4. CASE IsInput(d, n)
  BY <1>1, <1>3, <1>4 DEF Fed
<1>5. CASE ~ IsInput(d, n)
  <2> DEFINE g == Driver(d, n)
             l == c.in[n]
             u == d.gates[g].in
  <2>1. g \in DOMAIN d.gates /\ d.gates[g].out = n
    BY <1>5 DEF IsInput, Driver
  <2>2. u \in Seq(Named(d))
    BY <2>1, GateRead
  <2>3. \A p \in Nat : <<g, p>> \in Pins(d) <=> p \in DOMAIN l
    BY <1>1, <2>1 DEF Fed
  <2>4. ASSUME NEW p \in Nat PROVE <<g, p>> \in Pins(d) <=> p \in DOMAIN u
    <3>1. <<g, p>>[1] = g /\ <<g, p>>[2] = p
      OBVIOUS
    <3>2. <<g, p>> \in Pins(d) => p \in DOMAIN u
      BY <3>1, PinRead
    <3> QED BY <2>1, <3>2, DesignRead
  <2>5. \A i \in DOMAIN l : Feed(d, c, <<g, i>>) = l[i] /\ Source(d, <<g, i>>) = u[i]
    <3>1. \A i : <<g, i>>[1] = g /\ <<g, i>>[2] = i
      OBVIOUS
    <3> QED BY <2>1, <3>1 DEF Feed, Source, Sink
  <2> HIDE DEF l, g, u
  <2>6. DOMAIN l = 1 .. Len(l) /\ Len(l) \in Nat
    BY <1>1 DEF l
  <2>7. DOMAIN u = 1 .. Len(u) /\ Len(u) \in Nat
    BY <2>2
  <2>8. DOMAIN l = DOMAIN u
    <3>1. \A p \in Nat : p \in DOMAIN l <=> p \in DOMAIN u
      BY <2>3, <2>4
    <3>2. \A p \in DOMAIN l : p \in Nat
      BY <2>6
    <3>3. \A p \in DOMAIN u : p \in Nat
      BY <2>7
    <3> QED BY <3>1, <3>2, <3>3
  <2>9. Len(l) = Len(u)
    <3>1. u \in Seq(Named(d)) /\ l \in Seq(Nets(c))
      BY <1>1, <2>2 DEF l
    <3> QED BY <2>8, <3>1
  <2>10. \A i \in DOMAIN l : <<g, i>> \in Pins(d)
    BY <2>3, <2>6
  <2> QED BY <1>3, <1>5, <2>1, <2>5, <2>8, <2>9, <2>10 DEF l, g, u
<1> QED BY <1>4, <1>5

\* A branch, when some pins are connected.
LEMMA BranchOf ==
  ASSUME NEW d, IsDesign(d), NEW c, NEW D, NEW P, Assembled(d, c, D, P), NEW n \in Branches(d, c)
  PROVE  /\ n \in Nets(c) /\ n \notin Named(d) /\ c.type[n] = "FOUT" /\ Len(c.out[n]) <= 1
         /\ c.in[n] = <<c.in[n][1]>> /\ c.in[n][1] \in Named(d) /\ Inputs(c, n) = {c.in[n][1]}
<1>1. n \in Nets(c) /\ n \notin Named(d)
  BY DEF Branches
<1>2. Branching(d, c) /\ Typed(d, c)
  BY DEF Assembled
<1>3. c.type[n] = "FOUT"
  BY <1>1, <1>2 DEF Typed
<1>4. Len(c.out[n]) <= 1
  BY <1>2 DEF Branching
<1>5. PICK s \in Named(d) : c.in[n] = <<s>>
  BY <1>2 DEF Branching
<1>6. <<s>>[1] = s
  OBVIOUS
<1>7. Range(<<s>>) = {s}
  BY Single
<1>8. Inputs(c, n) = Range(c.in[n])
  BY DEF Inputs, Range
<1> QED BY <1>1, <1>3, <1>4, <1>5, <1>6, <1>7, <1>8

\* The nets of the design have the inputs their types ask for.
LEMMA NamedKinds ==
  ASSUME NEW d, IsDesign(d), NEW c, NEW P, Assembled(d, c, Pins(d), P), NEW n \in Named(d)
  PROVE  /\ c.type[n] \in GateTypes \union {"IN", "DFF"}
         /\ c.type[n] = "IN" <=> IsInput(d, n)
         /\ c.type[n] = "IN" <=> c.in[n] = <<>>
         /\ c.type[n] \in {"BUF", "FOUT", "INV", "DFF"} => Len(c.in[n]) = 1
         /\ c.type[n] \in {"EXOR", "EXNOR"} => Len(c.in[n]) = 2
         /\ \A i, j \in DOMAIN c.in[n] : c.in[n][i] = c.in[n][j] => i = j
<1>1. CASE IsInput(d, n)
  <2>1. c.in[n] = <<>> /\ c.type[n] = "IN"
    BY <1>1, FeedOf
  <2>2. DOMAIN <<>> = {}
    OBVIOUS
  <2> QED BY <1>1, <2>1, <2>2
<1>2. CASE ~ IsInput(d, n)
  <2> DEFINE g == Driver(d, n)
             l == c.in[n]
             u == d.gates[g].in
  <2>1. /\ g \in DOMAIN d.gates
        /\ c.type[n] = d.gates[g].type /\ Len(l) = Len(u) /\ DOMAIN l = DOMAIN u
        /\ \A i \in DOMAIN l : <<g, i>> \in Pins(d) /\ Feed(d, c, <<g, i>>) = l[i]
    BY <1>2, FeedOf
  <2>2. d.gates[g].type \in (GateTypes \ {"FOUT"}) \union {"DFF"} /\ u \in Seq(Named(d)) /\ u # <<>>
    BY <2>1, GateRead
  <2>3. /\ d.gates[g].type \in {"BUF", "INV", "DFF"} => Len(u) = 1
        /\ d.gates[g].type \in {"EXOR", "EXNOR"} => Len(u) = 2
    BY <2>1 DEF IsDesign
  <2>4. l # <<>>
    <3> HIDE DEF l, u
    <3>1. 1 \in DOMAIN u
      BY <2>2
    <3>2. DOMAIN <<>> = {}
      OBVIOUS
    <3> QED BY <2>1, <3>1, <3>2
  <2>5. "IN" \notin GateTypes /\ "IN" # "DFF"
    BY DEF GateTypes, Controllable
  <2>6. ASSUME NEW i \in DOMAIN l, NEW j \in DOMAIN l, l[i] = l[j] PROVE i = j
    <3> DEFINE x == <<g, i>>
               y == <<g, j>>
    <3>1. \A q, e \in Pins(d) : Feed(d, c, q) = Feed(d, c, e) => q = e
      BY DEF Assembled, Apart
    <3>2. x \in Pins(d) /\ y \in Pins(d) /\ Feed(d, c, x) = Feed(d, c, y)
      BY <2>1, <2>6
    <3>3. x = y
      <4> HIDE DEF x, y
      <4> QED BY <3>1, <3>2
    <3> QED BY <3>3
  <2> HIDE DEF l, u, g
  <2>7. c.type[n] # "IN" /\ c.type[n] \in GateTypes \union {"IN", "DFF"}
    BY <2>1, <2>2, <2>5
  <2>8. /\ c.type[n] \in {"BUF", "FOUT", "INV", "DFF"} => Len(l) = 1
        /\ c.type[n] \in {"EXOR", "EXNOR"} => Len(l) = 2
    BY <2>1, <2>2, <2>3
  <2> QED BY <1>2, <2>4, <2>6, <2>7, <2>8 DEF l
<1> QED BY <1>1, <1>2

\* Only branches share a source.
LEMMA FewLead ==
  ASSUME NEW d, IsDesign(d), NEW c, Assembled(d, c, Pins(d), Moved(d, Pins(d))), NEW n \in Nets(c),
         NEW m \in Outputs(c, n), NEW k \in Outputs(c, n), m # k
  PROVE  c.type[m] = "FOUT"
<1>1. /\ c.out[n] \in Seq(Nets(c)) /\ Led(d, c) /\ Typed(d, c)
  BY DEF Assembled, Shaped
<1>2. Outputs(c, n) = Range(c.out[n]) /\ Outputs(c, n) \subseteq Nets(c)
  BY <1>1 DEF Outputs, Range
<1>3. ~ (Len(c.out[n]) <= 1)
  BY <1>1, <1>2, FewOutputs
<1>4. n \in Named(d)
  <2> SUFFICES ASSUME n \notin Named(d) PROVE FALSE
    OBVIOUS
  <2>1. n \in Branches(d, c)
    BY DEF Branches
  <2> QED BY <1>3, <2>1, BranchOf
<1>5. Len(c.out[n]) = OutCount(d, n)
  BY <1>4, SlotsSuffice
<1>6. OutCount(d, n) >= 2
  BY <1>3, <1>5, UseCounts
<1>7. m \notin Named(d)
  BY <1>1, <1>4, <1>6 DEF Led
<1> QED BY <1>1, <1>2, <1>7 DEF Typed

\* An output port leads nowhere: its net has no use, or it has moved.
LEMMA PortsLeadNowhere ==
  ASSUME NEW d, IsDesign(d), NEW c, Assembled(d, c, Pins(d), Moved(d, Pins(d))), NEW k \in DOMAIN c.po
  PROVE  Outputs(c, c.po[k]) = {}
<1> DEFINE P == Moved(d, Pins(d))
<1>1. k \in DOMAIN d.po /\ Ported(d, c, P) /\ c.po[k] \in Nets(c)
  <2>1. c.po \in Seq(Nets(c)) /\ DOMAIN c.po = DOMAIN d.po /\ Ported(d, c, P)
    BY DEF Assembled, Shaped
  <2> QED BY <2>1
<1>2. c.out[c.po[k]] \in Seq(Nets(c))
  BY <1>1 DEF Assembled, Shaped
<1>3. Outputs(c, c.po[k]) = Range(c.out[c.po[k]])
  BY DEF Outputs, Range
<1>4. Len(c.out[c.po[k]]) = 0
  <2>1. CASE k \in P
    BY <1>1, <2>1 DEF Ported
  <2>2. CASE k \notin P
    <3>1. c.po[k] = d.po[k] /\ d.po[k] \in Named(d)
      BY <1>1, <2>2, PortsOnce DEF Ported
    <3>2. UsesIn(d, Pins(d), d.po[k]) = {}
      BY <1>1, <2>2 DEF Moved
    <3>3. Uses(d, d.po[k]) = 0
      BY <3>2, FS_EmptySet DEF Uses, UsesIn
    <3>4. OutCount(d, d.po[k]) = 0
      BY <3>3 DEF OutCount
    <3>5. Len(c.out[d.po[k]]) = OutCount(d, d.po[k])
      BY <3>1, SlotsSuffice
    <3> QED BY <3>1, <3>4, <3>5
  <2> QED BY <2>1, <2>2
<1> QED BY <1>2, <1>3, <1>4, FewOutputs

\* The inputs are those declared.
LEMMA InputsDeclared ==
  ASSUME NEW d, IsDesign(d), NEW c, NEW P, Assembled(d, c, Pins(d), P)
  PROVE  InputsListed(c)
<1>1. c.pi = d.pi /\ Named(d) \subseteq Nets(c)
  BY DEF Assembled, Shaped
<1>2. d.pi \in Seq(Named(d))
  BY DesignRead DEF Readable
<1>3. c.pi \in Seq(Nets(c)) /\ \A i \in DOMAIN d.pi : d.pi[i] \in Named(d)
  <2> HIDE DEF Named
  <2> QED BY <1>1, <1>2
<1>4. /\ \A i, j \in DOMAIN d.pi : d.pi[i] = d.pi[j] => i = j
      /\ \A n \in Named(d) : IsInput(d, n) <=> \E i \in DOMAIN d.pi : d.pi[i] = n
  BY DEF IsDesign, Named
<1>5. ASSUME NEW n \in Nets(c) PROVE c.type[n] = "IN" <=> \E i \in DOMAIN c.pi : c.pi[i] = n
  <2>1. CASE n \in Named(d)
    BY <1>1, <1>4, <2>1, NamedKinds
  <2>2. CASE n \notin Named(d)
    <3>1. n \in Branches(d, c)
      BY <2>2 DEF Branches
    <3>2. c.type[n] # "IN"
      BY <3>1, BranchOf
    <3> QED BY <1>1, <1>3, <2>2, <3>2
  <2> QED BY <2>1, <2>2
<1> QED BY <1>1, <1>3, <1>4, <1>5 DEF InputsListed

\* A design's ranks leave room for the branches between them.
LEMMA RanksDouble ==
  ASSUME NEW d, IsDesign(d), NEW c, NEW P, Assembled(d, c, Pins(d), P)
  PROVE  \E r, b : /\ b \in Nat /\ r \in [Nets(c) -> 0 .. b]
                   /\ \A n \in Nets(c) : c.type[n] # "DFF" => \A m \in Inputs(c, n) : r[m] < r[n]
<1> DEFINE N == Named(d)
<1>1. PICK rank \in [N -> N] :
        \A g \in DOMAIN d.gates : d.gates[g].type # "DFF" =>
          \A p \in DOMAIN d.gates[g].in : rank[d.gates[g].in[p]] < rank[d.gates[g].out]
  BY DEF IsDesign, Named
<1>2. d.nets \in Nat /\ N = 0 .. d.nets - 1
  BY DesignRead DEF Readable, Named
<1>3. \A n \in N : rank[n] \in Nat /\ rank[n] < d.nets
  BY <1>2
<1> DEFINE r == DoubledRank(d, c, rank)
           b == 2 * d.nets + 1
<1>4. \A n \in Nets(c) : /\ n \in N => r[n] = 2 * rank[n]
                         /\ n \notin N => r[n] = 2 * rank[c.in[n][1]] + 1
  BY DEF DoubledRank
<1>5. b \in Nat /\ r \in [Nets(c) -> 0 .. b]
  <2>1. ASSUME NEW n \in Nets(c) PROVE r[n] \in 0 .. b
    <3>1. CASE n \in N
      BY <1>2, <1>3, <1>4, <3>1
    <3>2. CASE n \notin N
      <4>1. c.in[n][1] \in N
        BY <3>2, BranchOf DEF Branches
      <4>2. rank[c.in[n][1]] \in Nat /\ rank[c.in[n][1]] < d.nets
        BY <1>3, <4>1
      <4>3. r[n] = 2 * rank[c.in[n][1]] + 1
        BY <1>4, <3>2
      <4> DEFINE x == rank[c.in[n][1]]
                 y == r[n]
                 k == d.nets
      <4>4. x \in Nat /\ k \in Nat /\ x < k /\ y = 2 * x + 1
        BY <1>2, <4>2, <4>3
      <4> HIDE DEF x, y, k
      <4>5. y \in 0 .. 2 * k + 1
        BY <4>4
      <4> QED BY <4>5 DEF y, k
    <3> QED BY <3>1, <3>2
  <2>2. r = [n \in Nets(c) |-> r[n]]
    BY DEF DoubledRank
  <2> HIDE DEF r, b
  <2>3. b \in Nat
    BY <1>2 DEF b
  <2> QED BY <2>1, <2>2, <2>3
<1>6. Fed(d, c, Pins(d)) /\ N \subseteq Nets(c)
  BY DEF Assembled, Shaped
<1> HIDE DEF N, r
<1>7. ASSUME NEW n \in Nets(c), c.type[n] # "DFF", NEW m \in Inputs(c, n) PROVE r[m] < r[n]
  <2>1. CASE n \notin N
    <3>1. m = c.in[n][1] /\ m \in N
      <4>1. n \in Branches(d, c)
        BY <2>1 DEF Branches, N
      <4> QED BY <4>1, BranchOf DEF N
    <3>2. r[n] = 2 * rank[m] + 1 /\ r[m] = 2 * rank[m] /\ rank[m] \in Nat
      BY <1>3, <1>4, <1>6, <2>1, <3>1
    <3> QED BY <3>2
  <2>2. CASE n \in N
    <3> DEFINE g == Driver(d, n)
    <3>1. ~ IsInput(d, n)
      <4> SUFFICES ASSUME IsInput(d, n) PROVE FALSE
        OBVIOUS
      <4>1. c.in[n] = <<>>
        BY <2>2, FeedOf DEF N
      <4>2. DOMAIN <<>> = {}
        OBVIOUS
      <4> QED BY <4>1, <4>2 DEF Inputs
    <3>2. PICK i \in DOMAIN c.in[n] : c.in[n][i] = m
      BY DEF Inputs
    <3> DEFINE q == <<g, i>>
               s == Source(d, q)
    <3>3. /\ g \in DOMAIN d.gates /\ d.gates[g].out = n /\ c.type[n] = d.gates[g].type
          /\ i \in DOMAIN d.gates[g].in
          /\ q \in Pins(d) /\ Feed(d, c, q) = m /\ s = d.gates[g].in[i]
      BY <2>2, <3>1, <3>2, FeedOf DEF N
    <3>4. rank[s] < rank[n]
      BY <1>1, <1>7, <3>3
    <3>5. s \in N
      BY <3>3, PinRead DEF N
    <3> HIDE DEF s, q, g
    <3>6. m \in N => m = s
      BY <1>6, <3>3 DEF Fed, s, N
    <3>7. m \notin N => c.in[m] = <<s>> /\ m \in Nets(c)
      BY <1>6, <3>3 DEF Fed, s, N
    <3>8. rank[s] \in Nat /\ rank[n] \in Nat /\ r[n] = 2 * rank[n]
      BY <1>3, <1>4, <2>2, <3>5
    <3>9. CASE m \in N
      <4>1. r[m] = 2 * rank[s]
        BY <1>4, <3>6, <3>9, <1>6
      <4> QED BY <3>4, <3>8, <4>1
    <3>10. CASE m \notin N
      <4>1. c.in[m][1] = s
        BY <3>7, <3>10
      <4>2. r[m] = 2 * rank[s] + 1
        BY <1>4, <3>7, <3>10, <4>1
      <4> QED BY <3>4, <3>8, <4>2
    <3> QED BY <3>9, <3>10
  <2> QED BY <2>1, <2>2
<1> HIDE DEF b
<1> QED BY <1>5, <1>7

\* Connecting ends in a joined circuit.
LEMMA AllJoined ==
  ASSUME NEW d, IsDesign(d), NEW c, Assembled(d, c, Pins(d), Moved(d, Pins(d)))
  PROVE  \E r, b : Joined(c, r, b)
<1>1. PICK r, b : /\ b \in Nat /\ r \in [Nets(c) -> 0 .. b]
                  /\ \A n \in Nets(c) : c.type[n] # "DFF" => \A m \in Inputs(c, n) : r[m] < r[n]
  BY RanksDouble
<1>2. /\ Recorded(c) /\ IsFiniteSet(Nets(c)) /\ Nets(c) = 0 .. Cardinality(Nets(c)) - 1
      /\ Edged(c) /\ c.po \in Seq(Nets(c))
      /\ \A n \in Nets(c) : c.in[n] \in Seq(Nets(c)) /\ c.out[n] \in Seq(Nets(c))
  BY DEF Assembled, Shaped
<1>3. ASSUME NEW n \in Nets(c)
      PROVE  /\ c.type[n] \in GateTypes \union {"IN", "DFF"}
             /\ c.type[n] = "IN" <=> c.in[n] = <<>>
             /\ c.type[n] \in {"BUF", "FOUT", "INV", "DFF"} => Len(c.in[n]) = 1
             /\ c.type[n] \in {"EXOR", "EXNOR"} => Len(c.in[n]) = 2
             /\ \A i, j \in DOMAIN c.in[n] : c.in[n][i] = c.in[n][j] => i = j
  <2>1. CASE n \in Named(d)
    BY <2>1, NamedKinds
  <2>2. CASE n \notin Named(d)
    <3> DEFINE s == c.in[n][1]
    <3>1. c.type[n] = "FOUT" /\ c.in[n] = <<s>>
      BY <2>2, BranchOf DEF Branches
    <3> HIDE DEF s
    <3>2. Len(<<s>>) = 1 /\ <<s>> # <<>> /\ DOMAIN <<s>> = {1}
      OBVIOUS
    <3>3. "FOUT" \in GateTypes /\ "FOUT" # "IN" /\ "FOUT" \notin {"EXOR", "EXNOR"}
      BY DEF GateTypes
    <3> QED BY <3>1, <3>2, <3>3
  <2> QED BY <2>1, <2>2
<1>4. \A n \in Nets(c) : \A m, k \in Outputs(c, n) : m # k => c.type[m] = "FOUT"
  BY FewLead
<1>5. InputsListed(c) /\ \A k \in DOMAIN c.po : Outputs(c, c.po[k]) = {}
  BY InputsDeclared, PortsLeadNowhere
<1>6. Joined(c, r, b)
  BY <1>1, <1>2, <1>3, <1>4, <1>5 DEF Joined
<1> QED BY <1>6

\* The inputs of a gate are finitely many, and there is one.
LEMMA SomeInputs ==
  ASSUME NEW T, NEW s \in Seq(T), s # <<>>
  PROVE  Range(s) # {} /\ IsFiniteSet(Range(s)) /\ Range(s) \subseteq T
<1> DEFINE I == DOMAIN s
           f == [i \in I |-> s[i]]
<1>1. I = 1 .. Len(s) /\ Len(s) \in Nat /\ 1 \in I /\ \A i \in I : s[i] \in T
  OBVIOUS
<1>2. IsFiniteSet(I)
  BY <1>1, FS_Interval
<1>3. f \in Surjection(I, Range(s))
  BY DEF Surjection, Range
<1>4. IsFiniteSet(Range(s))
  <2> HIDE DEF f, I
  <2> QED BY <1>2, <1>3, FS_Surjection
<1> QED BY <1>1, <1>4 DEF Range

\* Without flip-flops every net is above its inputs.
LEMMA JoinedRanks ==
  ASSUME NEW c, NEW r, NEW b, Joined(c, r, b), \A n \in Nets(c) : c.type[n] # "DFF"
  PROVE  Ranks(c, r, b)
<1>1. ASSUME NEW n \in Nets(c), c.type[n] # "IN"
      PROVE  /\ Inputs(c, n) # {} /\ IsFiniteSet(Inputs(c, n))
             /\ \A m \in Inputs(c, n) : m \in Nets(c) /\ r[m] < r[n]
  <2>1. c.in[n] \in Seq(Nets(c)) /\ c.in[n] # <<>>
    BY <1>1 DEF Joined
  <2>2. Inputs(c, n) = Range(c.in[n])
    BY DEF Inputs, Range
  <2>3. Inputs(c, n) # {} /\ IsFiniteSet(Inputs(c, n)) /\ Inputs(c, n) \subseteq Nets(c)
    BY <2>1, <2>2, SomeInputs
  <2> QED BY <2>3 DEF Joined
<1>2. b \in Nat /\ r \in [Nets(c) -> 0 .. b]
  BY DEF Joined
<1> QED BY <1>1, <1>2 DEF Ranks

\* The one-frame circuit is well formed.
LEMMA StuckAtWellFormed ==
  ASSUME NEW c, NEW r, NEW b, Joined(c, r, b), \A n \in Nets(c) : c.type[n] # "DFF"
  PROVE  WellFormed(StuckAtCircuit(c)) /\ InputsListed(StuckAtCircuit(c))
<1> DEFINE x == StuckAtCircuit(c)
           l == Levels(c)
           N == Nets(c)
           f == [n \in N |-> None]
<1>1. x = [type |-> c.type, in |-> c.in, out |-> c.out, level |-> l, first |-> f, pi |-> c.pi, observed |-> c.po]
  BY DEF StuckAtCircuit
<1> HIDE DEF x, l
<1>2. /\ x.type = c.type /\ x.in = c.in /\ x.out = c.out /\ x.level = l /\ x.first = f
      /\ x.pi = c.pi /\ x.observed = c.po
  BY <1>1
<1> HIDE DEF f
<1>3. Nets(x) = N
  BY <1>2 DEF Nets
<1>4. \A n : Inputs(x, n) = Inputs(c, n) /\ Outputs(x, n) = Outputs(c, n)
  BY <1>2 DEF Inputs, Outputs
<1>5. Ranks(c, r, b)
  BY JoinedRanks
<1>6. /\ l \in [N -> Nat]
      /\ \A n \in N : c.type[n] # "IN" => \A m \in Inputs(c, n) : l[m] < l[n]
  BY <1>5, LevelsRise DEF l
<1>7. IsFiniteSet(N) /\ N \subseteq Nat
  <2> DEFINE k == Cardinality(N)
  <2>1. IsFiniteSet(N) /\ N = 0 .. k - 1
    BY DEF Joined
  <2>2. k \in Nat
    BY <2>1, FS_CardinalityType
  <2> HIDE DEF N, k
  <2> QED BY <2>1, <2>2
<1>8. /\ \A n \in N : c.type[n] \in GateTypes \union {"IN"}
      /\ \A n \in N : c.in[n] \in Seq(N) /\ c.out[n] \in Seq(N)
      /\ c.type = [n \in N |-> c.type[n]] /\ c.in = [n \in N |-> c.in[n]] /\ c.out = [n \in N |-> c.out[n]]
  BY DEF Joined, Recorded
<1>9. /\ x.type \in [N -> GateTypes \union {"IN"}]
      /\ x.in \in [N -> Seq(N)] /\ x.out \in [N -> Seq(N)]
  <2> HIDE DEF N
  <2> QED BY <1>2, <1>8
<1>10. x.first \in [N -> N \union {None}] /\ \A n \in N : x.first[n] = None
  BY <1>2 DEF f
<1>11. Observed(x) \subseteq N /\ \A o \in Observed(x) : Outputs(x, o) = {}
  <2>1. c.po \in Seq(N) /\ \A k \in DOMAIN c.po : Outputs(c, c.po[k]) = {}
    BY DEF Joined
  <2>2. \A k \in DOMAIN c.po : c.po[k] \in N
    <3> HIDE DEF N
    <3> QED BY <2>1
  <2>3. \A o \in Observed(x) : \E k \in DOMAIN c.po : o = c.po[k]
    BY <1>2 DEF Observed
  <2> QED BY <1>4, <2>1, <2>2, <2>3
<1>12. ASSUME NEW n \in N
       PROVE  /\ x.type[n] = "IN" <=> x.in[n] = <<>>
              /\ x.type[n] \in {"BUF", "FOUT", "INV"} => Len(x.in[n]) = 1
              /\ x.type[n] \in {"EXOR", "EXNOR"} => Len(x.in[n]) = 2
              /\ \A i, j \in DOMAIN x.in[n] : x.in[n][i] = x.in[n][j] => i = j
              /\ \A m \in N : m \in Inputs(x, n) <=> n \in Outputs(x, m)
              /\ \A m \in Inputs(x, n) : x.level[m] < x.level[n]
              /\ \A m, k \in Outputs(x, n) : m # k => x.type[m] = "FOUT"
  <2>1. /\ c.type[n] = "IN" <=> c.in[n] = <<>>
        /\ c.type[n] \in {"BUF", "FOUT", "INV"} => Len(c.in[n]) = 1
        /\ c.type[n] \in {"EXOR", "EXNOR"} => Len(c.in[n]) = 2
        /\ \A i, j \in DOMAIN c.in[n] : c.in[n][i] = c.in[n][j] => i = j
        /\ \A m, k \in Outputs(c, n) : m # k => c.type[m] = "FOUT"
    BY DEF Joined
  <2>2. \A m \in N : m \in Inputs(c, n) <=> n \in Outputs(c, m)
    BY DEF Joined, Edged
  <2>3. c.type[n] = "IN" => Inputs(c, n) = {}
    <3>1. DOMAIN <<>> = {}
      OBVIOUS
    <3> QED BY <2>1, <3>1 DEF Inputs
  <2>4. \A m \in Inputs(c, n) : l[m] < l[n]
    BY <1>6, <2>3
  <2> QED BY <1>2, <1>4, <2>1, <2>2, <2>4
<1>13. InputsListed(x)
  <2>1. InputsListed(c)
    BY DEF Joined
  <2> QED BY <1>2, <1>3, <2>1 DEF InputsListed
<1>14. x.level \in [N -> Nat]
  BY <1>2, <1>6
<1> HIDE DEF N
<1>15. WellFormed(x)
  BY <1>3, <1>7, <1>9, <1>10, <1>11, <1>12, <1>14 DEF WellFormed
<1> QED BY <1>13, <1>15 DEF x

-----------------------------------------------------------------------------
(***************************************************************************)
(* The two frames: every net of the expanded circuit is the copy of one    *)
(* net, in frame 1 or in frame 2.                                          *)
(***************************************************************************)
\* The nets below n that have two copies.
Gates(c, n) == {m \in 0 .. n - 1 : c.type[m] # "IN"}

\* From a net's copies to the next net's.
LEMMA FrameStep ==
  ASSUME NEW c, NEW n \in Nat
  PROVE  /\ Cardinality(Gates(c, n)) \in Nat /\ Frame1(c, n) \in Nat
         /\ Frame1(c, n) = n + Cardinality(Gates(c, n))
         /\ c.type[n] = "IN" => Frame1(c, n + 1) = Frame1(c, n) + 1
         /\ c.type[n] # "IN" => Frame1(c, n + 1) = Frame1(c, n) + 2
         /\ Frame1(c, 0) = 0
         /\ c.type[n] = "IN" => Frame2(c, n) = Frame1(c, n)
         /\ c.type[n] # "IN" => Frame2(c, n) = Frame1(c, n) + 1
<1> DEFINE G == Gates(c, n)
           H == Gates(c, n + 1)
<1>1. IsFiniteSet(G) /\ n \notin G
  <2>1. IsFiniteSet(0 .. n - 1)
    BY NumbersBelow
  <2>2. G \subseteq 0 .. n - 1 /\ n \notin G
    BY DEF Gates
  <2> QED BY <2>1, <2>2, FS_Subset
<1>2. /\ c.type[n] = "IN" => H = G
      /\ c.type[n] # "IN" => H = G \union {n}
  <2>1. \A m : m \in 0 .. (n + 1) - 1 <=> m \in 0 .. n - 1 \/ m = n
    OBVIOUS
  <2> QED BY <2>1 DEF Gates
<1>3. Frame1(c, n) = n + Cardinality(G) /\ Frame1(c, n + 1) = (n + 1) + Cardinality(H)
  BY DEF Frame1, Gates
<1>4. Frame1(c, 0) = 0
  <2>1. \A m : m \notin 0 .. 0 - 1
    OBVIOUS
  <2>2. Gates(c, 0) = {}
    BY <2>1 DEF Gates
  <2>3. Frame1(c, 0) = 0 + Cardinality(Gates(c, 0))
    BY DEF Frame1, Gates
  <2> QED BY <2>2, <2>3, FS_EmptySet
<1> HIDE DEF G, H
<1>5. Cardinality(G) \in Nat /\ Cardinality(G \union {n}) = Cardinality(G) + 1
  BY <1>1, FS_AddElement, FS_CardinalityType
<1>6. Frame1(c, n) \in Nat
  BY <1>3, <1>5
<1>7. /\ c.type[n] = "IN" => Frame1(c, n + 1) = Frame1(c, n) + 1
      /\ c.type[n] # "IN" => Frame1(c, n + 1) = Frame1(c, n) + 2
  BY <1>2, <1>3, <1>5
<1>8. /\ c.type[n] = "IN" => Frame2(c, n) = Frame1(c, n)
      /\ c.type[n] # "IN" => Frame2(c, n) = Frame1(c, n) + 1
  BY DEF Frame2
<1> QED BY <1>3, <1>4, <1>5, <1>6, <1>7, <1>8 DEF G

\* A later net has later copies.
LEMMA FramesRise ==
  ASSUME NEW c, NEW n \in Nat, NEW m \in Nat, n < m
  PROVE  Frame2(c, n) < Frame1(c, m) /\ Frame1(c, n) < Frame1(c, m)
<1> DEFINE G == Gates(c, n + 1)
           H == Gates(c, m)
<1>1. G \subseteq H
  <2>1. \A k \in 0 .. (n + 1) - 1 : k \in 0 .. m - 1
    OBVIOUS
  <2> QED BY <2>1 DEF Gates
<1>2. IsFiniteSet(H)
  <2>1. IsFiniteSet(0 .. m - 1)
    BY NumbersBelow
  <2>2. H \subseteq 0 .. m - 1
    BY DEF Gates
  <2> HIDE DEF H
  <2> QED BY <2>1, <2>2, FS_Subset
<1> HIDE DEF G, H
<1>3. Cardinality(G) <= Cardinality(H)
  BY <1>1, <1>2, FS_Subset
<1>4. n + 1 \in Nat
  OBVIOUS
<1>5. Frame1(c, n + 1) = n + 1 + Cardinality(G) /\ Cardinality(G) \in Nat
  BY <1>4, FrameStep DEF G
<1>6. Frame1(c, m) = m + Cardinality(H) /\ Cardinality(H) \in Nat
  BY FrameStep DEF H
<1>7. Frame1(c, n + 1) <= Frame1(c, m)
  BY <1>3, <1>5, <1>6
<1>8. Frame1(c, n) \in Nat /\ Frame1(c, n) < Frame1(c, n + 1) /\ Frame2(c, n) < Frame1(c, n + 1)
  BY FrameStep
<1>9. Frame1(c, n + 1) \in Nat /\ Frame1(c, m) \in Nat /\ Frame2(c, n) \in Nat
  BY <1>4, FrameStep
<1> QED BY <1>7, <1>8, <1>9

\* What the numbers of the copies are good for.
LEMMA Copies ==
  ASSUME NEW c, NEW k \in Nat
  PROVE  /\ Frame1(c, k) \in Nat
         /\ \A n \in 0 .. k - 1 : /\ Frame1(c, n) \in 0 .. Frame1(c, k) - 1
                                  /\ Frame2(c, n) \in 0 .. Frame1(c, k) - 1
         /\ \A n, m \in 0 .. k - 1 :
              /\ Frame1(c, n) = Frame1(c, m) => n = m
              /\ Frame2(c, n) = Frame2(c, m) => n = m
              /\ Frame1(c, n) = Frame2(c, m) <=> n = m /\ c.type[n] = "IN"
         /\ \A x \in 0 .. Frame1(c, k) - 1 : \E n \in 0 .. k - 1 : x \in {Frame1(c, n), Frame2(c, n)}
<1>1. \A n \in Nat : /\ Frame1(c, n) \in Nat /\ Frame2(c, n) \in Nat
                     /\ c.type[n] = "IN" => Frame2(c, n) = Frame1(c, n) /\ Frame1(c, n + 1) = Frame1(c, n) + 1
                     /\ c.type[n] # "IN" => Frame2(c, n) = Frame1(c, n) + 1 /\ Frame1(c, n + 1) = Frame1(c, n) + 2
  BY FrameStep
<1>2. \A n, m \in Nat : n < m => Frame2(c, n) < Frame1(c, m) /\ Frame1(c, n) < Frame1(c, m)
  BY FramesRise
<1>3. Frame1(c, 0) = 0
  BY FrameStep
<1>4. ASSUME NEW n \in 0 .. k - 1
      PROVE  Frame1(c, n) \in 0 .. Frame1(c, k) - 1 /\ Frame2(c, n) \in 0 .. Frame1(c, k) - 1
  <2>1. n \in Nat /\ n < k
    OBVIOUS
  <2>2. Frame1(c, k) \in Nat
    BY <1>1
  <2> QED BY <1>1, <1>2, <2>1, <2>2
<1>5. ASSUME NEW n \in 0 .. k - 1, NEW m \in 0 .. k - 1
      PROVE  /\ Frame1(c, n) = Frame1(c, m) => n = m
             /\ Frame2(c, n) = Frame2(c, m) => n = m
             /\ Frame1(c, n) = Frame2(c, m) <=> n = m /\ c.type[n] = "IN"
  <2>1. n \in Nat /\ m \in Nat
    OBVIOUS
  <2>2. CASE n = m
    BY <1>1, <2>1, <2>2
  <2>3. CASE n < m
    <3> DEFINE a1 == Frame1(c, n)
               a2 == Frame2(c, n)
               b1 == Frame1(c, m)
               b2 == Frame2(c, m)
    <3>1. a1 \in Nat /\ a2 \in Nat /\ b1 \in Nat /\ b2 \in Nat /\ (b2 = b1 \/ b2 = b1 + 1)
      BY <1>1, <2>1
    <3>2. a2 < b1 /\ a1 < b1
      BY <1>2, <2>1, <2>3
    <3> HIDE DEF a1, a2, b1, b2
    <3>3. a1 # b1 /\ a2 # b2 /\ a1 # b2 /\ b1 # a2
      BY <3>1, <3>2
    <3>4. n # m
      BY <2>1, <2>3
    <3> QED BY <3>3, <3>4 DEF a1, a2, b1, b2
  <2>4. CASE m < n
    <3> DEFINE a1 == Frame1(c, m)
               a2 == Frame2(c, m)
               b1 == Frame1(c, n)
               b2 == Frame2(c, n)
    <3>1. a1 \in Nat /\ a2 \in Nat /\ b1 \in Nat /\ b2 \in Nat /\ (b2 = b1 \/ b2 = b1 + 1)
      BY <1>1, <2>1
    <3>2. a2 < b1 /\ a1 < b1
      BY <1>2, <2>1, <2>4
    <3> HIDE DEF a1, a2, b1, b2
    <3>3. a1 # b1 /\ a2 # b2 /\ a1 # b2 /\ b1 # a2
      BY <3>1, <3>2
    <3>4. n # m
      BY <2>1, <2>4
    <3> QED BY <3>3, <3>4 DEF a1, a2, b1, b2
  <2> QED BY <2>1, <2>2, <2>3, <2>4
<1>6. ASSUME NEW x \in 0 .. Frame1(c, k) - 1
      PROVE  \E n \in 0 .. k - 1 : x \in {Frame1(c, n), Frame2(c, n)}
  <2> DEFINE T == {n \in Nat : x < Frame1(c, n)}
  <2>1. k \in T /\ T \subseteq Nat
    BY <1>1
  <2>2. PICK m \in T : \A n \in T : m <= n
    <3> HIDE DEF T
    <3> QED BY <2>1, LeastNumber
  <2>3. x \in Nat /\ 0 \notin T
    BY <1>1, <1>3
  <2>4. m \in Nat /\ m # 0 /\ x < Frame1(c, m) /\ m <= k
    BY <2>1, <2>2, <2>3
  <2>5. m - 1 \in Nat /\ m - 1 \notin T /\ m - 1 \in 0 .. k - 1 /\ (m - 1) + 1 = m
    BY <2>2, <2>4
  <2> DEFINE n == m - 1
  <2>6. n \in Nat /\ ~ (x < Frame1(c, n)) /\ x < Frame1(c, n + 1) /\ n \in 0 .. k - 1
    BY <2>4, <2>5
  <2> HIDE DEF n
  <2>7. x = Frame1(c, n) \/ x = Frame2(c, n)
    <3> DEFINE a1 == Frame1(c, n)
               a2 == Frame2(c, n)
               b1 == Frame1(c, n + 1)
    <3>1. /\ a1 \in Nat /\ a2 \in Nat /\ b1 \in Nat
          /\ (a2 = a1 /\ b1 = a1 + 1) \/ (a2 = a1 + 1 /\ b1 = a1 + 2)
      <4>1. n + 1 \in Nat
        BY <2>6
      <4> QED BY <1>1, <2>6, <4>1
    <3>2. ~ (x < a1) /\ x < b1
      BY <2>6
    <3> HIDE DEF a1, a2, b1
    <3>3. x = a1 \/ x = a2
      BY <2>3, <3>1, <3>2
    <3> QED BY <3>3 DEF a1, a2
  <2> QED BY <2>6, <2>7
<1> QED BY <1>1, <1>4, <1>5, <1>6


\* The expanded circuit, net by net.
TwoFrames(c, x) ==
  /\ Nets(x) = 0 .. Frame1(c, Cardinality(Nets(c))) - 1
  /\ x.type = [y \in Nets(x) |-> x.type[y]] /\ x.in = [y \in Nets(x) |-> x.in[y]]
  /\ x.out = [y \in Nets(x) |-> x.out[y]] /\ x.first = [y \in Nets(x) |-> x.first[y]]
  /\ x.level = Levels([type |-> x.type, in |-> x.in, out |-> x.out])
  /\ \A n \in Nets(c) :
       /\ x.type[Frame1(c, n)] = IF c.type[n] = "DFF" THEN "IN" ELSE c.type[n]
       /\ x.in[Frame1(c, n)] = IF c.type[n] \in {"IN", "DFF"} THEN <<>> ELSE FrameInputs(c, n, 1)
       /\ x.out[Frame1(c, n)] = IF c.type[n] = "IN" THEN FrameOutputs(c, n, 1) \o FrameOutputs(c, n, 2)
                                ELSE FrameOutputs(c, n, 1)
       /\ x.first[Frame1(c, n)] = IF c.type[n] = "IN" THEN Frame1(c, n) ELSE None
  /\ \A n \in Nets(c) : c.type[n] # "IN" =>
       /\ x.type[Frame2(c, n)] = IF c.type[n] = "DFF" THEN "BUF" ELSE c.type[n]
       /\ x.in[Frame2(c, n)] = IF c.type[n] = "DFF" THEN FrameInputs(c, n, 1) ELSE FrameInputs(c, n, 2)
       /\ x.out[Frame2(c, n)] = FrameOutputs(c, n, 2)
       /\ x.first[Frame2(c, n)] = Frame1(c, n)
  /\ x.pi = [i \in DOMAIN c.pi |-> Frame1(c, c.pi[i])]
            \o [i \in DOMAIN FlipFlops(c) |-> Frame1(c, FlipFlops(c)[i])]
  /\ x.observed = [i \in DOMAIN FlipFlops(c) |-> Frame2(c, c.in[FlipFlops(c)[i]][1])]

\* A circuit of k nets.
Numbered(c, k) == k \in Nat /\ Cardinality(Nets(c)) = k /\ Nets(c) = 0 .. k - 1

\* Copies of different nets are different.
LEMMA CopiesApart ==
  ASSUME NEW c, NEW k, Numbered(c, k), NEW n \in Nets(c), NEW m \in Nets(c)
  PROVE  /\ Frame1(c, n) = Frame1(c, m) => n = m
         /\ Frame2(c, n) = Frame2(c, m) => n = m
         /\ Frame1(c, n) = Frame2(c, m) <=> n = m /\ c.type[n] = "IN"
         /\ Frame1(c, m) = Frame2(c, n) <=> n = m /\ c.type[n] = "IN"
         /\ Frame1(c, n) \in 0 .. Frame1(c, k) - 1 /\ Frame2(c, n) \in 0 .. Frame1(c, k) - 1
         /\ c.type[n] = "IN" => Frame1(c, n) = Frame2(c, n)
<1> DEFINE K == 0 .. k - 1
<1>0. k \in Nat /\ Nets(c) = K
  BY DEF Numbered
<1> HIDE DEF Numbered
<1>1. /\ \A i \in K : Frame1(c, i) \in 0 .. Frame1(c, k) - 1 /\ Frame2(c, i) \in 0 .. Frame1(c, k) - 1
      /\ \A i, j \in K :
           /\ Frame1(c, i) = Frame1(c, j) => i = j
           /\ Frame2(c, i) = Frame2(c, j) => i = j
           /\ Frame1(c, i) = Frame2(c, j) <=> i = j /\ c.type[i] = "IN"
  <2>1. k \in Nat
    BY <1>0
  <2> QED BY <2>1, Copies
<1>2. n \in K /\ m \in K
  BY <1>0
<1> HIDE DEF K
<1> QED BY <1>1, <1>2

\* The expanded circuit holds two copies of each net, an input's are one.
LEMMA ExpandedFrames ==
  ASSUME NEW c, NEW k, Numbered(c, k)
  PROVE  TwoFrames(c, Expanded(c))
<1> DEFINE x == Expanded(c)
           N == Nets(c)
           size == Frame1(c, k)
           X == 0 .. size - 1
           original == [y \in X |-> CHOOSE n \in N : y \in {Frame1(c, n), Frame2(c, n)}]
           InFrame1(y) == y = Frame1(c, original[y])
           IsState(y) == c.type[original[y]] = "DFF"
           Type(y) == IF ~ IsState(y) THEN c.type[original[y]] ELSE IF InFrame1(y) THEN "IN" ELSE "BUF"
           In(y) == IF Type(y) = "IN" THEN <<>>
                    ELSE FrameInputs(c, original[y], IF IsState(y) \/ InFrame1(y) THEN 1 ELSE 2)
           Out(y) == IF c.type[original[y]] = "IN"
                     THEN FrameOutputs(c, original[y], 1) \o FrameOutputs(c, original[y], 2)
                     ELSE FrameOutputs(c, original[y], IF InFrame1(y) THEN 1 ELSE 2)
           First(y) == IF InFrame1(y) /\ c.type[original[y]] # "IN" THEN None
                       ELSE Frame1(c, original[y])
           type == [y \in X |-> Type(y)]
           in == [y \in X |-> In(y)]
           out == [y \in X |-> Out(y)]
           first == [y \in X |-> First(y)]
           states == FlipFlops(c)
           pi == [i \in DOMAIN c.pi |-> Frame1(c, c.pi[i])] \o [i \in DOMAIN states |-> Frame1(c, states[i])]
           observed == [i \in DOMAIN states |-> Frame2(c, c.in[states[i]][1])]
           level == Levels([type |-> type, in |-> in, out |-> out])
<1>1. x = [type |-> type, in |-> in, out |-> out, level |-> level, first |-> first, pi |-> pi, observed |-> observed]
  BY DEF Expanded, Numbered
<1>2. \A y \in X : type[y] = Type(y) /\ in[y] = In(y) /\ out[y] = Out(y) /\ first[y] = First(y)
  OBVIOUS
<1>3. \A n \in N : original[Frame1(c, n)] = n /\ original[Frame2(c, n)] = n
                   /\ Frame1(c, n) \in X /\ Frame2(c, n) \in X
                   /\ (c.type[n] # "IN" => Frame2(c, n) # Frame1(c, n))
  <2> SUFFICES ASSUME NEW n \in N
      PROVE /\ original[Frame1(c, n)] = n /\ original[Frame2(c, n)] = n
            /\ Frame1(c, n) \in X /\ Frame2(c, n) \in X
            /\ (c.type[n] # "IN" => Frame2(c, n) # Frame1(c, n))
    OBVIOUS
  <2>1. Frame1(c, n) \in X /\ Frame2(c, n) \in X
    BY CopiesApart
  <2>2. \A m \in N : /\ Frame1(c, n) \in {Frame1(c, m), Frame2(c, m)} => m = n
                     /\ Frame2(c, n) \in {Frame1(c, m), Frame2(c, m)} => m = n
    <3> SUFFICES ASSUME NEW m \in N
        PROVE /\ Frame1(c, n) \in {Frame1(c, m), Frame2(c, m)} => m = n
              /\ Frame2(c, n) \in {Frame1(c, m), Frame2(c, m)} => m = n
      OBVIOUS
    <3>1. /\ Frame1(c, n) = Frame1(c, m) => n = m
          /\ Frame2(c, n) = Frame2(c, m) => n = m
          /\ Frame1(c, n) = Frame2(c, m) <=> n = m /\ c.type[n] = "IN"
          /\ Frame1(c, m) = Frame2(c, n) <=> n = m /\ c.type[n] = "IN"
      BY CopiesApart
    <3> QED BY <3>1
  <2>3. c.type[n] # "IN" => Frame2(c, n) # Frame1(c, n)
    BY CopiesApart
  <2> HIDE DEF N, X
  <2>4. original[Frame1(c, n)] = CHOOSE m \in N : Frame1(c, n) \in {Frame1(c, m), Frame2(c, m)}
    BY <2>1
  <2>5. original[Frame2(c, n)] = CHOOSE m \in N : Frame2(c, n) \in {Frame1(c, m), Frame2(c, m)}
    BY <2>1
  <2>6. (CHOOSE m \in N : Frame1(c, n) \in {Frame1(c, m), Frame2(c, m)}) = n
    BY <2>2
  <2>7. (CHOOSE m \in N : Frame2(c, n) \in {Frame1(c, m), Frame2(c, m)}) = n
    BY <2>2
  <2> QED BY <2>1, <2>3, <2>4, <2>5, <2>6, <2>7
<1>4. /\ type = [y \in X |-> type[y]] /\ in = [y \in X |-> in[y]]
      /\ out = [y \in X |-> out[y]] /\ first = [y \in X |-> first[y]] /\ DOMAIN type = X
  OBVIOUS
<1> HIDE DEF original, X, N, type, in, out, first
<1>5. ASSUME NEW n \in N
      PROVE  /\ type[Frame1(c, n)] = IF c.type[n] = "DFF" THEN "IN" ELSE c.type[n]
             /\ in[Frame1(c, n)] = IF c.type[n] \in {"IN", "DFF"} THEN <<>> ELSE FrameInputs(c, n, 1)
             /\ out[Frame1(c, n)] = IF c.type[n] = "IN" THEN FrameOutputs(c, n, 1) \o FrameOutputs(c, n, 2)
                                    ELSE FrameOutputs(c, n, 1)
             /\ first[Frame1(c, n)] = IF c.type[n] = "IN" THEN Frame1(c, n) ELSE None
  <2> DEFINE y == Frame1(c, n)
             t == c.type[n]
  <2>1. y \in X /\ original[y] = n
    BY <1>3
  <2>2. InFrame1(y)
    BY <2>1
  <2>3. Type(y) = IF t = "DFF" THEN "IN" ELSE t
    BY <2>1, <2>2
  <2>4. In(y) = IF t \in {"IN", "DFF"} THEN <<>> ELSE FrameInputs(c, n, 1)
    BY <2>1, <2>2, <2>3
  <2>5. Out(y) = IF t = "IN" THEN FrameOutputs(c, n, 1) \o FrameOutputs(c, n, 2) ELSE FrameOutputs(c, n, 1)
    BY <2>1, <2>2
  <2>6. First(y) = IF t = "IN" THEN y ELSE None
    BY <2>1, <2>2
  <2>7. type[y] = Type(y) /\ in[y] = In(y) /\ out[y] = Out(y) /\ first[y] = First(y)
    BY <1>2, <2>1
  <2> HIDE DEF Type, In, Out, First
  <2> QED BY <2>7, <2>1, <2>3, <2>4, <2>5, <2>6
<1>6. ASSUME NEW n \in N, c.type[n] # "IN"
      PROVE  /\ type[Frame2(c, n)] = IF c.type[n] = "DFF" THEN "BUF" ELSE c.type[n]
             /\ in[Frame2(c, n)] = IF c.type[n] = "DFF" THEN FrameInputs(c, n, 1) ELSE FrameInputs(c, n, 2)
             /\ out[Frame2(c, n)] = FrameOutputs(c, n, 2)
             /\ first[Frame2(c, n)] = Frame1(c, n)
  <2> DEFINE y == Frame2(c, n)
             t == c.type[n]
  <2>1. y \in X /\ original[y] = n
    BY <1>3
  <2>2. ~ InFrame1(y)
    BY <1>3, <1>6, <2>1
  <2>3. Type(y) = IF t = "DFF" THEN "BUF" ELSE t
    BY <2>1, <2>2
  <2>4. In(y) = IF t = "DFF" THEN FrameInputs(c, n, 1) ELSE FrameInputs(c, n, 2)
    BY <1>6, <2>1, <2>2, <2>3
  <2>5. Out(y) = FrameOutputs(c, n, 2)
    BY <1>6, <2>1, <2>2
  <2>6. First(y) = Frame1(c, n)
    BY <2>1, <2>2
  <2>7. type[y] = Type(y) /\ in[y] = In(y) /\ out[y] = Out(y) /\ first[y] = First(y)
    BY <1>2, <2>1
  <2> HIDE DEF Type, In, Out, First
  <2> QED BY <2>7, <2>1, <2>3, <2>4, <2>5, <2>6
<1> HIDE DEF x, pi, observed, level
<1>7. /\ x.type = type /\ x.in = in /\ x.out = out /\ x.level = level /\ x.first = first
      /\ x.pi = pi /\ x.observed = observed
  BY <1>1
<1>8. Nets(x) = X
  BY <1>4, <1>7 DEF Nets
<1>9. X = 0 .. Frame1(c, Cardinality(Nets(c))) - 1
  BY DEF X, Numbered
<1>10. x.level = Levels([type |-> x.type, in |-> x.in, out |-> x.out])
  BY <1>7 DEF level
<1>11. x.pi = [i \in DOMAIN c.pi |-> Frame1(c, c.pi[i])]
              \o [i \in DOMAIN FlipFlops(c) |-> Frame1(c, FlipFlops(c)[i])]
       /\ x.observed = [i \in DOMAIN FlipFlops(c) |-> Frame2(c, c.in[FlipFlops(c)[i]][1])]
  BY <1>7 DEF pi, observed
<1>12. TwoFrames(c, x)
  BY <1>4, <1>5, <1>6, <1>7, <1>8, <1>9, <1>10, <1>11 DEF TwoFrames, N
<1> QED BY <1>12 DEF x


\* A copy is a net.
LEMMA FrameNumber ==
  ASSUME NEW c, NEW k, Numbered(c, k), NEW n \in Nets(c), NEW frame \in {1, 2}
  PROVE  Frame(c, n, frame) \in 0 .. Frame1(c, k) - 1
BY CopiesApart DEF Frame

\* A copy's inputs, place by place.
LEMMA FrameInputList ==
  ASSUME NEW c, NEW r, NEW b, Joined(c, r, b), NEW k, Numbered(c, k),
         NEW n \in Nets(c), NEW frame \in {1, 2}
  PROVE  LET s == FrameInputs(c, n, frame)
         IN /\ s \in Seq(0 .. Frame1(c, k) - 1) /\ Len(s) = Len(c.in[n]) /\ DOMAIN s = DOMAIN c.in[n]
            /\ \A i \in DOMAIN c.in[n] : s[i] = Frame(c, c.in[n][i], frame) /\ c.in[n][i] \in Nets(c)
<1> DEFINE s == FrameInputs(c, n, frame)
           X == 0 .. Frame1(c, k) - 1
           N == Nets(c)
           l == Len(c.in[n])
<1>1. c.in[n] \in Seq(N)
  BY DEF Joined
<1>2. \A m \in N : Frame(c, m, frame) \in X
  BY FrameNumber
<1> HIDE DEF X, N
<1>3. l \in Nat /\ DOMAIN c.in[n] = 1 .. l /\ \A i \in 1 .. l : c.in[n][i] \in N
  BY <1>1
<1>4. s = [i \in 1 .. l |-> Frame(c, c.in[n][i], frame)]
  BY DEF FrameInputs
<1> HIDE DEF s, l
<1>5. \A i \in 1 .. l : s[i] = Frame(c, c.in[n][i], frame) /\ s[i] \in X
  BY <1>2, <1>3, <1>4
<1>6. s \in Seq(X) /\ Len(s) = l /\ DOMAIN s = 1 .. l
  BY <1>3, <1>4, <1>5
<1> QED BY <1>3, <1>5, <1>6 DEF s, l, X, N

\* A copy's outputs.
LEMMA FrameOutputList ==
  ASSUME NEW c, NEW r, NEW b, Joined(c, r, b), NEW k, Numbered(c, k),
         NEW n \in Nets(c), NEW frame \in {1, 2}
  PROVE  LET s == FrameOutputs(c, n, frame)
         IN /\ s \in Seq(0 .. Frame1(c, k) - 1)
            /\ \A y : y \in Range(s) <=>
                 \E m \in Outputs(c, n) : /\ c.type[m] = "DFF" => frame = 1 /\ y = Frame2(c, m)
                                          /\ c.type[m] # "DFF" => y = Frame(c, m, frame)
<1> DEFINE s == FrameOutputs(c, n, frame)
           X == 0 .. Frame1(c, k) - 1
           N == Nets(c)
           S == {m \in N : c.type[m] # "DFF" \/ frame = 1}
           t == Filtered(c.out[n], S)
           To(m) == IF c.type[m] = "DFF" THEN Frame2(c, m) ELSE Frame(c, m, frame)
           l == Len(t)
<1>1. c.out[n] \in Seq(N)
  BY DEF Joined
<1>2. t \in Seq(N) /\ Range(t) = Outputs(c, n) \intersect S
  <2>1. Range(c.out[n]) = Outputs(c, n)
    BY DEF Range, Outputs
  <2> HIDE DEF N, S
  <2> QED BY <1>1, <2>1, Sieved
<1>3. \A m \in N : To(m) \in X
  BY CopiesApart, FrameNumber
<1>4. Outputs(c, n) \subseteq N
  <2> HIDE DEF N
  <2> QED BY <1>1 DEF Outputs
<1>5. s = [i \in 1 .. l |-> To(t[i])]
  BY DEF FrameOutputs
<1>6. \A m \in Outputs(c, n) : m \in S <=> c.type[m] # "DFF" \/ frame = 1
  BY <1>4
<1> HIDE DEF X, N, S, t
<1>7. l \in Nat /\ DOMAIN t = 1 .. l /\ \A i \in 1 .. l : t[i] \in N
  BY <1>2
<1> HIDE DEF l, s, To
<1>8. \A i \in 1 .. l : s[i] = To(t[i]) /\ s[i] \in X
  BY <1>3, <1>5, <1>7
<1>9. s \in Seq(X) /\ DOMAIN s = 1 .. l
  BY <1>5, <1>7, <1>8
<1>10. \A y : y \in Range(s) <=> \E m \in Outputs(c, n) \intersect S : y = To(m)
  <2>1. \A y : y \in Range(s) <=> \E i \in 1 .. l : y = To(t[i])
    BY <1>8, <1>9 DEF Range
  <2>2. \A m : m \in Outputs(c, n) \intersect S <=> \E i \in 1 .. l : m = t[i]
    BY <1>2, <1>7 DEF Range
  <2> QED BY <2>1, <2>2
<1> DEFINE Leads(y, m) == /\ c.type[m] = "DFF" => frame = 1 /\ y = Frame2(c, m)
                          /\ c.type[m] # "DFF" => y = Frame(c, m, frame)
<1>11. \A y : \A m \in Outputs(c, n) : m \in S /\ y = To(m) <=> Leads(y, m)
  BY <1>6 DEF To
<1> HIDE DEF Leads
<1>12. \A y : y \in Range(s) <=> \E m \in Outputs(c, n) : Leads(y, m)
  BY <1>10, <1>11
<1> QED BY <1>9, <1>12 DEF s, X, Leads


\* The edges of the two frames, at their ends and at their beginnings.
IntoFrame1(c, n, y) == c.type[n] \notin {"IN", "DFF"} /\ \E m \in Inputs(c, n) : y = Frame1(c, m)
IntoFrame2(c, n, y) ==
  \E m \in Inputs(c, n) : /\ c.type[n] = "DFF" => y = Frame1(c, m)
                          /\ c.type[n] # "DFF" => y = Frame2(c, m)
FromFrame1(c, n, y) ==
  \E m \in Outputs(c, n) : /\ c.type[m] = "DFF" => y = Frame2(c, m)
                           /\ c.type[m] # "DFF" => y = Frame1(c, m) \/ (c.type[n] = "IN" /\ y = Frame2(c, m))
FromFrame2(c, n, y) == \E m \in Outputs(c, n) : c.type[m] # "DFF" /\ y = Frame2(c, m)

\* The nets a copy's inputs are.
LEMMA FrameInputSets ==
  ASSUME NEW c, NEW r, NEW b, Joined(c, r, b), NEW k, Numbered(c, k), NEW n \in Nets(c)
  PROVE  /\ \A y : y \in Range(FrameInputs(c, n, 1)) <=> \E m \in Inputs(c, n) : y = Frame1(c, m)
         /\ \A y : y \in Range(FrameInputs(c, n, 2)) <=> \E m \in Inputs(c, n) : y = Frame2(c, m)
<1>1. \A frame \in {1, 2} : \A y :
        y \in Range(FrameInputs(c, n, frame)) <=> \E m \in Inputs(c, n) : y = Frame(c, m, frame)
  <2> SUFFICES ASSUME NEW frame \in {1, 2}, NEW y
      PROVE y \in Range(FrameInputs(c, n, frame)) <=> \E m \in Inputs(c, n) : y = Frame(c, m, frame)
    OBVIOUS
  <2> DEFINE s == FrameInputs(c, n, frame)
  <2>1. DOMAIN s = DOMAIN c.in[n] /\ \A i \in DOMAIN c.in[n] : s[i] = Frame(c, c.in[n][i], frame)
    BY FrameInputList
  <2> HIDE DEF s
  <2>2. y \in Range(s) <=> \E i \in DOMAIN c.in[n] : y = Frame(c, c.in[n][i], frame)
    BY <2>1 DEF Range
  <2> QED BY <2>2 DEF Inputs, s
<1>2. \A m : Frame(c, m, 1) = Frame1(c, m) /\ Frame(c, m, 2) = Frame2(c, m)
  BY DEF Frame
<1> QED BY <1>1, <1>2

\* The nets a copy's outputs are.
LEMMA FrameOutputSets ==
  ASSUME NEW c, NEW r, NEW b, Joined(c, r, b), NEW k, Numbered(c, k), NEW n \in Nets(c)
  PROVE  /\ c.type[n] # "IN" => \A y : y \in Range(FrameOutputs(c, n, 1)) <=> FromFrame1(c, n, y)
         /\ c.type[n] = "IN" => \A y : y \in Range(FrameOutputs(c, n, 1)) \union Range(FrameOutputs(c, n, 2))
                                       <=> FromFrame1(c, n, y)
         /\ \A y : y \in Range(FrameOutputs(c, n, 2)) <=> FromFrame2(c, n, y)
<1>1. \A m : Frame(c, m, 1) = Frame1(c, m) /\ Frame(c, m, 2) = Frame2(c, m)
  BY DEF Frame
<1> DEFINE O == Outputs(c, n)
           E1 == Range(FrameOutputs(c, n, 1))
           E2 == Range(FrameOutputs(c, n, 2))
<1>2. \A y : y \in E1 <=>
        \E m \in O : /\ c.type[m] = "DFF" => 1 = 1 /\ y = Frame2(c, m)
                     /\ c.type[m] # "DFF" => y = Frame(c, m, 1)
  BY FrameOutputList
<1>3. \A y : y \in E2 <=>
        \E m \in O : /\ c.type[m] = "DFF" => 2 = 1 /\ y = Frame2(c, m)
                     /\ c.type[m] # "DFF" => y = Frame(c, m, 2)
  BY FrameOutputList
<1> HIDE DEF O, E1, E2
<1>4. \A y : y \in E1 <=>
        \E m \in O : (c.type[m] = "DFF" /\ y = Frame2(c, m)) \/ (c.type[m] # "DFF" /\ y = Frame1(c, m))
  BY <1>1, <1>2
<1>5. \A y : y \in E2 <=> \E m \in O : c.type[m] # "DFF" /\ y = Frame2(c, m)
  <2>1. 2 # 1
    OBVIOUS
  <2> QED BY <1>1, <1>3, <2>1
<1>6. c.type[n] # "IN" => \A y : y \in E1 <=> FromFrame1(c, n, y)
  BY <1>4 DEF FromFrame1, O
<1>7. \A y : y \in E2 <=> FromFrame2(c, n, y)
  BY <1>5 DEF FromFrame2, O
<1>8. c.type[n] = "IN" => \A y : y \in E1 \union E2 <=> FromFrame1(c, n, y)
  <2> SUFFICES ASSUME c.type[n] = "IN", NEW y PROVE y \in E1 \union E2 <=> FromFrame1(c, n, y)
    OBVIOUS
  <2>1. ASSUME y \in E1 \union E2 PROVE FromFrame1(c, n, y)
    BY <1>4, <1>5, <2>1 DEF FromFrame1, O
  <2>2. ASSUME FromFrame1(c, n, y) PROVE y \in E1 \union E2
    <3>1. PICK m \in O : /\ c.type[m] = "DFF" => y = Frame2(c, m)
                         /\ c.type[m] # "DFF" => y = Frame1(c, m) \/ y = Frame2(c, m)
      BY <2>2 DEF FromFrame1, O
    <3> QED BY <1>4, <1>5, <3>1
  <2> QED BY <2>1, <2>2
<1> QED BY <1>6, <1>7, <1>8 DEF E1, E2

\* Two lists one behind the other.
LEMMA Joint ==
  ASSUME NEW T, NEW s \in Seq(T), NEW t \in Seq(T)
  PROVE  /\ s \o t \in Seq(T) /\ Range(s \o t) = Range(s) \union Range(t)
         /\ \A i \in DOMAIN s : i \in DOMAIN (s \o t) /\ (s \o t)[i] = s[i]
         /\ \A i \in DOMAIN t : i + Len(s) \in DOMAIN (s \o t) /\ (s \o t)[i + Len(s)] = t[i]
         /\ \A i \in DOMAIN (s \o t) : \/ i \in DOMAIN s /\ (s \o t)[i] = s[i]
                                       \/ i \notin DOMAIN s /\ \E j \in DOMAIN t : i = j + Len(s) /\ (s \o t)[i] = t[j]
<1> DEFINE u == s \o t
           a == Len(s)
           e == Len(t)
<1>1. /\ u \in Seq(T) /\ a \in Nat /\ e \in Nat /\ Len(u) = a + e
      /\ DOMAIN u = 1 .. a + e /\ DOMAIN s = 1 .. a /\ DOMAIN t = 1 .. e
      /\ \A i \in 1 .. a + e : u[i] = IF i <= a THEN s[i] ELSE t[i - a]
  OBVIOUS
<1> HIDE DEF u, a, e
<1>2. \A i \in 1 .. a : i \in 1 .. a + e /\ u[i] = s[i]
  BY <1>1
<1>3. \A i \in 1 .. e : i + a \in 1 .. a + e /\ ~ (i + a <= a) /\ (i + a) - a = i
  BY <1>1
<1>4. \A i \in 1 .. e : u[i + a] = t[i]
  BY <1>1, <1>3
<1>5. \A i \in 1 .. a + e : i \notin 1 .. a => i - a \in 1 .. e /\ i = (i - a) + a /\ ~ (i <= a)
  BY <1>1
<1>6. \A i \in 1 .. a + e : i \notin 1 .. a => \E j \in 1 .. e : i = j + a /\ u[i] = t[j]
  BY <1>1, <1>5
<1>7. Range(u) = Range(s) \union Range(t)
  <2>1. Range(u) \subseteq Range(s) \union Range(t)
    <3> SUFFICES ASSUME NEW i \in 1 .. a + e PROVE u[i] \in Range(s) \union Range(t)
      BY <1>1 DEF Range
    <3> QED BY <1>1, <1>2, <1>6 DEF Range
  <2>2. Range(s) \subseteq Range(u)
    BY <1>1, <1>2 DEF Range
  <2>3. Range(t) \subseteq Range(u)
    <3> SUFFICES ASSUME NEW i \in 1 .. e PROVE t[i] \in Range(u)
      BY <1>1 DEF Range
    <3> QED BY <1>1, <1>3, <1>4 DEF Range
  <2> QED BY <2>1, <2>2, <2>3
<1> QED BY <1>1, <1>2, <1>3, <1>4, <1>6, <1>7 DEF u, a


\* Which edges there are in the two frames and between them.
LEMMA FrameEdges ==
  ASSUME NEW c, NEW r, NEW b, Joined(c, r, b), NEW k, Numbered(c, k), NEW x, TwoFrames(c, x),
         NEW n \in Nets(c)
  PROVE  /\ \A y : y \in Inputs(x, Frame1(c, n)) <=> IntoFrame1(c, n, y)
         /\ \A y : y \in Outputs(x, Frame1(c, n)) <=> FromFrame1(c, n, y)
         /\ c.type[n] # "IN" => \A y : y \in Inputs(x, Frame2(c, n)) <=> IntoFrame2(c, n, y)
         /\ c.type[n] # "IN" => \A y : y \in Outputs(x, Frame2(c, n)) <=> FromFrame2(c, n, y)
<1>1. \A y : Inputs(x, y) = Range(x.in[y]) /\ Outputs(x, y) = Range(x.out[y])
  BY DEF Inputs, Outputs, Range
<1>2. Range(<<>>) = {}
  <2>1. DOMAIN <<>> = {}
    OBVIOUS
  <2> QED BY <2>1 DEF Range
<1>3. \A y : y \in Inputs(x, Frame1(c, n)) <=> IntoFrame1(c, n, y)
  <2>1. x.in[Frame1(c, n)] = IF c.type[n] \in {"IN", "DFF"} THEN <<>> ELSE FrameInputs(c, n, 1)
    BY DEF TwoFrames
  <2>2. \A y : y \in Range(FrameInputs(c, n, 1)) <=> \E m \in Inputs(c, n) : y = Frame1(c, m)
    BY FrameInputSets
  <2> QED BY <1>1, <1>2, <2>1, <2>2 DEF IntoFrame1
<1>4. \A y : y \in Outputs(x, Frame1(c, n)) <=> FromFrame1(c, n, y)
  <2> DEFINE s == FrameOutputs(c, n, 1)
             t == FrameOutputs(c, n, 2)
             X == 0 .. Frame1(c, k) - 1
  <2>1. x.out[Frame1(c, n)] = IF c.type[n] = "IN" THEN s \o t ELSE s
    BY DEF TwoFrames
  <2>2. s \in Seq(X) /\ t \in Seq(X)
    BY FrameOutputList
  <2> HIDE DEF X
  <2>3. /\ c.type[n] # "IN" => \A y : y \in Range(s) <=> FromFrame1(c, n, y)
        /\ c.type[n] = "IN" => \A y : y \in Range(s) \union Range(t) <=> FromFrame1(c, n, y)
    BY FrameOutputSets
  <2> HIDE DEF s, t
  <2>4. Range(s \o t) = Range(s) \union Range(t)
    BY <2>2, Joint
  <2> QED BY <1>1, <2>1, <2>3, <2>4
<1>5. ASSUME c.type[n] # "IN"
      PROVE  /\ \A y : y \in Inputs(x, Frame2(c, n)) <=> IntoFrame2(c, n, y)
             /\ \A y : y \in Outputs(x, Frame2(c, n)) <=> FromFrame2(c, n, y)
  <2>1. /\ x.in[Frame2(c, n)] = IF c.type[n] = "DFF" THEN FrameInputs(c, n, 1) ELSE FrameInputs(c, n, 2)
        /\ x.out[Frame2(c, n)] = FrameOutputs(c, n, 2)
    BY <1>5 DEF TwoFrames
  <2>2. /\ \A y : y \in Range(FrameInputs(c, n, 1)) <=> \E m \in Inputs(c, n) : y = Frame1(c, m)
        /\ \A y : y \in Range(FrameInputs(c, n, 2)) <=> \E m \in Inputs(c, n) : y = Frame2(c, m)
    BY FrameInputSets
  <2>3. \A y : y \in Range(FrameOutputs(c, n, 2)) <=> FromFrame2(c, n, y)
    BY FrameOutputSets
  <2>4. \A y : y \in Inputs(x, Frame2(c, n)) <=> IntoFrame2(c, n, y)
    <3>1. CASE c.type[n] = "DFF"
      BY <1>1, <2>1, <2>2, <3>1 DEF IntoFrame2
    <3>2. CASE c.type[n] # "DFF"
      BY <1>1, <2>1, <2>2, <3>2 DEF IntoFrame2
    <3> QED BY <3>1, <3>2
  <2> QED BY <1>1, <2>1, <2>3, <2>4
<1> QED BY <1>3, <1>4, <1>5

\* Every net of the two frames is a copy.
LEMMA AnyCopy ==
  ASSUME NEW c, NEW k, Numbered(c, k), NEW x, TwoFrames(c, x)
  PROVE  /\ \A y \in Nets(x) : \E n \in Nets(c) : y = Frame1(c, n) \/ (y = Frame2(c, n) /\ c.type[n] # "IN")
         /\ \A n \in Nets(c) : Frame1(c, n) \in Nets(x) /\ Frame2(c, n) \in Nets(x)
         /\ Nets(x) = 0 .. Frame1(c, k) - 1 /\ IsFiniteSet(Nets(x)) /\ Nets(x) \subseteq Nat
         /\ Frame1(c, k) \in Nat
<1>1. Nets(x) = 0 .. Frame1(c, k) - 1
  BY DEF TwoFrames, Numbered
<1>2. k \in Nat /\ Nets(c) = 0 .. k - 1
  BY DEF Numbered
<1>3. Frame1(c, k) \in Nat
  BY <1>2, Copies
<1>4. \A n \in Nets(c) : Frame1(c, n) \in Nets(x) /\ Frame2(c, n) \in Nets(x)
  BY <1>1, CopiesApart
<1>5. ASSUME NEW y \in Nets(x)
      PROVE  \E n \in Nets(c) : y = Frame1(c, n) \/ (y = Frame2(c, n) /\ c.type[n] # "IN")
  <2>1. \A z \in 0 .. Frame1(c, k) - 1 : \E n \in 0 .. k - 1 : z \in {Frame1(c, n), Frame2(c, n)}
    BY <1>2, Copies
  <2>2. PICK n \in Nets(c) : y = Frame1(c, n) \/ y = Frame2(c, n)
    BY <1>1, <1>2, <2>1
  <2>3. c.type[n] = "IN" => Frame2(c, n) = Frame1(c, n)
    BY DEF Frame2
  <2> QED BY <2>2, <2>3
<1>6. IsFiniteSet(Nets(x)) /\ Nets(x) \subseteq Nat
  <2> DEFINE size == Frame1(c, k)
  <2> HIDE DEF size
  <2>1. size \in Nat /\ Nets(x) = 0 .. size - 1
    BY <1>1, <1>3 DEF size
  <2> QED BY <2>1, NumbersBelow
<1> QED BY <1>1, <1>3, <1>4, <1>5, <1>6

\* Lists of nets of known types.
LEMMA FrameLists ==
  ASSUME NEW c, NEW r, NEW b, Joined(c, r, b), NEW k, Numbered(c, k), NEW x, TwoFrames(c, x)
  PROVE  \A y \in Nets(x) : x.in[y] \in Seq(Nets(x)) /\ x.out[y] \in Seq(Nets(x))
                            /\ x.type[y] \in GateTypes \union {"IN"}
                            /\ x.first[y] \in Nets(x) \union {None}
<1> DEFINE X == 0 .. Frame1(c, k) - 1
<1>1. Nets(x) = X
  BY AnyCopy
<1>2. ASSUME NEW n \in Nets(c)
      PROVE  /\ FrameInputs(c, n, 1) \in Seq(X) /\ FrameInputs(c, n, 2) \in Seq(X)
             /\ FrameOutputs(c, n, 1) \in Seq(X) /\ FrameOutputs(c, n, 2) \in Seq(X)
             /\ Frame1(c, n) \in X /\ Frame2(c, n) \in X
  BY FrameInputList, FrameOutputList, CopiesApart
<1>3. \A n \in Nets(c) : c.type[n] \in GateTypes \union {"IN", "DFF"}
  BY DEF Joined
<1>4. \A y \in Nets(x) : \E n \in Nets(c) : y = Frame1(c, n) \/ (y = Frame2(c, n) /\ c.type[n] # "IN")
  BY AnyCopy
<1> HIDE DEF X
<1> SUFFICES ASSUME NEW y \in Nets(x)
             PROVE  /\ x.in[y] \in Seq(X) /\ x.out[y] \in Seq(X)
                    /\ x.type[y] \in GateTypes \union {"IN"} /\ x.first[y] \in X \union {None}
  BY <1>1
<1>5. PICK n \in Nets(c) : y = Frame1(c, n) \/ (y = Frame2(c, n) /\ c.type[n] # "IN")
  BY <1>4
<1>6. <<>> \in Seq(X) /\ "BUF" \in GateTypes
  BY DEF GateTypes
<1>7. FrameOutputs(c, n, 1) \o FrameOutputs(c, n, 2) \in Seq(X)
  BY <1>2, Joint
<1>8. CASE y = Frame1(c, n)
  <2>1. /\ x.type[Frame1(c, n)] = IF c.type[n] = "DFF" THEN "IN" ELSE c.type[n]
        /\ x.in[Frame1(c, n)] = IF c.type[n] \in {"IN", "DFF"} THEN <<>> ELSE FrameInputs(c, n, 1)
        /\ x.out[Frame1(c, n)] = IF c.type[n] = "IN" THEN FrameOutputs(c, n, 1) \o FrameOutputs(c, n, 2)
                                 ELSE FrameOutputs(c, n, 1)
        /\ x.first[Frame1(c, n)] = IF c.type[n] = "IN" THEN Frame1(c, n) ELSE None
    BY DEF TwoFrames
  <2>2. x.in[y] \in Seq(X) /\ x.out[y] \in Seq(X)
    BY <1>2, <1>6, <1>7, <1>8, <2>1
  <2>3. x.type[y] \in GateTypes \union {"IN"} /\ x.first[y] \in X \union {None}
    BY <1>2, <1>3, <1>8, <2>1
  <2> QED BY <2>2, <2>3
<1>9. CASE y = Frame2(c, n) /\ c.type[n] # "IN"
  <2>1. /\ x.type[Frame2(c, n)] = IF c.type[n] = "DFF" THEN "BUF" ELSE c.type[n]
        /\ x.in[Frame2(c, n)] = IF c.type[n] = "DFF" THEN FrameInputs(c, n, 1) ELSE FrameInputs(c, n, 2)
        /\ x.out[Frame2(c, n)] = FrameOutputs(c, n, 2)
        /\ x.first[Frame2(c, n)] = Frame1(c, n)
    BY <1>9 DEF TwoFrames
  <2>2. x.in[y] \in Seq(X) /\ x.out[y] \in Seq(X)
    BY <1>2, <1>9, <2>1
  <2>3. x.type[y] \in GateTypes \union {"IN"} /\ x.first[y] \in X \union {None}
    BY <1>2, <1>3, <1>6, <1>9, <2>1
  <2> QED BY <2>2, <2>3
<1> QED BY <1>5, <1>8, <1>9

\* Edges agree at both ends.
LEMMA FramesAgree ==
  ASSUME NEW c, NEW r, NEW b, Joined(c, r, b), NEW k, Numbered(c, k), NEW x, TwoFrames(c, x),
         NEW u \in Nets(x), NEW v \in Nets(x)
  PROVE  u \in Inputs(x, v) <=> v \in Outputs(x, u)
<1> DEFINE N == Nets(c)
           A(n) == Frame1(c, n)
           B(n) == Frame2(c, n)
           t == c.type
           I(n) == Inputs(c, n)
           O(n) == Outputs(c, n)
<1>1. \A n, m \in N : /\ A(n) = A(m) => n = m
                      /\ B(n) = B(m) => n = m
                      /\ A(n) = B(m) => n = m /\ t[n] = "IN"
                      /\ t[n] = "IN" => A(n) = B(n)
  BY CopiesApart
<1>2. \A n, m \in N : m \in I(n) <=> n \in O(m)
  BY DEF Joined, Edged
<1>3. \A n \in N : I(n) \subseteq N /\ O(n) \subseteq N /\ \A m \in O(n) : t[m] # "IN"
  <2>1. \A n \in N : c.in[n] \in Seq(N) /\ c.out[n] \in Seq(N) /\ (t[n] = "IN" => c.in[n] = <<>>)
    BY DEF Joined
  <2>2. \A n \in N : I(n) \subseteq N /\ O(n) \subseteq N
    <3> HIDE DEF N
    <3> QED BY <2>1 DEF Inputs, Outputs
  <2>3. DOMAIN <<>> = {}
    OBVIOUS
  <2>4. \A n \in N : t[n] = "IN" => I(n) = {}
    BY <2>1, <2>3 DEF Inputs
  <2> QED BY <1>2, <2>2, <2>4
<1>4. PICK p \in N : u = A(p) \/ (u = B(p) /\ t[p] # "IN")
  BY AnyCopy
<1>5. PICK q \in N : v = A(q) \/ (v = B(q) /\ t[q] # "IN")
  BY AnyCopy
<1>6. /\ \A y : y \in Outputs(x, Frame1(c, p)) <=> FromFrame1(c, p, y)
      /\ t[p] # "IN" => \A y : y \in Outputs(x, Frame2(c, p)) <=> FromFrame2(c, p, y)
  BY FrameEdges
<1>7. /\ \A y : y \in Inputs(x, Frame1(c, q)) <=> IntoFrame1(c, q, y)
      /\ t[q] # "IN" => \A y : y \in Inputs(x, Frame2(c, q)) <=> IntoFrame2(c, q, y)
  BY FrameEdges
<1>8. /\ FromFrame1(c, p, v) <=> \E m \in O(p) : /\ t[m] = "DFF" => v = B(m)
                                                 /\ t[m] # "DFF" => v = A(m) \/ (t[p] = "IN" /\ v = B(m))
      /\ FromFrame2(c, p, v) <=> \E m \in O(p) : t[m] # "DFF" /\ v = B(m)
      /\ IntoFrame1(c, q, u) <=> t[q] # "IN" /\ t[q] # "DFF" /\ \E m \in I(q) : u = A(m)
      /\ IntoFrame2(c, q, u) <=> \E m \in I(q) : /\ t[q] = "DFF" => u = A(m)
                                                 /\ t[q] # "DFF" => u = B(m)
  BY DEF FromFrame1, FromFrame2, IntoFrame1, IntoFrame2
<1> HIDE DEF N, t, I, O
<1>9. CASE u = A(p) /\ v = A(q)
  <2>1. u \in Inputs(x, v) <=> IntoFrame1(c, q, u)
    BY <1>7, <1>9
  <2>2. v \in Outputs(x, u) <=> FromFrame1(c, p, v)
    BY <1>6, <1>9
  <2> HIDE DEF A, B
  <2>3. IntoFrame1(c, q, u) => FromFrame1(c, p, v)
    BY <1>1, <1>2, <1>3, <1>8, <1>9
  <2>4. FromFrame1(c, p, v) => IntoFrame1(c, q, u)
    BY <1>1, <1>2, <1>3, <1>8, <1>9
  <2> QED BY <2>1, <2>2, <2>3, <2>4
<1>10. CASE u = A(p) /\ v = B(q) /\ t[q] # "IN"
  <2>1. u \in Inputs(x, v) <=> IntoFrame2(c, q, u)
    BY <1>7, <1>10
  <2>2. v \in Outputs(x, u) <=> FromFrame1(c, p, v)
    BY <1>6, <1>10
  <2> HIDE DEF A, B
  <2>3. IntoFrame2(c, q, u) => FromFrame1(c, p, v)
    BY <1>1, <1>2, <1>3, <1>8, <1>10
  <2>4. FromFrame1(c, p, v) => IntoFrame2(c, q, u)
    BY <1>1, <1>2, <1>3, <1>8, <1>10
  <2> QED BY <2>1, <2>2, <2>3, <2>4
<1>11. CASE u = B(p) /\ t[p] # "IN" /\ v = A(q)
  <2>1. u \in Inputs(x, v) <=> IntoFrame1(c, q, u)
    BY <1>7, <1>11
  <2>2. v \in Outputs(x, u) <=> FromFrame2(c, p, v)
    BY <1>6, <1>11
  <2> HIDE DEF A, B
  <2>3. ~ IntoFrame1(c, q, u)
    BY <1>1, <1>2, <1>3, <1>8, <1>11
  <2>4. ~ FromFrame2(c, p, v)
    BY <1>1, <1>2, <1>3, <1>8, <1>11
  <2> QED BY <2>1, <2>2, <2>3, <2>4
<1>12. CASE u = B(p) /\ t[p] # "IN" /\ v = B(q) /\ t[q] # "IN"
  <2>1. u \in Inputs(x, v) <=> IntoFrame2(c, q, u)
    BY <1>7, <1>12
  <2>2. v \in Outputs(x, u) <=> FromFrame2(c, p, v)
    BY <1>6, <1>12
  <2> HIDE DEF A, B
  <2>3. IntoFrame2(c, q, u) => FromFrame2(c, p, v)
    BY <1>1, <1>2, <1>3, <1>8, <1>12
  <2>4. FromFrame2(c, p, v) => IntoFrame2(c, q, u)
    BY <1>1, <1>2, <1>3, <1>8, <1>12
  <2> QED BY <2>1, <2>2, <2>3, <2>4
<1> QED BY <1>4, <1>5, <1>9, <1>10, <1>11, <1>12


\* A net's number of inputs is what its type asks for.
LEMMA FrameInputShape ==
  ASSUME NEW c, NEW r, NEW b, Joined(c, r, b), NEW k, Numbered(c, k), NEW n \in Nets(c),
         NEW frame \in {1, 2}, c.type[n] # "IN"
  PROVE  /\ FrameInputs(c, n, frame) # <<>>
         /\ c.type[n] \in {"BUF", "FOUT", "INV", "DFF"} => Len(FrameInputs(c, n, frame)) = 1
         /\ c.type[n] \in {"EXOR", "EXNOR"} => Len(FrameInputs(c, n, frame)) = 2
         /\ \A i, j \in DOMAIN FrameInputs(c, n, frame) :
              FrameInputs(c, n, frame)[i] = FrameInputs(c, n, frame)[j] => i = j
<1> DEFINE s == FrameInputs(c, n, frame)
           X == 0 .. Frame1(c, k) - 1
           t == c.in[n]
<1>1. /\ s \in Seq(X) /\ Len(s) = Len(t) /\ DOMAIN s = DOMAIN t
      /\ \A i \in DOMAIN t : s[i] = Frame(c, t[i], frame) /\ t[i] \in Nets(c)
  BY FrameInputList
<1>2. /\ t \in Seq(Nets(c)) /\ t # <<>>
      /\ c.type[n] \in {"BUF", "FOUT", "INV", "DFF"} => Len(t) = 1
      /\ c.type[n] \in {"EXOR", "EXNOR"} => Len(t) = 2
      /\ \A i, j \in DOMAIN t : t[i] = t[j] => i = j
  BY DEF Joined
<1>3. \A m, q \in Nets(c) : Frame(c, m, frame) = Frame(c, q, frame) => m = q
  BY CopiesApart DEF Frame
<1> HIDE DEF s, t, X
<1>4. s # <<>>
  <2>1. Len(t) \in Nat /\ (Len(t) = 0 => t = <<>>)
    BY <1>2
  <2>2. Len(s) # 0
    BY <1>1, <1>2, <2>1
  <2> QED BY <2>2
<1>5. \A i, j \in DOMAIN s : s[i] = s[j] => i = j
  BY <1>1, <1>2, <1>3
<1> QED BY <1>1, <1>2, <1>4, <1>5 DEF s

\* Every copy has the inputs its type asks for.
LEMMA FrameShape ==
  ASSUME NEW c, NEW r, NEW b, Joined(c, r, b), NEW k, Numbered(c, k), NEW x, TwoFrames(c, x),
         NEW y \in Nets(x)
  PROVE  /\ x.type[y] = "IN" <=> x.in[y] = <<>>
         /\ x.type[y] \in {"BUF", "FOUT", "INV"} => Len(x.in[y]) = 1
         /\ x.type[y] \in {"EXOR", "EXNOR"} => Len(x.in[y]) = 2
         /\ \A i, j \in DOMAIN x.in[y] : x.in[y][i] = x.in[y][j] => i = j
<1>1. PICK n \in Nets(c) : y = Frame1(c, n) \/ (y = Frame2(c, n) /\ c.type[n] # "IN")
  BY AnyCopy
<1> DEFINE s == FrameInputs(c, n, 1)
           t == FrameInputs(c, n, 2)
           Right(f) == /\ f # <<>>
                       /\ c.type[n] \in {"BUF", "FOUT", "INV", "DFF"} => Len(f) = 1
                       /\ c.type[n] \in {"EXOR", "EXNOR"} => Len(f) = 2
                       /\ \A i, j \in DOMAIN f : f[i] = f[j] => i = j
<1>2. c.type[n] # "IN" => Right(s) /\ Right(t)
  BY FrameInputShape
<1> HIDE DEF s, t
<1>3. DOMAIN <<>> = {}
  OBVIOUS
<1>4. CASE y = Frame1(c, n)
  <2>1. /\ x.type[y] = IF c.type[n] = "DFF" THEN "IN" ELSE c.type[n]
        /\ x.in[y] = IF c.type[n] \in {"IN", "DFF"} THEN <<>> ELSE s
    BY <1>4 DEF TwoFrames, s
  <2>2. CASE c.type[n] \in {"IN", "DFF"}
    <3>1. x.type[y] = "IN" /\ x.in[y] = <<>>
      BY <2>1, <2>2
    <3> QED BY <1>3, <3>1
  <2>3. CASE c.type[n] \notin {"IN", "DFF"}
    <3>1. x.type[y] = c.type[n] /\ x.in[y] = s /\ c.type[n] # "IN"
      BY <2>1, <2>3
    <3> QED BY <1>2, <3>1
  <2> QED BY <2>2, <2>3
<1>5. CASE y = Frame2(c, n) /\ c.type[n] # "IN"
  <2>1. /\ x.type[y] = IF c.type[n] = "DFF" THEN "BUF" ELSE c.type[n]
        /\ x.in[y] = IF c.type[n] = "DFF" THEN s ELSE t
    BY <1>5 DEF TwoFrames, s, t
  <2>2. CASE c.type[n] = "DFF"
    <3>1. x.type[y] = "BUF" /\ x.in[y] = s
      BY <2>1, <2>2
    <3> QED BY <1>2, <1>5, <2>2, <3>1
  <2>3. CASE c.type[n] # "DFF"
    <3>1. x.type[y] = c.type[n] /\ x.in[y] = t
      BY <2>1, <2>3
    <3> QED BY <1>2, <1>5, <3>1
  <2> QED BY <2>2, <2>3
<1> QED BY <1>1, <1>4, <1>5

\* A net that leads to several nets leads to branches, but for a shared input.
LEMMA FrameBranches ==
  ASSUME NEW c, NEW r, NEW b, Joined(c, r, b), NEW k, Numbered(c, k), NEW x, TwoFrames(c, x),
         NEW y \in Nets(x), NEW u \in Outputs(x, y), NEW v \in Outputs(x, y), u # v
  PROVE  x.type[u] = "FOUT" \/ Shared(x, y)
<1>1. PICK n \in Nets(c) : y = Frame1(c, n) \/ (y = Frame2(c, n) /\ c.type[n] # "IN")
  BY AnyCopy
<1>2. ASSUME NEW p \in Outputs(c, n), NEW q \in Outputs(c, n), p # q
      PROVE  c.type[p] = "FOUT"
  BY <1>2 DEF Joined
<1>3. \A p \in Outputs(c, n) : p \in Nets(c)
  <2>1. c.out[n] \in Seq(Nets(c))
    BY DEF Joined
  <2> QED BY <2>1 DEF Outputs
<1>4. \A p \in Nets(c) : c.type[p] = "FOUT" => x.type[Frame1(c, p)] = "FOUT" /\ x.type[Frame2(c, p)] = "FOUT"
  BY DEF TwoFrames
<1>5. CASE y = Frame1(c, n) /\ c.type[n] = "IN"
  <2>1. x.type[y] = "IN" /\ x.first[y] = y
    BY <1>5 DEF TwoFrames
  <2> QED BY <2>1 DEF Shared
<1>6. CASE y = Frame1(c, n) /\ c.type[n] # "IN"
  <2>1. FromFrame1(c, n, u) /\ FromFrame1(c, n, v)
    BY <1>6, FrameEdges
  <2>2. PICK p \in Outputs(c, n) : /\ c.type[p] = "DFF" => u = Frame2(c, p)
                                   /\ c.type[p] # "DFF" => u = Frame1(c, p)
    BY <1>6, <2>1 DEF FromFrame1
  <2>3. PICK q \in Outputs(c, n) : /\ c.type[q] = "DFF" => v = Frame2(c, q)
                                   /\ c.type[q] # "DFF" => v = Frame1(c, q)
    BY <1>6, <2>1 DEF FromFrame1
  <2>4. p # q
    BY <2>2, <2>3
  <2>5. c.type[p] = "FOUT"
    BY <1>2, <2>4
  <2> QED BY <1>3, <1>4, <2>2, <2>5
<1>7. CASE y = Frame2(c, n) /\ c.type[n] # "IN"
  <2>1. FromFrame2(c, n, u) /\ FromFrame2(c, n, v)
    BY <1>7, FrameEdges
  <2>2. PICK p \in Outputs(c, n) : u = Frame2(c, p)
    BY <2>1 DEF FromFrame2
  <2>3. PICK q \in Outputs(c, n) : v = Frame2(c, q)
    BY <2>1 DEF FromFrame2
  <2>4. c.type[p] = "FOUT"
    BY <1>2, <2>2, <2>3
  <2> QED BY <1>3, <1>4, <2>2, <2>4
<1> QED BY <1>1, <1>5, <1>6, <1>7

\* The second frame repeats the first.
LEMMA FrameRepeats ==
  ASSUME NEW c, NEW r, NEW b, Joined(c, r, b), NEW k, Numbered(c, k), NEW x, TwoFrames(c, x),
         NEW y \in Nets(x), x.first[y] # None, x.type[y] # "IN", x.type[x.first[y]] # "IN"
  PROVE  /\ x.type[x.first[y]] = x.type[y]
         /\ x.in[x.first[y]] = [i \in DOMAIN x.in[y] |-> x.first[x.in[y][i]]]
<1>1. PICK n \in Nets(c) : y = Frame1(c, n) \/ (y = Frame2(c, n) /\ c.type[n] # "IN")
  BY AnyCopy
<1>0. /\ \A m \in Nets(c) : x.first[Frame1(c, m)] = IF c.type[m] = "IN" THEN Frame1(c, m) ELSE None
      /\ \A m \in Nets(c) : x.type[Frame1(c, m)] = IF c.type[m] = "DFF" THEN "IN" ELSE c.type[m]
      /\ \A m \in Nets(c) : c.type[m] # "IN" => x.first[Frame2(c, m)] = Frame1(c, m)
  BY DEF TwoFrames
<1>2. y = Frame2(c, n) /\ c.type[n] # "IN"
  <2>1. ASSUME y = Frame1(c, n) PROVE c.type[n] # "IN" /\ x.first[y] = None
    <3>1. x.type[Frame1(c, n)] # "IN"
      BY <2>1
    <3> QED BY <1>0, <2>1, <3>1
  <2> QED BY <1>1, <2>1
<1>3. /\ x.type[y] = IF c.type[n] = "DFF" THEN "BUF" ELSE c.type[n]
      /\ x.in[y] = IF c.type[n] = "DFF" THEN FrameInputs(c, n, 1) ELSE FrameInputs(c, n, 2)
      /\ x.first[y] = Frame1(c, n)
  BY <1>2 DEF TwoFrames
<1>4. /\ x.type[Frame1(c, n)] = IF c.type[n] = "DFF" THEN "IN" ELSE c.type[n]
      /\ x.in[Frame1(c, n)] = IF c.type[n] \in {"IN", "DFF"} THEN <<>> ELSE FrameInputs(c, n, 1)
  BY DEF TwoFrames
<1>5. c.type[n] # "DFF"
  BY <1>3, <1>4
<1> DEFINE s == FrameInputs(c, n, 1)
           t == FrameInputs(c, n, 2)
           X == 0 .. Frame1(c, k) - 1
<1>6. /\ s \in Seq(X) /\ DOMAIN s = DOMAIN c.in[n]
      /\ \A i \in DOMAIN c.in[n] : s[i] = Frame(c, c.in[n][i], 1) /\ c.in[n][i] \in Nets(c)
  BY FrameInputList
<1>7. /\ DOMAIN t = DOMAIN c.in[n]
      /\ \A i \in DOMAIN c.in[n] : t[i] = Frame(c, c.in[n][i], 2)
  BY FrameInputList
<1> HIDE DEF s, t, X
<1>8. x.type[y] = c.type[n] /\ x.in[y] = t /\ x.in[x.first[y]] = s /\ x.type[x.first[y]] = c.type[n]
  BY <1>2, <1>3, <1>4, <1>5 DEF s, t
<1>9. \A m : Frame(c, m, 1) = Frame1(c, m) /\ Frame(c, m, 2) = Frame2(c, m)
  BY DEF Frame
<1>10. \A m \in Nets(c) : x.first[Frame2(c, m)] = Frame1(c, m)
  <2> SUFFICES ASSUME NEW m \in Nets(c) PROVE x.first[Frame2(c, m)] = Frame1(c, m)
    OBVIOUS
  <2>1. CASE c.type[m] = "IN"
    <3>1. Frame2(c, m) = Frame1(c, m)
      BY <2>1 DEF Frame2
    <3> QED BY <1>0, <2>1, <3>1
  <2>2. CASE c.type[m] # "IN"
    BY <1>0, <2>2
  <2> QED BY <2>1, <2>2
<1>11. \A i \in DOMAIN t : x.first[t[i]] = s[i]
  BY <1>6, <1>7, <1>9, <1>10
<1>12. s = [i \in DOMAIN t |-> x.first[t[i]]]
  <2>1. s = [i \in DOMAIN s |-> s[i]]
    BY <1>6
  <2> QED BY <1>6, <1>7, <1>11, <2>1
<1> QED BY <1>8, <1>12


\* The element of a list of one.
LEMMA OnlyElement ==
  ASSUME NEW T, NEW s \in Seq(T), Len(s) = 1
  PROVE  1 \in DOMAIN s /\ s[1] \in T
OBVIOUS

\* An observed net leads nowhere, but for a shared input.
LEMMA FrameObserved ==
  ASSUME NEW c, NEW r, NEW b, Joined(c, r, b), NEW k, Numbered(c, k), NEW x, TwoFrames(c, x),
         NEW o \in Observed(x)
  PROVE  o \in Nets(x) /\ (Outputs(x, o) = {} \/ Shared(x, o))
<1> DEFINE states == FlipFlops(c)
<1>1. x.observed = [i \in DOMAIN states |-> Frame2(c, c.in[states[i]][1])]
  BY DEF TwoFrames
<1>2. PICK i \in DOMAIN states : o = Frame2(c, c.in[states[i]][1])
  BY <1>1 DEF Observed
<1>3. states[i] \in Nets(c) /\ c.type[states[i]] = "DFF"
  <2>1. k \in Nat /\ Cardinality(Nets(c)) = k /\ Nets(c) = 0 .. k - 1
    BY DEF Numbered
  <2>2. /\ states \in Seq(Nets(c))
        /\ \A n \in Nets(c) : c.type[n] = "DFF" <=> \E j \in DOMAIN states : states[j] = n
    BY <2>1, FlipFlopsListed
  <2> HIDE DEF states
  <2>3. states[i] \in Nets(c)
    <3> DEFINE N == Nets(c)
    <3>1. states \in Seq(N)
      BY <2>2
    <3> HIDE DEF N
    <3>2. states[i] \in N
      BY <3>1
    <3> QED BY <3>2 DEF N
  <2> QED BY <2>2, <2>3
<1> DEFINE s == states[i]
           n == c.in[s][1]
<1> HIDE DEF states
<1>4. n \in Inputs(c, s) /\ n \in Nets(c)
  <2>1. c.in[s] \in Seq(Nets(c)) /\ Len(c.in[s]) = 1
    BY <1>3 DEF Joined
  <2>2. 1 \in DOMAIN c.in[s] /\ c.in[s][1] \in Nets(c)
    BY <2>1, OnlyElement
  <2> QED BY <2>2 DEF Inputs
<1>5. s \in Outputs(c, n)
  BY <1>3, <1>4 DEF Joined, Edged
<1> HIDE DEF s, n
<1>6. o = Frame2(c, n) /\ c.type[s] = "DFF"
  BY <1>2, <1>3 DEF s, n
<1>7. o \in Nets(x)
  BY <1>4, <1>6, AnyCopy
<1>8. CASE c.type[n] = "IN"
  <2>1. o = Frame1(c, n)
    BY <1>6, <1>8 DEF Frame2
  <2>2. x.type[o] = "IN" /\ x.first[o] = o
    BY <1>4, <1>8, <2>1 DEF TwoFrames
  <2> QED BY <1>7, <2>2 DEF Shared
<1>9. CASE c.type[n] # "IN"
  <2>1. \A y : y \in Outputs(x, o) <=> FromFrame2(c, n, y)
    BY <1>4, <1>6, <1>9, FrameEdges
  <2>2. \A m \in Outputs(c, n) : m # s => c.type[s] = "FOUT"
    BY <1>4, <1>5 DEF Joined
  <2>3. \A m \in Outputs(c, n) : c.type[m] = "DFF"
    BY <1>6, <2>2
  <2>4. \A y : ~ FromFrame2(c, n, y)
    BY <2>3 DEF FromFrame2
  <2> QED BY <1>7, <2>1, <2>4
<1> QED BY <1>8, <1>9

\* The ranks: frame 2 above frame 1, the states at the bottom of each.
LEMMA FramesRank ==
  ASSUME NEW c, NEW r, NEW b, Joined(c, r, b), NEW k, Numbered(c, k), NEW x, TwoFrames(c, x)
  PROVE  \E f, h : /\ h \in Nat /\ f \in [Nets(x) -> 0 .. h]
                   /\ \A y \in Nets(x) : \A u \in Inputs(x, y) : f[u] < f[y]
<1> DEFINE N == Nets(c)
           q == [n \in N |-> IF c.type[n] = "DFF" THEN 0 ELSE r[n] + 1]
           h == 2 * b + 3
           Of(y) == CHOOSE n \in N : y \in {Frame1(c, n), Frame2(c, n)}
           f == [y \in Nets(x) |-> IF y = Frame1(c, Of(y)) THEN q[Of(y)] ELSE b + 2 + q[Of(y)]]
<1>1. b \in Nat /\ r \in [N -> 0 .. b]
  BY DEF Joined
<1>2. \A n \in N : r[n] \in Nat /\ r[n] <= b
  BY <1>1
<1>3. \A n \in N : q[n] \in Nat /\ q[n] <= b + 1
  BY <1>1, <1>2
<1>4. ASSUME NEW n \in N, c.type[n] # "DFF", NEW m \in Inputs(c, n)
      PROVE  m \in N /\ q[m] < q[n]
  <2>1. c.in[n] \in Seq(N) /\ r[m] < r[n]
    BY <1>4 DEF Joined
  <2>2. m \in N
    <3> HIDE DEF N
    <3> QED BY <1>4, <2>1 DEF Inputs
  <2>3. q[n] = r[n] + 1 /\ (q[m] = 0 \/ q[m] = r[m] + 1)
    BY <1>4, <2>2
  <2> HIDE DEF q
  <2> QED BY <1>2, <2>1, <2>2, <2>3
<1>5. \A n \in N : \A m \in Inputs(c, n) : m \in N
  <2>1. \A n \in N : c.in[n] \in Seq(N)
    BY DEF Joined
  <2> HIDE DEF N
  <2> QED BY <2>1 DEF Inputs
<1> HIDE DEF q
<1>6. ASSUME NEW n \in N
      PROVE  f[Frame1(c, n)] = q[n] /\ (c.type[n] # "IN" => f[Frame2(c, n)] = b + 2 + q[n])
  <2>1. Frame1(c, n) \in Nets(x) /\ Frame2(c, n) \in Nets(x)
    BY AnyCopy
  <2>2. ASSUME NEW m \in N
        PROVE  /\ Frame1(c, n) \in {Frame1(c, m), Frame2(c, m)} => m = n
               /\ Frame2(c, n) \in {Frame1(c, m), Frame2(c, m)} => m = n
    <3>1. /\ Frame1(c, n) = Frame1(c, m) => n = m
          /\ Frame2(c, n) = Frame2(c, m) => n = m
          /\ Frame1(c, n) = Frame2(c, m) <=> n = m /\ c.type[n] = "IN"
          /\ Frame1(c, m) = Frame2(c, n) <=> n = m /\ c.type[n] = "IN"
      BY CopiesApart
    <3> QED BY <3>1
  <2>3. Of(Frame1(c, n)) = n /\ Of(Frame2(c, n)) = n
    <3> HIDE DEF N
    <3> QED BY <2>2
  <2>4. Frame1(c, n) = Frame2(c, n) <=> n = n /\ c.type[n] = "IN"
    BY CopiesApart
  <2> HIDE DEF Of
  <2> QED BY <2>1, <2>3, <2>4
<1>7. h \in Nat /\ f \in [Nets(x) -> 0 .. h]
  <2>1. h \in Nat
    BY <1>1
  <2>2. ASSUME NEW y \in Nets(x) PROVE f[y] \in 0 .. h
    <3>1. PICK n \in N : y = Frame1(c, n) \/ (y = Frame2(c, n) /\ c.type[n] # "IN")
      BY AnyCopy
    <3>2. f[y] = q[n] \/ f[y] = b + 2 + q[n]
      BY <1>6, <3>1
    <3> HIDE DEF f
    <3>3. f[y] \in Nat /\ f[y] <= 2 * b + 3
      BY <1>1, <1>3, <3>2
    <3> QED BY <2>1, <3>3
  <2>3. f = [y \in Nets(x) |-> f[y]]
    OBVIOUS
  <2> HIDE DEF f, h
  <2> QED BY <2>1, <2>2, <2>3
<1> HIDE DEF f, h
<1>8. ASSUME NEW y \in Nets(x), NEW u \in Inputs(x, y) PROVE f[u] < f[y]
  <2>1. PICK n \in N : y = Frame1(c, n) \/ (y = Frame2(c, n) /\ c.type[n] # "IN")
    BY AnyCopy
  <2>2. CASE y = Frame1(c, n)
    <3>1. IntoFrame1(c, n, u)
      BY <1>8, <2>2, FrameEdges
    <3>2. PICK m \in Inputs(c, n) : u = Frame1(c, m) /\ c.type[n] # "DFF"
      BY <3>1 DEF IntoFrame1
    <3>3. m \in N /\ q[m] < q[n]
      BY <1>4, <3>2
    <3> QED BY <1>6, <2>2, <3>2, <3>3
  <2>3. CASE y = Frame2(c, n) /\ c.type[n] # "IN"
    <3>1. IntoFrame2(c, n, u)
      BY <1>8, <2>3, FrameEdges
    <3>2. f[y] = b + 2 + q[n] /\ q[n] \in Nat
      BY <1>3, <1>6, <2>3
    <3>3. PICK m \in Inputs(c, n) : /\ c.type[n] = "DFF" => u = Frame1(c, m)
                                    /\ c.type[n] # "DFF" => u = Frame2(c, m)
      BY <3>1 DEF IntoFrame2
    <3>4. m \in N /\ q[m] \in Nat /\ q[m] <= b + 1
      BY <1>3, <1>5
    <3>5. CASE u = Frame1(c, m)
      <4>1. f[u] = q[m]
        BY <1>6, <3>4, <3>5
      <4> QED BY <1>1, <3>2, <3>4, <4>1
    <3>6. CASE u # Frame1(c, m)
      <4>1. u = Frame2(c, m) /\ c.type[n] # "DFF" /\ c.type[m] # "IN"
        BY <3>3, <3>6 DEF Frame2
      <4>2. q[m] < q[n] /\ f[u] = b + 2 + q[m]
        BY <1>4, <1>6, <3>4, <4>1
      <4> QED BY <1>1, <3>2, <3>4, <4>2
    <3> QED BY <3>5, <3>6
  <2> QED BY <2>1, <2>2, <2>3
<1> QED BY <1>7, <1>8

\* The inputs of the two frames: the inputs and the states, each once.
LEMMA FramePorts ==
  ASSUME NEW c, NEW r, NEW b, Joined(c, r, b), NEW k, Numbered(c, k), NEW x, TwoFrames(c, x)
  PROVE  InputsListed(x)
<1> DEFINE N == Nets(c)
           X == Nets(x)
           states == FlipFlops(c)
           s == [i \in DOMAIN c.pi |-> Frame1(c, c.pi[i])]
           t == [i \in DOMAIN states |-> Frame1(c, states[i])]
           u == s \o t
<1>1. x.pi = u
  BY DEF TwoFrames
<1>2. /\ c.pi \in Seq(N)
      /\ \A i, j \in DOMAIN c.pi : c.pi[i] = c.pi[j] => i = j
      /\ \A n \in N : c.type[n] = "IN" <=> \E i \in DOMAIN c.pi : c.pi[i] = n
  BY DEF Joined, InputsListed
<1>3. /\ states \in Seq(N)
      /\ \A n \in N : c.type[n] = "DFF" <=> \E i \in DOMAIN states : states[i] = n
      /\ \A i, j \in DOMAIN states : states[i] = states[j] => i = j
  <2>1. k \in Nat /\ Cardinality(Nets(c)) = k /\ Nets(c) = 0 .. k - 1
    BY DEF Numbered
  <2> QED BY <2>1, FlipFlopsListed
<1>4. \A n \in N : Frame1(c, n) \in X
  BY AnyCopy
<1>5. \A n, m \in N : Frame1(c, n) = Frame1(c, m) => n = m
  BY CopiesApart
<1>6. \A y \in X : \E n \in N : y = Frame1(c, n) \/ (y = Frame2(c, n) /\ c.type[n] # "IN")
  BY AnyCopy
<1>7. \A n \in N : x.type[Frame1(c, n)] = "IN" <=> c.type[n] \in {"IN", "DFF"}
  BY DEF TwoFrames
<1>8. \A n \in N : c.type[n] # "IN" => x.type[Frame2(c, n)] # "IN"
  BY DEF TwoFrames
<1> HIDE DEF N, X, states
<1>9. /\ \A i \in DOMAIN c.pi : c.pi[i] \in N
      /\ \A i \in DOMAIN states : states[i] \in N
      /\ DOMAIN c.pi = 1 .. Len(c.pi) /\ DOMAIN states = 1 .. Len(states)
      /\ Len(c.pi) \in Nat /\ Len(states) \in Nat
  BY <1>2, <1>3
<1>10. /\ DOMAIN s = DOMAIN c.pi /\ \A i \in DOMAIN s : s[i] = Frame1(c, c.pi[i]) /\ s[i] \in X
       /\ DOMAIN t = DOMAIN states /\ \A i \in DOMAIN t : t[i] = Frame1(c, states[i]) /\ t[i] \in X
  BY <1>4, <1>9
<1>11. s \in Seq(X) /\ t \in Seq(X)
  BY <1>4, <1>9
<1> HIDE DEF s, t
<1>12. /\ u \in Seq(X) /\ Range(u) = Range(s) \union Range(t)
       /\ \A i \in DOMAIN u : \/ i \in DOMAIN s /\ u[i] = s[i]
                              \/ i \notin DOMAIN s /\ \E j \in DOMAIN t : i = j + Len(s) /\ u[i] = t[j]
  BY <1>11, Joint
<1> HIDE DEF u
<1>13. \A i, j \in DOMAIN s : s[i] = s[j] => i = j
  BY <1>2, <1>5, <1>9, <1>10
<1>14. \A i, j \in DOMAIN t : t[i] = t[j] => i = j
  BY <1>3, <1>5, <1>9, <1>10
<1>15. \A i \in DOMAIN s : \A j \in DOMAIN t : s[i] # t[j]
  <2> SUFFICES ASSUME NEW i \in DOMAIN s, NEW j \in DOMAIN t, s[i] = t[j] PROVE FALSE
    OBVIOUS
  <2>1. c.pi[i] = states[j]
    BY <1>5, <1>9, <1>10
  <2>2. c.type[c.pi[i]] = "IN" /\ c.type[states[j]] = "DFF"
    BY <1>2, <1>3, <1>9, <1>10
  <2> QED BY <2>1, <2>2
<1>16. \A i, j \in DOMAIN u : u[i] = u[j] => i = j
  BY <1>12, <1>13, <1>14, <1>15
<1>17. \A y \in X : x.type[y] = "IN" <=> \E i \in DOMAIN u : u[i] = y
  <2> SUFFICES ASSUME NEW y \in X PROVE x.type[y] = "IN" <=> y \in Range(u)
    BY DEF Range
  <2>1. ASSUME x.type[y] = "IN" PROVE y \in Range(u)
    <3>1. PICK n \in N : y = Frame1(c, n) /\ c.type[n] \in {"IN", "DFF"}
      BY <1>6, <1>7, <1>8, <2>1
    <3>2. CASE c.type[n] = "IN"
      <4>1. PICK i \in DOMAIN c.pi : c.pi[i] = n
        BY <1>2, <3>2
      <4>2. i \in DOMAIN s /\ s[i] = y
        BY <1>10, <3>1, <4>1
      <4> QED BY <1>12, <4>2 DEF Range
    <3>3. CASE c.type[n] = "DFF"
      <4>1. PICK i \in DOMAIN states : states[i] = n
        BY <1>3, <3>3
      <4>2. i \in DOMAIN t /\ t[i] = y
        BY <1>10, <3>1, <4>1
      <4> QED BY <1>12, <4>2 DEF Range
    <3> QED BY <3>1, <3>2, <3>3
  <2>2. ASSUME y \in Range(u) PROVE x.type[y] = "IN"
    <3>1. y \in Range(s) \/ y \in Range(t)
      BY <1>12, <2>2
    <3>2. CASE y \in Range(s)
      <4>1. PICK i \in DOMAIN s : y = s[i]
        BY <3>2 DEF Range
      <4>2. c.type[c.pi[i]] = "IN" /\ c.pi[i] \in N /\ y = Frame1(c, c.pi[i])
        BY <1>2, <1>9, <1>10, <4>1
      <4> QED BY <1>7, <4>2
    <3>3. CASE y \in Range(t)
      <4>1. PICK i \in DOMAIN t : y = t[i]
        BY <3>3 DEF Range
      <4>2. c.type[states[i]] = "DFF" /\ states[i] \in N /\ y = Frame1(c, states[i])
        BY <1>3, <1>9, <1>10, <4>1
      <4> QED BY <1>7, <4>2
    <3> QED BY <3>1, <3>2, <3>3
  <2> QED BY <2>1, <2>2
<1> QED BY <1>1, <1>12, <1>16, <1>17 DEF InputsListed, X


\* The two-frame circuit is well formed.
LEMMA FramesWellFormed ==
  ASSUME NEW c, NEW r, NEW b, Joined(c, r, b), NEW k, Numbered(c, k), NEW x, TwoFrames(c, x)
  PROVE  WellFormed(x) /\ InputsListed(x)
<1> DEFINE X == Nets(x)
           z == [type |-> x.type, in |-> x.in, out |-> x.out]
<1>1. PICK f, h : /\ h \in Nat /\ f \in [X -> 0 .. h]
                  /\ \A y \in X : \A u \in Inputs(x, y) : f[u] < f[y]
  BY FramesRank
<1>2. \A y \in X : /\ x.in[y] \in Seq(X) /\ x.out[y] \in Seq(X)
                   /\ x.type[y] \in GateTypes \union {"IN"} /\ x.first[y] \in X \union {None}
  BY FrameLists
<1>3. ASSUME NEW y \in X
      PROVE  /\ x.type[y] = "IN" <=> x.in[y] = <<>>
             /\ x.type[y] \in {"BUF", "FOUT", "INV"} => Len(x.in[y]) = 1
             /\ x.type[y] \in {"EXOR", "EXNOR"} => Len(x.in[y]) = 2
             /\ \A i, j \in DOMAIN x.in[y] : x.in[y][i] = x.in[y][j] => i = j
  BY FrameShape
<1>4. Nets(z) = X /\ z.type = x.type /\ \A y : Inputs(z, y) = Inputs(x, y)
  BY DEF Nets, Inputs
<1>5. /\ x.type = [y \in X |-> x.type[y]] /\ x.in = [y \in X |-> x.in[y]]
      /\ x.out = [y \in X |-> x.out[y]] /\ x.first = [y \in X |-> x.first[y]]
      /\ x.level = Levels(z)
  BY DEF TwoFrames
<1>6. IsFiniteSet(X) /\ X \subseteq Nat
  BY AnyCopy
<1> HIDE DEF X, z
<1>7. Ranks(z, f, h)
  <2>1. ASSUME NEW y \in X, x.type[y] # "IN"
        PROVE  /\ Inputs(z, y) # {} /\ IsFiniteSet(Inputs(z, y))
               /\ \A m \in Inputs(z, y) : m \in X /\ f[m] < f[y]
    <3>1. x.in[y] \in Seq(X) /\ x.in[y] # <<>>
      BY <1>2, <1>3, <2>1
    <3>2. Inputs(z, y) = Range(x.in[y])
      BY <1>4 DEF Inputs, Range
    <3>3. Inputs(z, y) # {} /\ IsFiniteSet(Inputs(z, y)) /\ Inputs(z, y) \subseteq X
      BY <3>1, <3>2, SomeInputs
    <3> QED BY <1>1, <1>4, <3>3
  <2> QED BY <1>1, <1>4, <2>1 DEF Ranks
<1>8. /\ Levels(z) \in [Nets(z) -> Nat]
      /\ \A y \in Nets(z) : z.type[y] # "IN" => \A m \in Inputs(z, y) : Levels(z)[m] < Levels(z)[y]
  BY <1>7, LevelsRise
<1>9. /\ x.type \in [X -> GateTypes \union {"IN"}] /\ x.in \in [X -> Seq(X)] /\ x.out \in [X -> Seq(X)]
      /\ x.first \in [X -> X \union {None}] /\ x.level \in [X -> Nat]
  BY <1>2, <1>4, <1>5, <1>8
<1>10. Observed(x) \subseteq X /\ \A o \in Observed(x) : Outputs(x, o) = {} \/ Shared(x, o)
  BY FrameObserved DEF X
<1>11. ASSUME NEW y \in X
       PROVE  /\ \A m \in X : m \in Inputs(x, y) <=> y \in Outputs(x, m)
              /\ \A m \in Inputs(x, y) : x.level[m] < x.level[y]
              /\ \A m, q \in Outputs(x, y) : m # q => x.type[m] = "FOUT" \/ Shared(x, y)
              /\ x.first[y] # None /\ x.type[y] # "IN" /\ x.type[x.first[y]] # "IN" =>
                   /\ x.type[x.first[y]] = x.type[y]
                   /\ x.in[x.first[y]] = [i \in DOMAIN x.in[y] |-> x.first[x.in[y][i]]]
  <2>1. \A m \in X : m \in Inputs(x, y) <=> y \in Outputs(x, m)
    BY FramesAgree DEF X
  <2>2. \A m, q \in Outputs(x, y) : m # q => x.type[m] = "FOUT" \/ Shared(x, y)
    BY FrameBranches DEF X
  <2>3. x.first[y] # None /\ x.type[y] # "IN" /\ x.type[x.first[y]] # "IN" =>
          /\ x.type[x.first[y]] = x.type[y]
          /\ x.in[x.first[y]] = [i \in DOMAIN x.in[y] |-> x.first[x.in[y][i]]]
    BY FrameRepeats DEF X
  <2>4. x.type[y] = "IN" => Inputs(x, y) = {}
    <3>1. DOMAIN <<>> = {}
      OBVIOUS
    <3> QED BY <1>3, <3>1 DEF Inputs
  <2>5. \A m \in Inputs(x, y) : x.level[m] < x.level[y]
    BY <1>4, <1>5, <1>8, <2>4
  <2> QED BY <2>1, <2>2, <2>3, <2>5
<1>12. X = Nets(x)
  BY DEF X
<1>13. WellFormed(x)
  BY <1>3, <1>6, <1>9, <1>10, <1>11, <1>12 DEF WellFormed
<1> QED BY <1>13, FramePorts

\* The finished circuit, one frame or two.
LEMMA FinishedWellFormed ==
  ASSUME NEW c, NEW r, NEW b, Joined(c, r, b)
  PROVE  LET x == IF FlipFlops(c) = <<>> THEN StuckAtCircuit(c) ELSE Expanded(c)
         IN WellFormed(x) /\ InputsListed(x)
<1> DEFINE k == Cardinality(Nets(c))
<1>1. Numbered(c, k)
  <2>1. IsFiniteSet(Nets(c)) /\ Nets(c) = 0 .. k - 1
    BY DEF Joined
  <2> QED BY <2>1, FS_CardinalityType DEF Numbered
<1> HIDE DEF k
<1>2. CASE FlipFlops(c) = <<>>
  <2>1. k \in Nat /\ Cardinality(Nets(c)) = k /\ Nets(c) = 0 .. k - 1
    BY <1>1 DEF Numbered
  <2>2. \A n \in Nets(c) : c.type[n] = "DFF" <=> \E i \in DOMAIN FlipFlops(c) : FlipFlops(c)[i] = n
    BY <2>1, FlipFlopsListed
  <2>3. DOMAIN <<>> = {}
    OBVIOUS
  <2>4. \A n \in Nets(c) : c.type[n] # "DFF"
    BY <1>2, <2>2, <2>3
  <2>5. WellFormed(StuckAtCircuit(c)) /\ InputsListed(StuckAtCircuit(c))
    BY <2>4, StuckAtWellFormed
  <2> QED BY <1>2, <2>5
<1>3. CASE FlipFlops(c) # <<>>
  <2>1. TwoFrames(c, Expanded(c))
    BY <1>1, ExpandedFrames
  <2>2. WellFormed(Expanded(c)) /\ InputsListed(Expanded(c))
    BY <1>1, <2>1, FramesWellFormed
  <2> QED BY <1>3, <2>2
<1> QED BY <1>2, <1>3

\* From every design the builder makes a circuit the analysis can rely on: edges
\* recorded at both ends, levels that rise, branches behind several uses,
\* observed nets that lead nowhere, a second frame that repeats the first, and
\* the list of all its inputs.
THEOREM EveryBuildWellFormed == Spec => []BuildsWellFormed
<1>1. BuildInv => BuildsWellFormed
  <2> SUFFICES ASSUME BuildInv, phase = "built" PROVE WellFormed(circuit) /\ InputsListed(circuit)
    BY DEF BuildsWellFormed
  <2>1. IsDesign(design)
    BY DesignsAssumption DEF BuildInv
  <2>2. PICK c : /\ Assembled(design, c, Pins(design), Moved(design, Pins(design)))
                 /\ IsBuiltFrom(design, c, circuit)
    BY DEF BuildInv
  <2>3. PICK r, b : Joined(c, r, b)
    BY <2>1, <2>2, AllJoined
  <2> DEFINE x == IF FlipFlops(c) = <<>> THEN StuckAtCircuit(c) ELSE Expanded(c)
  <2>4. WellFormed(x) /\ InputsListed(x)
    BY <2>3, FinishedWellFormed
  <2>5. circuit = x
    BY <2>2 DEF IsBuiltFrom
  <2> QED BY <2>4, <2>5
<1> QED BY <1>1, BuildInvariant, PTL

-----------------------------------------------------------------------------
(***************************************************************************)
(* What the finished circuit computes.  The values of a cycle, with those  *)
(* of the branches added, solve the equations of the connected circuit     *)
(* (CycleSolves), and the frames' values solve them once for each cycle    *)
(* (FirstFrameValues, SecondFrameValues).                                  *)
(***************************************************************************)

\* A gate has the pins its type reads.
HasPins(c, n) ==
  1 \in DOMAIN c.in[n] /\ (c.type[n] \in {"EXOR", "EXNOR"} => 2 \in DOMAIN c.in[n])

\* Gates of one type with equal values at their pins have equal outputs.
LEMMA GatesAlike ==
  ASSUME NEW c, NEW n, NEW v, NEW x, NEW y, NEW w, HasPins(c, n), x.type[y] = c.type[n],
         DOMAIN x.in[y] = DOMAIN c.in[n], \A i \in DOMAIN c.in[n] : v[c.in[n][i]] = w[x.in[y][i]]
  PROVE  Eval(c, v, n) = Eval(x, w, y)
<1>1. v[c.in[n][1]] = w[x.in[y][1]]
  BY DEF HasPins
<1>2. c.type[n] \in {"EXOR", "EXNOR"} => v[c.in[n][2]] = w[x.in[y][2]]
  BY DEF HasPins
<1>3. CASE c.type[n] \in Controllable
  <2>1. ASSUME NEW k PROVE (\A m \in Inputs(c, n) : v[m] = k) <=> (\A m \in Inputs(x, y) : w[m] = k)
    BY DEF Inputs
  <2>2. (\A m \in Inputs(c, n) : v[m] = NonControlling(c.type[n]))
        <=> (\A m \in Inputs(x, y) : w[m] = NonControlling(x.type[y]))
    BY <2>1
  <2> QED BY <1>3, <2>2 DEF Eval, Controllable
<1>4. CASE c.type[n] \in {"EXOR", "EXNOR"}
  BY <1>1, <1>2, <1>4 DEF Eval, Controllable
<1>5. CASE c.type[n] \notin Controllable \union {"EXOR", "EXNOR"}
  BY <1>1, <1>5 DEF Eval, Controllable
<1> QED BY <1>3, <1>4, <1>5

\* A buffer, a branch and what a flip-flop captures are the input's value.
LEMMA BufferCopies ==
  ASSUME NEW c, NEW n, NEW v, c.type[n] \in {"BUF", "FOUT", "DFF"}
  PROVE  Eval(c, v, n) = v[c.in[n][1]]
BY DEF Eval, Controllable

\* But for fixed nets, what a net's value depends on is below it.
Layered(c, fixed, r, b) ==
  /\ b \in Nat /\ r \in [Nets(c) -> 0 .. b]
  /\ \A n \in Nets(c) : n \notin fixed /\ c.type[n] # "IN" =>
       HasPins(c, n) /\ \A m \in Inputs(c, n) : m \in Nets(c) /\ r[m] < r[n]

\* The equation of one net.
Solves(c, p, fixed, v, n) ==
  v[n] = IF n \in DOMAIN fixed THEN fixed[n] ELSE IF c.type[n] = "IN" THEN p[n] ELSE Eval(c, v, n)

\* Values are well defined, whatever ranks the nets have.
LEMMA ValuesDefined ==
  ASSUME NEW c, NEW p, NEW fixed, NEW r, NEW b, Layered(c, DOMAIN fixed, r, b)
  PROVE  \A n \in Nets(c) : Solves(c, p, fixed, Values(c, p, fixed), n)
<1> DEFINE N == Nets(c)
           E(v, n) == IF n \in DOMAIN fixed THEN fixed[n] ELSE IF c.type[n] = "IN" THEN p[n] ELSE Eval(c, v, n)
           Upto(v, k) == \A n \in N : r[n] < k => v[n] = E(v, n)
           Reads(n) == n \notin DOMAIN fixed /\ c.type[n] # "IN"
<1>1. b \in Nat /\ r \in [N -> 0 .. b] /\ \A n \in N : r[n] \in Nat /\ r[n] <= b
  BY DEF Layered
<1>20. \A n \in N : Reads(n) => HasPins(c, n) /\ \A m \in Inputs(c, n) : m \in N /\ r[m] < r[n]
  BY DEF Layered
<1>2. ASSUME NEW n \in N, NEW v, NEW w, \A m \in Inputs(c, n) : Reads(n) => v[m] = w[m]
      PROVE  E(v, n) = E(w, n)
  <2>1. CASE ~ Reads(n)
    BY <2>1
  <2>2. CASE Reads(n)
    <3>1. HasPins(c, n)
      BY <1>20, <2>2
    <3>2. \A i \in DOMAIN c.in[n] : v[c.in[n][i]] = w[c.in[n][i]]
      BY <1>2, <2>2 DEF Inputs
    <3>3. Eval(c, v, n) = Eval(c, w, n)
      BY <3>1, <3>2, GatesAlike
    <3> QED BY <2>2, <3>3
  <2> QED BY <2>1, <2>2
<1> HIDE DEF E, Reads
<1>3. ASSUME NEW k \in Nat, NEW v, NEW w, Upto(v, k), Upto(w, k)
      PROVE  \A n \in N : r[n] < k => v[n] = w[n]
  <2> DEFINE S == {n \in N : r[n] < k /\ v[n] # w[n]}
  <2> SUFFICES ASSUME S # {} PROVE FALSE
    OBVIOUS
  <2>1. PICK n \in S : \A m \in S : r[n] <= r[m]
    <3>1. S \subseteq N
      OBVIOUS
    <3> HIDE DEF S
    <3> QED BY <1>1, <3>1, LowestRank
  <2>2. ASSUME NEW m \in Inputs(c, n), Reads(n) PROVE v[m] = w[m]
    <3>1. m \in N /\ r[m] < r[n]
      BY <1>20, <2>2
    <3> QED BY <1>1, <2>1, <3>1
  <2>3. E(v, n) = E(w, n)
    BY <1>2, <2>2
  <2> QED BY <1>3, <2>3
<1>4. ASSUME NEW k \in Nat PROVE \E v : Upto(v, k)
  <2> DEFINE T == {j \in Nat : ~ \E v : Upto(v, j)}
  <2> SUFFICES ASSUME T # {} PROVE FALSE
    OBVIOUS
  <2>1. PICK j \in T : \A i \in T : j <= i
    <3>1. T \subseteq Nat
      OBVIOUS
    <3> HIDE DEF T
    <3> QED BY <3>1, LeastNumber
  <2>2. j # 0
    <3>1. \A n \in N : ~ (r[n] < 0)
      BY <1>1
    <3>2. Upto(<<>>, 0)
      BY <3>1
    <3> QED BY <3>2
  <2>3. j - 1 \in Nat /\ j - 1 \notin T
    BY <2>1, <2>2
  <2>4. PICK v : Upto(v, j - 1)
    BY <2>3
  <2> DEFINE w == [n \in N |-> E(v, n)]
  <2>5. ASSUME NEW n \in N, r[n] < j PROVE w[n] = E(w, n)
    <3>1. ASSUME NEW m \in Inputs(c, n), Reads(n) PROVE v[m] = w[m]
      <4>1. m \in N /\ r[m] < r[n]
        BY <1>20, <3>1
      <4>2. r[m] < j - 1
        BY <1>1, <2>5, <4>1
      <4> QED BY <2>4, <4>1, <4>2
    <3>2. E(v, n) = E(w, n)
      <4> HIDE DEF w
      <4> QED BY <1>2, <3>1
    <3> QED BY <3>2
  <2>6. Upto(w, j)
    <3> HIDE DEF w
    <3> QED BY <2>5
  <2> QED BY <2>1, <2>6
<1>5. b + 1 \in Nat /\ \A n \in N : r[n] < b + 1
  BY <1>1
<1>6. PICK v : Upto(v, b + 1)
  BY <1>4, <1>5
<1> DEFINE w == [n \in N |-> v[n]]
<1>7. \A n \in N : w[n] = E(w, n)
  <2> SUFFICES ASSUME NEW n \in N PROVE w[n] = E(w, n)
    OBVIOUS
  <2>1. v[n] = E(v, n)
    BY <1>5, <1>6
  <2>2. ASSUME NEW m \in Inputs(c, n), Reads(n) PROVE v[m] = w[m]
    BY <1>20, <2>2
  <2>3. E(v, n) = E(w, n)
    <3> HIDE DEF w
    <3> QED BY <1>2, <2>2
  <2> QED BY <2>1, <2>3
<1>8. w = [n \in N |-> E(w, n)]
  BY <1>7
<1>9. Values(c, p, fixed) = CHOOSE l : l = [n \in N |-> E(l, n)]
  BY DEF Values, E
<1>10. Values(c, p, fixed) = [n \in N |-> E(Values(c, p, fixed), n)]
  <2> HIDE DEF w
  <2> QED BY <1>8, <1>9
<1>11. \A n \in N : Values(c, p, fixed)[n] = E(Values(c, p, fixed), n)
  BY <1>10
<1> QED BY <1>11 DEF E, Solves

\* A net of the design, as a cycle reads it.
LEMMA PlainNet ==
  ASSUME NEW d, IsDesign(d), NEW n \in Named(d)
  PROVE  /\ Nets(Plain(d)) = Named(d)
         /\ Plain(d).type[n] = Unconnected(d).type[n] /\ Plain(d).in[n] = DrivenBy(d, n)
         /\ IsInput(d, n) => Plain(d).type[n] = "IN"
         /\ ~ IsInput(d, n) =>
              /\ Driver(d, n) \in DOMAIN d.gates /\ d.gates[Driver(d, n)].out = n
              /\ Plain(d).type[n] = d.gates[Driver(d, n)].type /\ Plain(d).type[n] # "IN"
              /\ DrivenBy(d, n) = d.gates[Driver(d, n)].in
<1>1. /\ Nets(Plain(d)) = Named(d)
      /\ Plain(d).type[n] = Unconnected(d).type[n] /\ Plain(d).in[n] = DrivenBy(d, n)
  BY DEF Plain, Nets, Unconnected, Named
<1>2. Unconnected(d).type[n] = IF IsInput(d, n) THEN "IN" ELSE d.gates[Driver(d, n)].type
  BY DEF Unconnected, Named
<1>3. ASSUME ~ IsInput(d, n)
      PROVE  /\ Driver(d, n) \in DOMAIN d.gates /\ d.gates[Driver(d, n)].out = n
             /\ d.gates[Driver(d, n)].type # "IN"
             /\ DrivenBy(d, n) = d.gates[Driver(d, n)].in
  <2>1. Driver(d, n) \in DOMAIN d.gates /\ d.gates[Driver(d, n)].out = n
    BY <1>3 DEF IsInput, Driver
  <2>2. d.gates[Driver(d, n)].type \in (GateTypes \ {"FOUT"}) \union {"DFF"}
    BY <2>1, GateRead
  <2>3. d.gates[Driver(d, n)].type # "IN"
    BY <2>2 DEF GateTypes, Controllable
  <2> QED BY <1>3, <2>1, <2>3 DEF DrivenBy
<1> QED BY <1>1, <1>2, <1>3

\* The flip-flops of a design.
Stored(d) == {n \in Named(d) : Unconnected(d).type[n] = "DFF"}

\* In a cycle nothing but the flip-flops closes a loop.
LEMMA DesignLayered ==
  ASSUME NEW d, IsDesign(d)
  PROVE  \E r : Layered(Plain(d), Stored(d), r, d.nets)
<1>1. PICK rank \in [Named(d) -> Named(d)] :
        \A g \in DOMAIN d.gates : d.gates[g].type # "DFF" =>
          \A i \in DOMAIN d.gates[g].in : rank[d.gates[g].in[i]] < rank[d.gates[g].out]
  BY DEF IsDesign, Named
<1>2. d.nets \in Nat
  BY DEF IsDesign
<1>3. rank \in [Named(d) -> 0 .. d.nets]
  <2>1. Named(d) \subseteq 0 .. d.nets
    BY <1>2 DEF Named
  <2> QED BY <1>1, <2>1
<1>4. ASSUME NEW n \in Named(d), n \notin Stored(d), Plain(d).type[n] # "IN"
      PROVE  /\ HasPins(Plain(d), n)
             /\ \A m \in Inputs(Plain(d), n) : m \in Named(d) /\ rank[m] < rank[n]
  <2> DEFINE g == Driver(d, n)
             u == d.gates[g].in
  <2>1. /\ g \in DOMAIN d.gates /\ d.gates[g].out = n
        /\ Plain(d).type[n] = d.gates[g].type /\ Plain(d).in[n] = u
    BY <1>4, PlainNet
  <2>2. u \in Seq(Named(d)) /\ u # <<>>
    BY <2>1, GateRead
  <2>3. d.gates[g].type \in {"EXOR", "EXNOR"} => Len(u) = 2
    BY <2>1 DEF IsDesign
  <2>4. d.gates[g].type # "DFF"
    BY <1>4, <2>1, PlainNet DEF Stored
  <2>5. HasPins(Plain(d), n)
    <3>1. DOMAIN u = 1 .. Len(u) /\ Len(u) \in Nat /\ Len(u) # 0
      BY <2>2
    <3>2. 1 \in DOMAIN u
      BY <3>1
    <3>3. Len(u) = 2 => 2 \in DOMAIN u
      BY <3>1
    <3> QED BY <2>1, <2>3, <3>2, <3>3 DEF HasPins
  <2>6. ASSUME NEW i \in DOMAIN u PROVE u[i] \in Named(d) /\ rank[u[i]] < rank[n]
    BY <1>1, <2>1, <2>2, <2>4
  <2> QED BY <2>1, <2>5, <2>6 DEF Inputs
<1>5. Layered(Plain(d), Stored(d), rank, d.nets)
  <2>1. Nets(Plain(d)) = Named(d)
    BY DEF Plain, Nets, Unconnected, Named
  <2> QED BY <1>2, <1>3, <1>4, <2>1 DEF Layered
<1> QED BY <1>5

\* The values of a cycle are well defined.
LEMMA CycleDefined ==
  ASSUME NEW d, IsDesign(d), NEW p, NEW s, DOMAIN s = Stored(d)
  PROVE  \A n \in Named(d) : Solves(Plain(d), p, s, Cycle(d, p, s), n)
<1>1. PICK r : Layered(Plain(d), Stored(d), r, d.nets)
  BY DesignLayered
<1>2. Layered(Plain(d), DOMAIN s, r, d.nets)
  BY <1>1
<1>3. \A n \in Nets(Plain(d)) : Solves(Plain(d), p, s, Values(Plain(d), p, s), n)
  BY <1>2, ValuesDefined
<1>4. Nets(Plain(d)) = Named(d)
  BY DEF Plain, Nets, Unconnected, Named
<1> QED BY <1>3, <1>4 DEF Cycle

\* Values of the design's nets, and of the branches with their stems.
Carried(d, c, v) == [n \in Nets(c) |-> IF n \in Named(d) THEN v[n] ELSE v[c.in[n][1]]]

\* A pin reads its source's value, through a branch or not.
LEMMA CarriedPins ==
  ASSUME NEW d, IsDesign(d), NEW c, NEW P, Assembled(d, c, Pins(d), P), NEW v,
         NEW n \in Named(d), ~ IsInput(d, n)
  PROVE  /\ c.type[n] = Plain(d).type[n] /\ DOMAIN Plain(d).in[n] = DOMAIN c.in[n]
         /\ 1 \in DOMAIN c.in[n] /\ HasPins(c, n)
         /\ \A i \in DOMAIN c.in[n] : Carried(d, c, v)[c.in[n][i]] = v[Plain(d).in[n][i]]
<1> DEFINE g == Driver(d, n)
           u == d.gates[g].in
<1>1. /\ g \in DOMAIN d.gates /\ d.gates[g].out = n
      /\ c.type[n] = d.gates[g].type
      /\ DOMAIN c.in[n] = DOMAIN u
      /\ \A i \in DOMAIN c.in[n] : /\ <<g, i>> \in Pins(d)
                                   /\ Feed(d, c, <<g, i>>) = c.in[n][i]
                                   /\ Source(d, <<g, i>>) = u[i]
  BY FeedOf
<1>2. Plain(d).type[n] = d.gates[g].type /\ Plain(d).in[n] = u
  BY PlainNet
<1>3. u \in Seq(Named(d)) /\ u # <<>>
  BY <1>1, GateRead
<1>4. d.gates[g].type \in {"EXOR", "EXNOR"} => Len(u) = 2
  BY <1>1 DEF IsDesign
<1>5. Fed(d, c, Pins(d))
  BY DEF Assembled
<1>6. ASSUME NEW i \in DOMAIN c.in[n] PROVE Carried(d, c, v)[c.in[n][i]] = v[u[i]]
  <2> DEFINE f == c.in[n][i]
  <2>1. <<g, i>> \in Pins(d) /\ Feed(d, c, <<g, i>>) = f /\ Source(d, <<g, i>>) = u[i]
    BY <1>1
  <2>2. /\ f \in Nets(c)
        /\ f \in Named(d) => f = u[i]
        /\ f \notin Named(d) => c.in[f] = <<u[i]>>
    <3> HIDE DEF f
    <3> QED BY <1>5, <2>1 DEF Fed
  <2>3. f \notin Named(d) => c.in[f][1] = u[i]
    <3>1. <<u[i]>>[1] = u[i]
      OBVIOUS
    <3> QED BY <2>2, <3>1
  <2> HIDE DEF f
  <2>4. Carried(d, c, v)[f] = v[u[i]]
    BY <2>2, <2>3 DEF Carried
  <2> QED BY <2>4 DEF f
<1>7. DOMAIN u = 1 .. Len(u) /\ Len(u) \in Nat /\ Len(u) # 0
  BY <1>3
<1>8. 1 \in DOMAIN u /\ (Len(u) = 2 => 2 \in DOMAIN u)
  <2> HIDE DEF u
  <2>1. 1 \in DOMAIN u
    BY <1>7
  <2>2. Len(u) = 2 => 2 \in DOMAIN u
    BY <1>7
  <2> QED BY <2>1, <2>2
<1>9. HasPins(c, n)
  BY <1>1, <1>4, <1>8 DEF HasPins
<1> QED BY <1>1, <1>2, <1>6, <1>8, <1>9

\* The connected circuit computes the cycle.
LEMMA CycleSolves ==
  ASSUME NEW d, IsDesign(d), NEW c, NEW P, Assembled(d, c, Pins(d), P),
         NEW p, NEW s, DOMAIN s = Stored(d), NEW n \in Nets(c)
  PROVE  Solves(c, p, s, Carried(d, c, Cycle(d, p, s)), n)
<1> DEFINE v == Cycle(d, p, s)
           w == Carried(d, c, v)
<1>1. \A m \in Named(d) : Solves(Plain(d), p, s, v, m)
  BY CycleDefined
<1>2. Typed(d, c) /\ Named(d) \subseteq Nets(c)
  BY DEF Assembled, Shaped
<1> HIDE DEF v
<1>3. \A m \in Named(d) : w[m] = v[m]
  BY <1>2 DEF Carried
<1>4. CASE n \in Named(d) /\ n \in DOMAIN s
  <2>1. v[n] = s[n]
    BY <1>1, <1>4 DEF Solves
  <2> HIDE DEF w
  <2>2. w[n] = s[n]
    BY <1>3, <1>4, <2>1
  <2>3. Solves(c, p, s, w, n)
    BY <1>4, <2>2 DEF Solves
  <2> QED BY <2>3 DEF v, w
<1>5. CASE n \in Named(d) /\ n \notin DOMAIN s /\ IsInput(d, n)
  <2>1. Plain(d).type[n] = "IN"
    BY <1>5, PlainNet
  <2>2. c.type[n] = "IN"
    BY <1>2, <1>5, <2>1, PlainNet DEF Typed
  <2>3. v[n] = p[n]
    BY <1>1, <1>5, <2>1 DEF Solves
  <2> HIDE DEF w
  <2>4. w[n] = p[n]
    BY <1>3, <1>5, <2>3
  <2>5. Solves(c, p, s, w, n)
    BY <1>5, <2>2, <2>4 DEF Solves
  <2> QED BY <2>5 DEF v, w
<1>6. CASE n \in Named(d) /\ n \notin DOMAIN s /\ ~ IsInput(d, n)
  <2>1. Plain(d).type[n] # "IN"
    BY <1>6, PlainNet
  <2>2. /\ c.type[n] = Plain(d).type[n] /\ DOMAIN Plain(d).in[n] = DOMAIN c.in[n]
        /\ HasPins(c, n)
        /\ \A i \in DOMAIN c.in[n] : w[c.in[n][i]] = v[Plain(d).in[n][i]]
    BY <1>6, CarriedPins
  <2>3. v[n] = Eval(Plain(d), v, n)
    BY <1>1, <1>6, <2>1 DEF Solves
  <2> HIDE DEF w
  <2>4. Eval(c, w, n) = Eval(Plain(d), v, n)
    BY <2>2, GatesAlike
  <2>5. w[n] = Eval(c, w, n)
    BY <1>3, <1>6, <2>3, <2>4
  <2>6. Solves(c, p, s, w, n)
    BY <1>6, <2>1, <2>2, <2>5 DEF Solves
  <2> QED BY <2>6 DEF v, w
<1>7. CASE n \notin Named(d)
  <2>1. n \in Branches(d, c)
    BY <1>7 DEF Branches
  <2>2. c.type[n] = "FOUT" /\ c.in[n][1] \in Named(d)
    BY <2>1, BranchOf
  <2>3. n \notin DOMAIN s
    BY <1>7 DEF Stored
  <2>4. w[n] = v[c.in[n][1]]
    BY <1>7 DEF Carried
  <2> HIDE DEF w
  <2>5. Eval(c, w, n) = w[c.in[n][1]]
    BY <2>2, BufferCopies
  <2>6. w[n] = Eval(c, w, n)
    BY <1>3, <2>2, <2>4, <2>5
  <2>7. Solves(c, p, s, w, n)
    BY <2>2, <2>3, <2>6 DEF Solves
  <2> QED BY <2>7 DEF v, w
<1> QED BY <1>4, <1>5, <1>6, <1>7

\* What the pins of a net read, with all pins connected.
LEMMA JoinedPins ==
  ASSUME NEW c, NEW r, NEW b, Joined(c, r, b), NEW n \in Nets(c), c.type[n] # "IN"
  PROVE  /\ HasPins(c, n)
         /\ \A i \in DOMAIN c.in[n] : c.in[n][i] \in Inputs(c, n) /\ c.in[n][i] \in Nets(c)
         /\ c.type[n] # "DFF" => \A i \in DOMAIN c.in[n] : r[c.in[n][i]] < r[n]
<1> DEFINE l == c.in[n]
<1>1. /\ l \in Seq(Nets(c)) /\ l # <<>>
      /\ c.type[n] \in {"EXOR", "EXNOR"} => Len(l) = 2
      /\ c.type[n] # "DFF" => \A m \in Inputs(c, n) : r[m] < r[n]
  BY DEF Joined
<1>2. \A i \in DOMAIN l : l[i] \in Inputs(c, n)
  BY DEF Inputs
<1> HIDE DEF l
<1>3. DOMAIN l = 1 .. Len(l) /\ Len(l) \in Nat /\ Len(l) # 0 /\ \A i \in DOMAIN l : l[i] \in Nets(c)
  BY <1>1
<1>4. 1 \in DOMAIN l
  BY <1>3
<1>5. Len(l) = 2 => 2 \in DOMAIN l
  BY <1>3
<1>6. HasPins(c, n)
  BY <1>1, <1>4, <1>5 DEF HasPins, l
<1> QED BY <1>1, <1>2, <1>3, <1>6 DEF l

\* The flip-flops of a connected circuit.
StoredIn(c) == {n \in Nets(c) : c.type[n] = "DFF"}

\* One frame: the values are those of any solution with the same inputs.
LEMMA OneFrameValues ==
  ASSUME NEW c, NEW r, NEW b, Joined(c, r, b), StoredIn(c) = {},
         NEW p, NEW s, DOMAIN s = {}, NEW w, \A n \in Nets(c) : Solves(c, p, s, w, n),
         NEW x, x.type = c.type, x.in = c.in,
         NEW q, NEW t, DOMAIN t = {}, NEW v, \A n \in Nets(x) : Solves(x, q, t, v, n),
         \A n \in Nets(c) : c.type[n] = "IN" => q[n] = p[n]
  PROVE  \A n \in Nets(c) : v[n] = w[n]
<1> DEFINE S == {n \in Nets(c) : v[n] # w[n]}
<1> SUFFICES ASSUME S # {} PROVE FALSE
  OBVIOUS
<1>1. b \in Nat /\ r \in [Nets(c) -> 0 .. b]
  BY DEF Joined
<1>2. PICK n \in S : \A m \in S : r[n] <= r[m]
  <2>1. S \subseteq Nets(c)
    OBVIOUS
  <2> HIDE DEF S
  <2> QED BY <1>1, <2>1, LowestRank
<1>3. n \in Nets(c) /\ n \in Nets(x) /\ v[n] # w[n]
  BY DEF Nets
<1>4. c.type[n] # "DFF"
  BY <1>3 DEF StoredIn
<1>5. v[n] = IF c.type[n] = "IN" THEN q[n] ELSE Eval(x, v, n)
  BY <1>3 DEF Solves
<1>6. w[n] = IF c.type[n] = "IN" THEN p[n] ELSE Eval(c, w, n)
  BY <1>3 DEF Solves
<1>7. c.type[n] # "IN"
  BY <1>3, <1>5, <1>6
<1>8. HasPins(c, n) /\ \A i \in DOMAIN c.in[n] : c.in[n][i] \in Nets(c) /\ r[c.in[n][i]] < r[n]
  BY <1>3, <1>4, <1>7, JoinedPins
<1>9. ASSUME NEW i \in DOMAIN c.in[n] PROVE w[c.in[n][i]] = v[x.in[n][i]]
  <2>1. c.in[n][i] \notin S
    <3> DEFINE m == c.in[n][i]
    <3>1. m \in Nets(c) /\ r[m] < r[n]
      BY <1>8
    <3>2. r[m] \in 0 .. b /\ r[n] \in 0 .. b
      BY <1>1, <1>3, <3>1
    <3> HIDE DEF m, S
    <3>3. m \notin S
      BY <1>2, <3>1, <3>2
    <3> QED BY <3>3 DEF m
  <2> QED BY <1>8, <2>1
<1>10. Eval(c, w, n) = Eval(x, v, n)
  BY <1>8, <1>9, GatesAlike
<1> QED BY <1>3, <1>5, <1>6, <1>7, <1>10

\* A copy's pins read the copies of what the net's pins read.
LEMMA CopiedPins ==
  ASSUME NEW c, NEW r, NEW b, Joined(c, r, b), NEW k, Numbered(c, k), NEW n \in Nets(c)
  PROVE  /\ DOMAIN FrameInputs(c, n, 1) = DOMAIN c.in[n] /\ DOMAIN FrameInputs(c, n, 2) = DOMAIN c.in[n]
         /\ \A i \in DOMAIN c.in[n] : /\ FrameInputs(c, n, 1)[i] = Frame1(c, c.in[n][i])
                                      /\ FrameInputs(c, n, 2)[i] = Frame2(c, c.in[n][i])
<1>1. /\ DOMAIN FrameInputs(c, n, 1) = DOMAIN c.in[n]
      /\ \A i \in DOMAIN c.in[n] : FrameInputs(c, n, 1)[i] = Frame(c, c.in[n][i], 1)
  BY FrameInputList
<1>2. /\ DOMAIN FrameInputs(c, n, 2) = DOMAIN c.in[n]
      /\ \A i \in DOMAIN c.in[n] : FrameInputs(c, n, 2)[i] = Frame(c, c.in[n][i], 2)
  BY FrameInputList
<1>3. \A m : Frame(c, m, 1) = Frame1(c, m) /\ Frame(c, m, 2) = Frame2(c, m)
  BY DEF Frame
<1> QED BY <1>1, <1>2, <1>3

\* Frame 1 holds the first cycle, from the state in the pattern.
LEMMA FirstFrameValues ==
  ASSUME NEW c, NEW r, NEW b, Joined(c, r, b), NEW k, Numbered(c, k), NEW x, TwoFrames(c, x),
         NEW p, NEW s, DOMAIN s = StoredIn(c), NEW w, \A n \in Nets(c) : Solves(c, p, s, w, n),
         NEW q, NEW t, DOMAIN t = {}, NEW v, \A y \in Nets(x) : Solves(x, q, t, v, y),
         \A n \in Nets(c) : c.type[n] = "IN" => q[Frame1(c, n)] = p[n],
         \A n \in Nets(c) : c.type[n] = "DFF" => q[Frame1(c, n)] = s[n]
  PROVE  \A n \in Nets(c) : v[Frame1(c, n)] = w[n]
<1> DEFINE S == {n \in Nets(c) : v[Frame1(c, n)] # w[n]}
<1> SUFFICES ASSUME S # {} PROVE FALSE
  OBVIOUS
<1>1. b \in Nat /\ r \in [Nets(c) -> 0 .. b]
  BY DEF Joined
<1>2. PICK n \in S : \A m \in S : r[n] <= r[m]
  <2>1. S \subseteq Nets(c)
    OBVIOUS
  <2> HIDE DEF S
  <2> QED BY <1>1, <2>1, LowestRank
<1> DEFINE y == Frame1(c, n)
<1>3. n \in Nets(c) /\ v[y] # w[n]
  OBVIOUS
<1>4. y \in Nets(x)
  BY <1>3, AnyCopy
<1>5. /\ x.type[y] = IF c.type[n] = "DFF" THEN "IN" ELSE c.type[n]
      /\ x.in[y] = IF c.type[n] \in {"IN", "DFF"} THEN <<>> ELSE FrameInputs(c, n, 1)
  BY <1>3 DEF TwoFrames
<1>6. v[y] = IF x.type[y] = "IN" THEN q[y] ELSE Eval(x, v, y)
  BY <1>4 DEF Solves
<1>7. w[n] = IF c.type[n] = "DFF" THEN s[n] ELSE IF c.type[n] = "IN" THEN p[n] ELSE Eval(c, w, n)
  BY <1>3 DEF Solves, StoredIn
<1>8. c.type[n] \notin {"IN", "DFF"}
  BY <1>3, <1>5, <1>6, <1>7
<1>9. HasPins(c, n) /\ \A i \in DOMAIN c.in[n] : c.in[n][i] \in Nets(c) /\ r[c.in[n][i]] < r[n]
  BY <1>3, <1>8, JoinedPins
<1>10. /\ DOMAIN x.in[y] = DOMAIN c.in[n]
       /\ \A i \in DOMAIN c.in[n] : x.in[y][i] = Frame1(c, c.in[n][i])
  BY <1>3, <1>5, <1>8, CopiedPins
<1>11. ASSUME NEW i \in DOMAIN c.in[n] PROVE w[c.in[n][i]] = v[x.in[y][i]]
  <2> DEFINE m == c.in[n][i]
  <2>1. m \in Nets(c) /\ r[m] < r[n]
    BY <1>9
  <2>2. r[m] \in 0 .. b /\ r[n] \in 0 .. b
    BY <1>1, <1>3, <2>1
  <2>3. m \notin S
    <3> HIDE DEF m, S
    <3> QED BY <1>2, <2>1, <2>2
  <2>4. w[m] = v[Frame1(c, m)]
    <3> HIDE DEF m
    <3> QED BY <2>1, <2>3
  <2> QED BY <1>10, <2>4
<1>12. x.type[y] = c.type[n]
  BY <1>5, <1>8
<1>13. Eval(c, w, n) = Eval(x, v, y)
  <2> HIDE DEF y
  <2> QED BY <1>9, <1>10, <1>11, <1>12, GatesAlike
<1> QED BY <1>3, <1>6, <1>7, <1>8, <1>12, <1>13

\* Frame 2 holds the next cycle, from the state captured in frame 1.
LEMMA SecondFrameValues ==
  ASSUME NEW c, NEW r, NEW b, Joined(c, r, b), NEW k, Numbered(c, k), NEW x, TwoFrames(c, x),
         NEW p, NEW s, DOMAIN s = StoredIn(c), NEW w, \A n \in Nets(c) : Solves(c, p, s, w, n),
         NEW q, NEW t, DOMAIN t = {}, NEW v, \A y \in Nets(x) : Solves(x, q, t, v, y),
         \A n \in Nets(c) : c.type[n] = "IN" => q[Frame1(c, n)] = p[n],
         NEW u, \A n \in Nets(c) : v[Frame1(c, n)] = u[n],
         \A n \in Nets(c) : c.type[n] = "DFF" => s[n] = u[c.in[n][1]]
  PROVE  \A n \in Nets(c) : v[Frame2(c, n)] = w[n]
<1> DEFINE S == {n \in Nets(c) : v[Frame2(c, n)] # w[n]}
<1> SUFFICES ASSUME S # {} PROVE FALSE
  OBVIOUS
<1>1. b \in Nat /\ r \in [Nets(c) -> 0 .. b]
  BY DEF Joined
<1>2. PICK n \in S : \A m \in S : r[n] <= r[m]
  <2>1. S \subseteq Nets(c)
    OBVIOUS
  <2> HIDE DEF S
  <2> QED BY <1>1, <2>1, LowestRank
<1> DEFINE y == Frame2(c, n)
<1>3. n \in Nets(c) /\ v[y] # w[n]
  OBVIOUS
<1>4. y \in Nets(x) /\ Frame1(c, n) \in Nets(x)
  BY <1>3, AnyCopy
<1>6. v[y] = IF x.type[y] = "IN" THEN q[y] ELSE Eval(x, v, y)
  BY <1>4 DEF Solves
<1>7. w[n] = IF c.type[n] = "DFF" THEN s[n] ELSE IF c.type[n] = "IN" THEN p[n] ELSE Eval(c, w, n)
  BY <1>3 DEF Solves, StoredIn
<1>8. CASE c.type[n] = "IN"
  <2>1. y = Frame1(c, n)
    BY <1>3, <1>8, CopiesApart
  <2>2. x.type[Frame1(c, n)] = "IN"
    BY <1>3, <1>8 DEF TwoFrames
  <2> HIDE DEF y
  <2> QED BY <1>3, <1>6, <1>7, <1>8, <2>1, <2>2
<1>9. CASE c.type[n] = "DFF"
  <2>1. x.type[y] = "BUF" /\ x.in[y] = FrameInputs(c, n, 1)
    BY <1>3, <1>9 DEF TwoFrames
  <2>2. 1 \in DOMAIN c.in[n] /\ c.in[n][1] \in Nets(c)
    BY <1>3, <1>9, JoinedPins DEF HasPins
  <2>3. x.in[y][1] = Frame1(c, c.in[n][1])
    BY <1>3, <2>1, <2>2, CopiedPins
  <2>4. Eval(x, v, y) = v[x.in[y][1]]
    <3> HIDE DEF y
    <3> QED BY <2>1, BufferCopies
  <2>5. v[Frame1(c, c.in[n][1])] = u[c.in[n][1]]
    BY <2>2
  <2> HIDE DEF y
  <2> QED BY <1>3, <1>6, <1>7, <1>9, <2>1, <2>3, <2>4, <2>5
<1>10. CASE c.type[n] \notin {"IN", "DFF"}
  <2>1. x.type[y] = c.type[n] /\ x.in[y] = FrameInputs(c, n, 2)
    BY <1>3, <1>10 DEF TwoFrames
  <2>2. HasPins(c, n) /\ \A i \in DOMAIN c.in[n] : c.in[n][i] \in Nets(c) /\ r[c.in[n][i]] < r[n]
    BY <1>3, <1>10, JoinedPins
  <2>3. /\ DOMAIN x.in[y] = DOMAIN c.in[n]
        /\ \A i \in DOMAIN c.in[n] : x.in[y][i] = Frame2(c, c.in[n][i])
    BY <1>3, <2>1, CopiedPins
  <2>4. ASSUME NEW i \in DOMAIN c.in[n] PROVE w[c.in[n][i]] = v[x.in[y][i]]
    <3> DEFINE m == c.in[n][i]
    <3>1. m \in Nets(c) /\ r[m] < r[n]
      BY <2>2
    <3>2. r[m] \in 0 .. b /\ r[n] \in 0 .. b
      BY <1>1, <1>3, <3>1
    <3>3. m \notin S
      <4> HIDE DEF m, S
      <4> QED BY <1>2, <3>1, <3>2
    <3>4. w[m] = v[Frame2(c, m)]
      <4> HIDE DEF m
      <4> QED BY <3>1, <3>3
    <3> QED BY <2>3, <3>4
  <2>5. Eval(c, w, n) = Eval(x, v, y)
    <3> HIDE DEF y
    <3> QED BY <2>1, <2>2, <2>3, <2>4, GatesAlike
  <2> HIDE DEF y
  <2> QED BY <1>3, <1>6, <1>7, <1>10, <2>1, <2>5
<1> QED BY <1>8, <1>9, <1>10

\* The bit of a net is found at the net's place in the list.
LEMMA AssignedAt ==
  ASSUME NEW T, NEW list \in Seq(T), \A i, j \in DOMAIN list : list[i] = list[j] => i = j,
         NEW bits, NEW from
  PROVE  /\ DOMAIN Assigned(list, bits, from) = Range(list)
         /\ \A i \in DOMAIN list : Assigned(list, bits, from)[list[i]] = bits[from + i]
<1>1. DOMAIN Assigned(list, bits, from) = Range(list)
  BY DEF Assigned
<1>2. ASSUME NEW i \in DOMAIN list PROVE Assigned(list, bits, from)[list[i]] = bits[from + i]
  <2>1. list[i] \in Range(list)
    BY DEF Range
  <2>2. (CHOOSE j \in DOMAIN list : list[j] = list[i]) = i
    OBVIOUS
  <2> QED BY <2>1, <2>2 DEF Assigned
<1> QED BY <1>1, <1>2

\* What is kept does not depend on how the list goes on, or on the rest of the set.
LEMMA FilteredAlike ==
  ASSUME NEW s, NEW S, NEW t, NEW T, NEW k \in Nat, DOMAIN s \subseteq 1 .. k,
         {i \in DOMAIN s : s[i] \in S} = {i \in DOMAIN t : t[i] \in T},
         \A i \in DOMAIN s : s[i] \in S => s[i] = t[i]
  PROVE  Filtered(s, S) = Filtered(t, T)
<1> DEFINE places == {i \in DOMAIN s : s[i] \in S}
           others == {i \in DOMAIN t : t[i] \in T}
           At(i) == CHOOSE j \in places : Position(j, places) = i
<1>1. IsFiniteSet(places) /\ places \subseteq Nat
  <2>1. IsFiniteSet(1 .. k)
    BY FS_Interval
  <2>2. places \subseteq 1 .. k /\ 1 .. k \subseteq Nat
    OBVIOUS
  <2> HIDE DEF places
  <2> QED BY <2>1, <2>2, FS_Subset
<1>2. others = places
  OBVIOUS
<1>3. \A j \in places : s[j] = t[j]
  OBVIOUS
<1>4. Filtered(s, S) = [i \in 1 .. Cardinality(places) |-> s[At(i)]]
  BY DEF Filtered
<1>5. Filtered(t, T) = [i \in 1 .. Cardinality(others) |-> t[CHOOSE j \in others : Position(j, others) = i]]
  BY DEF Filtered
<1> HIDE DEF places, others
<1>6. Filtered(t, T) = [i \in 1 .. Cardinality(places) |-> t[At(i)]]
  BY <1>2, <1>5
<1>7. \A i \in 1 .. Cardinality(places) : At(i) \in places
  <2> SUFFICES ASSUME NEW i \in 1 .. Cardinality(places) PROVE At(i) \in places
    OBVIOUS
  <2>1. \E j \in places : Position(j, places) = i
    BY <1>1, PositionsTaken
  <2> QED BY <2>1
<1> HIDE DEF At
<1>8. \A i \in 1 .. Cardinality(places) : s[At(i)] = t[At(i)]
  BY <1>3, <1>7
<1> QED BY <1>4, <1>6, <1>8

\* Branches change neither the flip-flops nor the numbers of the copies.
LEMMA BranchesAside ==
  ASSUME NEW d, IsDesign(d), NEW c, NEW P, Assembled(d, c, Pins(d), P)
  PROVE  /\ FlipFlops(c) = States(d) /\ StoredIn(c) = Stored(d)
         /\ \A n \in Named(d) : /\ Frame1(Unconnected(d), n) = Frame1(c, n)
                                /\ Frame2(Unconnected(d), n) = Frame2(c, n)
<1> DEFINE U == Unconnected(d)
           K == Cardinality(Nets(c))
           C == {n \in Nets(c) : c.type[n] = "DFF"}
           D == {n \in Nets(U) : U.type[n] = "DFF"}
           s == [i \in 1 .. K |-> i - 1]
           t == [i \in 1 .. d.nets |-> i - 1]
<1>1. d.nets \in Nat /\ Named(d) = 0 .. d.nets - 1 /\ Cardinality(Named(d)) = d.nets
  BY DesignRead DEF Readable, Named
<1>2. Nets(U) = Named(d)
  BY DEF Nets, Unconnected, Named
<1>3. K \in Nat /\ Nets(c) = 0 .. K - 1 /\ Named(d) \subseteq Nets(c)
  BY FS_CardinalityType DEF Assembled, Shaped
<1>4. \A n \in Nets(c) : c.type[n] = IF n \in Named(d) THEN U.type[n] ELSE "FOUT"
  BY DEF Assembled, Typed
<1> HIDE DEF U, K
<1>5. C = D
  BY <1>2, <1>3, <1>4
<1>6. StoredIn(c) = Stored(d)
  BY <1>2, <1>5 DEF StoredIn, Stored, U
<1>7. C \subseteq 0 .. d.nets - 1
  BY <1>1, <1>2, <1>5
<1> HIDE DEF C, D
<1>8. {i \in DOMAIN s : s[i] \in C} = {i \in DOMAIN t : t[i] \in D}
  <2>1. \A i \in 1 .. K : s[i] = i - 1
    OBVIOUS
  <2>2. \A i \in 1 .. d.nets : t[i] = i - 1
    OBVIOUS
  <2>3. \A i \in 1 .. K : i - 1 \in C => i \in 1 .. d.nets
    BY <1>1, <1>3, <1>7
  <2>4. \A i \in 1 .. d.nets : i \in 1 .. K
    <3> SUFFICES ASSUME NEW i \in 1 .. d.nets PROVE i \in 1 .. K
      OBVIOUS
    <3>1. i - 1 \in 0 .. K - 1
      <4>1. i - 1 \in 0 .. d.nets - 1
        BY <1>1
      <4> QED BY <1>1, <1>3, <4>1
    <3> QED BY <1>1, <1>3, <3>1
  <2>5. DOMAIN s = 1 .. K /\ DOMAIN t = 1 .. d.nets
    OBVIOUS
  <2> HIDE DEF s, t
  <2>6. \A i \in DOMAIN s : s[i] \in C => i \in DOMAIN t /\ t[i] \in D
    BY <1>5, <2>1, <2>2, <2>3, <2>5
  <2>7. \A i \in DOMAIN t : t[i] \in D => i \in DOMAIN s /\ s[i] \in C
    BY <1>5, <2>1, <2>2, <2>4, <2>5
  <2> QED BY <2>6, <2>7
<1>9. \A i \in DOMAIN s : s[i] \in C => s[i] = t[i]
  <2> SUFFICES ASSUME NEW i \in DOMAIN s, s[i] \in C PROVE s[i] = t[i]
    OBVIOUS
  <2>1. i \in {j \in DOMAIN s : s[j] \in C}
    OBVIOUS
  <2>2. i \in DOMAIN t
    <3> HIDE DEF s, t
    <3> QED BY <1>8, <2>1
  <2> QED BY <2>2
<1>10. DOMAIN s \subseteq 1 .. K
  OBVIOUS
<1>11. Filtered(s, C) = Filtered(t, D)
  <2> HIDE DEF s, t
  <2> QED BY <1>3, <1>8, <1>9, <1>10, FilteredAlike
<1>12. FlipFlops(c) = Filtered(s, C)
  BY DEF FlipFlops, K, C
<1>13. States(d) = Filtered(t, D)
  <2>1. Cardinality(Nets(U)) = d.nets
    BY <1>1, <1>2
  <2> QED BY <2>1 DEF FlipFlops, States, D, U
<1>14. ASSUME NEW n \in Named(d)
       PROVE  Frame1(U, n) = Frame1(c, n) /\ Frame2(U, n) = Frame2(c, n)
  <2>1. \A m \in 0 .. n - 1 : m \in Named(d)
    <3>1. n \in 0 .. d.nets - 1
      BY <1>1
    <3>2. \A m \in 0 .. n - 1 : m \in 0 .. d.nets - 1
      BY <1>1, <3>1
    <3> QED BY <1>1, <3>2
  <2>2. {m \in 0 .. n - 1 : U.type[m] # "IN"} = {m \in 0 .. n - 1 : c.type[m] # "IN"}
    BY <1>3, <1>4, <2>1
  <2>3. Frame1(U, n) = Frame1(c, n)
    BY <2>2 DEF Frame1
  <2>4. U.type[n] = c.type[n]
    BY <1>3, <1>4
  <2> QED BY <2>3, <2>4 DEF Frame2
<1> QED BY <1>6, <1>11, <1>12, <1>13, <1>14 DEF U

\* The flip-flops of a design are listed, each once, and so are its inputs.
LEMMA StatesListed ==
  ASSUME NEW d, IsDesign(d), NEW c, NEW r, NEW b, Joined(c, r, b), FlipFlops(c) = States(d), NEW bits, NEW from
  PROVE  /\ States(d) \in Seq(Nets(c)) /\ Range(States(d)) = StoredIn(c)
         /\ DOMAIN Assigned(States(d), bits, from) = StoredIn(c)
         /\ \A i \in DOMAIN States(d) : Assigned(States(d), bits, from)[States(d)[i]] = bits[from + i]
<1> DEFINE k == Cardinality(Nets(c))
           f == States(d)
<1>1. k \in Nat /\ Cardinality(Nets(c)) = k /\ Nets(c) = 0 .. k - 1
  BY FS_CardinalityType DEF Joined
<1> HIDE DEF k
<1>2. /\ FlipFlops(c) \in Seq(Nets(c))
      /\ \A n \in Nets(c) : c.type[n] = "DFF" <=> \E i \in DOMAIN FlipFlops(c) : FlipFlops(c)[i] = n
      /\ \A i, j \in DOMAIN FlipFlops(c) : FlipFlops(c)[i] = FlipFlops(c)[j] => i = j
  BY <1>1, FlipFlopsListed
<1> HIDE DEF f
<1>3. /\ f \in Seq(Nets(c))
      /\ \A n \in Nets(c) : c.type[n] = "DFF" <=> \E i \in DOMAIN f : f[i] = n
      /\ \A i, j \in DOMAIN f : f[i] = f[j] => i = j
  BY <1>2 DEF f
<1>4. \A i \in DOMAIN f : f[i] \in Nets(c)
  BY <1>3
<1>5. Range(f) = StoredIn(c)
  BY <1>3, <1>4 DEF Range, StoredIn
<1>6. /\ DOMAIN Assigned(f, bits, from) = Range(f)
      /\ \A i \in DOMAIN f : Assigned(f, bits, from)[f[i]] = bits[from + i]
  BY <1>3, AssignedAt
<1> QED BY <1>3, <1>5, <1>6 DEF f

\* What a flip-flop captures is the value of the net its pin reads.
LEMMA CapturedValue ==
  ASSUME NEW d, IsDesign(d), NEW c, NEW P, Assembled(d, c, Pins(d), P), NEW v, NEW n \in Stored(d)
  PROVE  /\ c.in[n][1] \in Nets(c)
         /\ v[DrivenBy(d, n)[1]] = Carried(d, c, v)[c.in[n][1]]
<1>1. n \in Named(d) /\ Unconnected(d).type[n] = "DFF"
  BY DEF Stored
<1>2. ~ IsInput(d, n)
  BY <1>1, PlainNet
<1>3. /\ 1 \in DOMAIN c.in[n]
      /\ \A i \in DOMAIN c.in[n] : Carried(d, c, v)[c.in[n][i]] = v[Plain(d).in[n][i]]
  BY <1>1, <1>2, CarriedPins
<1>4. Plain(d).in[n] = DrivenBy(d, n)
  BY <1>1, PlainNet
<1>5. c.in[n] \in Seq(Nets(c))
  BY <1>1 DEF Assembled, Shaped
<1>6. c.in[n][1] \in Nets(c)
  BY <1>3, <1>5
<1> QED BY <1>3, <1>4, <1>6

\* The equations hold of the values of a well-formed circuit.
LEMMA ValuesSolve ==
  ASSUME NEW x, WellFormed(x), NEW q, NEW t
  PROVE  \A n \in Nets(x) : Solves(x, q, t, Values(x, q, t), n)
BY ValuesExist DEF Solves

\* What is observed of circuit x, from the bits, is what design d puts out in one cycle.
ShowsOutputs(d, x, bits) ==
  LET v == Values(x, Assigned(x.pi, bits, 0), <<>>)
      cycle == Cycle(d, Assigned(d.pi, bits, 0), Assigned(States(d), bits, Len(d.pi)))
  IN \A i \in DOMAIN d.po : v[x.observed[i]] = cycle[d.po[i]]

\* Without flip-flops: the outputs show the values of the one cycle.
LEMMA OutputsObserved ==
  ASSUME NEW d, IsDesign(d), NEW c, Assembled(d, c, Pins(d), Moved(d, Pins(d))),
         States(d) = <<>>, NEW bits
  PROVE  ShowsOutputs(d, StuckAtCircuit(c), bits)
<1> DEFINE x == StuckAtCircuit(c)
           p == Assigned(d.pi, bits, 0)
           s == Assigned(States(d), bits, Len(d.pi))
           v == Values(x, p, <<>>)
           cycle == Cycle(d, p, s)
           w == Carried(d, c, cycle)
<1>1. PICK r, b : Joined(c, r, b)
  BY AllJoined
<1>2. FlipFlops(c) = States(d) /\ StoredIn(c) = Stored(d)
  BY BranchesAside
<1>3. DOMAIN s = StoredIn(c) /\ Range(States(d)) = StoredIn(c)
  BY <1>1, <1>2, StatesListed
<1>4. DOMAIN <<>> = {}
  OBVIOUS
<1>5. StoredIn(c) = {}
  BY <1>3, <1>4 DEF Range
<1>6. x.pi = d.pi /\ x.type = c.type /\ x.in = c.in /\ x.observed = c.po
  <2>1. c.pi = d.pi
    BY DEF Assembled, Shaped
  <2> QED BY <2>1 DEF StuckAtCircuit
<1>7. WellFormed(x)
  <2>1. \A n \in Nets(c) : c.type[n] # "DFF"
    BY <1>5 DEF StoredIn
  <2> QED BY <1>1, <2>1, StuckAtWellFormed
<1>8. \A n \in Nets(x) : Solves(x, p, <<>>, v, n)
  <2> HIDE DEF x, p
  <2> QED BY <1>7, ValuesSolve
<1>9. DOMAIN s = Stored(d)
  BY <1>2, <1>3
<1>10. \A n \in Nets(c) : Solves(c, p, s, w, n)
  <2> HIDE DEF p, s
  <2> QED BY <1>9, CycleSolves
<1> DEFINE t == <<>>
<1>11. DOMAIN t = {} /\ DOMAIN s = {} /\ \A n \in Nets(x) : Solves(x, p, t, v, n)
  BY <1>3, <1>4, <1>5, <1>8
<1>12. \A n \in Nets(c) : v[n] = w[n]
  <2>1. x.type = c.type /\ x.in = c.in
    BY <1>6
  <2>2. \A n \in Nets(c) : c.type[n] = "IN" => p[n] = p[n]
    OBVIOUS
  <2> HIDE DEF x, p, s, v, w, t
  <2> QED BY <1>1, <1>5, <1>10, <1>11, <2>1, <2>2, OneFrameValues
<1>13. ASSUME NEW i \in DOMAIN d.po PROVE v[x.observed[i]] = cycle[d.po[i]]
  <2> HIDE DEF v, cycle, x
  <2>1. /\ c.po[i] \in Nets(c) /\ Named(d) \subseteq Nets(c)
    <3>1. c.po \in Seq(Nets(c)) /\ DOMAIN c.po = DOMAIN d.po /\ Named(d) \subseteq Nets(c)
      BY DEF Assembled, Shaped
    <3> QED BY <3>1
  <2>2. Ported(d, c, Moved(d, Pins(d)))
    BY DEF Assembled
  <2>3. d.po[i] \in Named(d)
    BY PortsOnce
  <2>4. CASE i \in Moved(d, Pins(d))
    <3>1. c.po[i] \notin Named(d) /\ c.in[c.po[i]] = <<d.po[i]>>
      BY <2>2, <2>4 DEF Ported, Branches
    <3>2. <<d.po[i]>>[1] = d.po[i]
      OBVIOUS
    <3>3. w[c.po[i]] = cycle[d.po[i]]
      BY <2>1, <3>1, <3>2 DEF Carried
    <3> QED BY <1>6, <1>12, <2>1, <3>3
  <2>5. CASE i \notin Moved(d, Pins(d))
    <3>1. c.po[i] = d.po[i]
      BY <2>2, <2>5 DEF Ported
    <3>2. w[c.po[i]] = cycle[d.po[i]]
      BY <2>1, <2>3, <3>1 DEF Carried
    <3> QED BY <1>6, <1>12, <2>1, <3>2
  <2> QED BY <2>4, <2>5
<1>14. Assigned(x.pi, bits, 0) = p
  BY <1>6
<1> QED BY <1>13, <1>14 DEF ShowsOutputs

\* The bits q of the two frames' inputs are p on the first copies of the design's
\* inputs and s on those of its flip-flops.
InputBits(c, q, p, s) ==
  /\ \A n \in Nets(c) : c.type[n] = "IN" => q[Frame1(c, n)] = p[n]
  /\ \A n \in Nets(c) : c.type[n] = "DFF" => q[Frame1(c, n)] = s[n]

\* The bits of the two frames' inputs: first those of the design's inputs, then
\* the state's.
LEMMA FrameBits ==
  ASSUME NEW d, IsDesign(d), NEW c, NEW P, Assembled(d, c, Pins(d), P), NEW r, NEW b, Joined(c, r, b),
         NEW k, Numbered(c, k), NEW x, TwoFrames(c, x), FlipFlops(c) = States(d), NEW bits
  PROVE  InputBits(c, Assigned(x.pi, bits, 0), Assigned(d.pi, bits, 0), Assigned(States(d), bits, Len(d.pi)))
<1> DEFINE f == States(d)
           A == [i \in DOMAIN d.pi |-> Frame1(c, d.pi[i])]
           B == [i \in DOMAIN f |-> Frame1(c, f[i])]
           q == Assigned(x.pi, bits, 0)
<1>1. c.pi = d.pi
  BY DEF Assembled, Shaped
<1>2. InputsListed(c) /\ InputsListed(x)
  BY FramePorts DEF Joined
<1>3. x.pi = A \o B
  BY <1>1 DEF TwoFrames
<1>4. f \in Seq(Nets(c)) /\ Range(f) = StoredIn(c)
  BY StatesListed
<1>5. \A i \in DOMAIN f : Assigned(f, bits, Len(d.pi))[f[i]] = bits[Len(d.pi) + i]
  BY StatesListed
<1>6. d.pi \in Seq(Nets(c)) /\ \A i, j \in DOMAIN d.pi : d.pi[i] = d.pi[j] => i = j
  BY <1>1, <1>2 DEF InputsListed
<1>7. \A i \in DOMAIN d.pi : Assigned(d.pi, bits, 0)[d.pi[i]] = bits[0 + i]
  BY <1>6, AssignedAt
<1>8. \A i \in DOMAIN x.pi : q[x.pi[i]] = bits[0 + i]
  <2>1. x.pi \in Seq(Nets(x)) /\ \A i, j \in DOMAIN x.pi : x.pi[i] = x.pi[j] => i = j
    BY <1>2 DEF InputsListed
  <2> QED BY <2>1, AssignedAt
<1>9. \A n \in Nets(c) : Frame1(c, n) \in Nets(x)
  BY AnyCopy
<1> HIDE DEF f, q
<1>10. A \in Seq(Nets(x)) /\ DOMAIN A = DOMAIN d.pi /\ Len(A) = Len(d.pi)
  <2>1. DOMAIN d.pi = 1 .. Len(d.pi) /\ Len(d.pi) \in Nat /\ \A i \in DOMAIN d.pi : d.pi[i] \in Nets(c)
    BY <1>6
  <2> QED BY <1>9, <2>1
<1>11. B \in Seq(Nets(x)) /\ DOMAIN B = DOMAIN f
  <2>1. DOMAIN f = 1 .. Len(f) /\ Len(f) \in Nat /\ \A i \in DOMAIN f : f[i] \in Nets(c)
    BY <1>4
  <2> QED BY <1>9, <2>1
<1>12. \A i \in DOMAIN d.pi : A[i] = Frame1(c, d.pi[i])
  OBVIOUS
<1>13. \A i \in DOMAIN f : B[i] = Frame1(c, f[i])
  OBVIOUS
<1> HIDE DEF A, B
<1>14. /\ \A i \in DOMAIN A : i \in DOMAIN (A \o B) /\ (A \o B)[i] = A[i]
       /\ \A i \in DOMAIN B : i + Len(A) \in DOMAIN (A \o B) /\ (A \o B)[i + Len(A)] = B[i]
  BY <1>10, <1>11, Joint
<1>15. ASSUME NEW n \in Nets(c), c.type[n] = "IN"
       PROVE  q[Frame1(c, n)] = Assigned(d.pi, bits, 0)[n]
  <2>1. PICK i \in DOMAIN d.pi : d.pi[i] = n
    BY <1>1, <1>2, <1>15 DEF InputsListed
  <2>2. i \in DOMAIN x.pi /\ x.pi[i] = Frame1(c, n)
    BY <1>3, <1>10, <1>12, <1>14, <2>1
  <2>3. q[Frame1(c, n)] = bits[0 + i]
    BY <1>8, <2>2
  <2> QED BY <1>7, <2>1, <2>3
<1>16. ASSUME NEW n \in Nets(c), c.type[n] = "DFF"
       PROVE  q[Frame1(c, n)] = Assigned(f, bits, Len(d.pi))[n]
  <2>1. PICK i \in DOMAIN f : f[i] = n
    BY <1>4, <1>16 DEF Range, StoredIn
  <2>2. i + Len(d.pi) \in DOMAIN x.pi /\ x.pi[i + Len(d.pi)] = Frame1(c, n)
    BY <1>3, <1>10, <1>11, <1>13, <1>14, <2>1
  <2>3. q[Frame1(c, n)] = bits[0 + (i + Len(d.pi))]
    BY <1>8, <2>2
  <2>4. 0 + (i + Len(d.pi)) = Len(d.pi) + i
    <3>1. i \in Nat /\ Len(d.pi) \in Nat
      BY <1>4, <1>6
    <3> QED BY <3>1
  <2> QED BY <1>5, <2>1, <2>3, <2>4
<1> HIDE DEF q
<1>17. InputBits(c, q, Assigned(d.pi, bits, 0), Assigned(f, bits, Len(d.pi)))
  BY <1>15, <1>16 DEF InputBits
<1> QED BY <1>17 DEF f, q

\* What is observed of circuit x, from the bits, is what design d captures at the
\* end of its second cycle, and the two copies of a net have its two values.
ShowsCycles(d, x, bits) ==
  LET v == Values(x, Assigned(x.pi, bits, 0), <<>>)
      p == Assigned(d.pi, bits, 0)
      cycle1 == Cycle(d, p, Assigned(States(d), bits, Len(d.pi)))
      cycle2 == Cycle(d, p, Captured(d, cycle1))
  IN /\ \A i \in DOMAIN States(d) : v[x.observed[i]] = Captured(d, cycle2)[States(d)[i]]
     /\ \A n \in Named(d) : /\ v[Frame1(Unconnected(d), n)] = cycle1[n]
                            /\ v[Frame2(Unconnected(d), n)] = cycle2[n]

\* With flip-flops: the two frames hold the two cycles, and what is observed is
\* what the second one captures.
LEMMA CyclesObserved ==
  ASSUME NEW d, IsDesign(d), NEW c, NEW P, Assembled(d, c, Pins(d), P), NEW r, NEW b, Joined(c, r, b),
         NEW bits
  PROVE  ShowsCycles(d, Expanded(c), bits)
<1> DEFINE x == Expanded(c)
           k == Cardinality(Nets(c))
           f == States(d)
           q == Assigned(x.pi, bits, 0)
           t == <<>>
           v == Values(x, q, t)
           p == Assigned(d.pi, bits, 0)
           s == Assigned(f, bits, Len(d.pi))
           cycle1 == Cycle(d, p, s)
           w == Carried(d, c, cycle1)
           u == Captured(d, cycle1)
           cycle2 == Cycle(d, p, u)
           z == Carried(d, c, cycle2)
<1>1. Numbered(c, k)
  <2>1. IsFiniteSet(Nets(c)) /\ Nets(c) = 0 .. k - 1
    BY DEF Joined
  <2> QED BY <2>1, FS_CardinalityType DEF Numbered
<1>2. /\ FlipFlops(c) = f /\ StoredIn(c) = Stored(d)
      /\ \A n \in Named(d) : /\ Frame1(Unconnected(d), n) = Frame1(c, n)
                             /\ Frame2(Unconnected(d), n) = Frame2(c, n)
  BY BranchesAside
<1> HIDE DEF k
<1>3. TwoFrames(c, x)
  BY <1>1, ExpandedFrames
<1> HIDE DEF x
<1>4. f \in Seq(Nets(c)) /\ Range(f) = StoredIn(c) /\ DOMAIN s = StoredIn(c)
  BY <1>2, StatesListed
<1>5. InputBits(c, Assigned(x.pi, bits, 0), Assigned(d.pi, bits, 0), Assigned(States(d), bits, Len(d.pi)))
  <2>1. FlipFlops(c) = States(d)
    BY <1>2
  <2> HIDE DEF q, p, s, f, v, w, u, z, cycle1, cycle2
  <2> QED BY <1>1, <1>3, <2>1, FrameBits
<1>6. InputBits(c, q, p, s)
  BY <1>5
<1> HIDE DEF q, p, s
<1>7. /\ \A n \in Nets(c) : c.type[n] = "IN" => q[Frame1(c, n)] = p[n]
      /\ \A n \in Nets(c) : c.type[n] = "DFF" => q[Frame1(c, n)] = s[n]
  BY <1>6 DEF InputBits
<1>8. DOMAIN t = {}
  OBVIOUS
<1>9. \A y \in Nets(x) : Solves(x, q, t, v, y)
  <2>1. WellFormed(x)
    BY <1>1, <1>3, FramesWellFormed
  <2> HIDE DEF t
  <2> QED BY <2>1, ValuesSolve
<1> HIDE DEF t, v
<1>10. \A n \in Nets(c) : Solves(c, p, s, w, n)
  <2>1. DOMAIN s = Stored(d)
    BY <1>2, <1>4
  <2> QED BY <2>1, CycleSolves
<1> HIDE DEF cycle1
<1>11. \A n \in Nets(c) : v[Frame1(c, n)] = w[n]
  <2> HIDE DEF w
  <2> QED BY <1>1, <1>3, <1>4, <1>7, <1>8, <1>9, <1>10, FirstFrameValues
<1>12. DOMAIN u = Stored(d) /\ \A n \in Stored(d) : u[n] = cycle1[DrivenBy(d, n)[1]]
  <2>1. Range(States(d)) = Stored(d)
    BY <1>2, <1>4
  <2> QED BY <2>1 DEF Captured
<1>13. \A n \in Nets(c) : c.type[n] = "DFF" => u[n] = w[c.in[n][1]]
  <2> SUFFICES ASSUME NEW n \in Nets(c), c.type[n] = "DFF" PROVE u[n] = w[c.in[n][1]]
    OBVIOUS
  <2>1. n \in Stored(d)
    BY <1>2 DEF StoredIn
  <2>2. cycle1[DrivenBy(d, n)[1]] = w[c.in[n][1]]
    BY <2>1, CapturedValue
  <2> HIDE DEF u, w
  <2> QED BY <1>12, <2>1, <2>2
<1> HIDE DEF u
<1>14. \A n \in Nets(c) : Solves(c, p, u, z, n)
  BY <1>12, CycleSolves
<1>15. DOMAIN u = StoredIn(c)
  BY <1>2, <1>12
<1> HIDE DEF cycle2
<1>16. \A n \in Nets(c) : v[Frame2(c, n)] = z[n]
  <2> HIDE DEF w, z
  <2> QED BY <1>1, <1>3, <1>7, <1>8, <1>9, <1>11, <1>13, <1>14, <1>15, SecondFrameValues
<1>17. Named(d) \subseteq Nets(c)
  BY DEF Assembled, Shaped
<1>18. ASSUME NEW n \in Named(d)
       PROVE  v[Frame1(Unconnected(d), n)] = cycle1[n] /\ v[Frame2(Unconnected(d), n)] = cycle2[n]
  <2>1. n \in Nets(c) /\ w[n] = cycle1[n] /\ z[n] = cycle2[n]
    BY <1>17 DEF Carried
  <2> HIDE DEF w, z
  <2> QED BY <1>2, <1>11, <1>16, <2>1
<1>19. ASSUME NEW i \in DOMAIN f PROVE v[x.observed[i]] = Captured(d, cycle2)[f[i]]
  <2>1. x.observed = [j \in DOMAIN f |-> Frame2(c, c.in[f[j]][1])]
    BY <1>2, <1>3 DEF TwoFrames
  <2>2. f[i] \in Stored(d)
    BY <1>2, <1>4 DEF Range
  <2>3. Captured(d, cycle2)[f[i]] = cycle2[DrivenBy(d, f[i])[1]]
    <3>1. f[i] \in Range(States(d))
      BY DEF Range
    <3> QED BY <3>1 DEF Captured
  <2>4. c.in[f[i]][1] \in Nets(c) /\ cycle2[DrivenBy(d, f[i])[1]] = z[c.in[f[i]][1]]
    <3> HIDE DEF f
    <3> QED BY <2>2, CapturedValue
  <2>5. x.observed[i] = Frame2(c, c.in[f[i]][1])
    BY <2>1
  <2> HIDE DEF z, f
  <2> QED BY <1>16, <2>3, <2>4, <2>5
<1> QED BY <1>18, <1>19 DEF x, q, t, v, p, s, cycle1, u, cycle2, ShowsCycles

\* From every design the builder makes a circuit that does what the design does:
\* whatever branches, frames and numbers it has, from any inputs and any state
\* its observed nets show the outputs of one clock cycle or, with flip-flops, the
\* state at the end of two, and each copy of a net its value in that cycle.
THEOREM EveryBuildObserves == Spec => []ObservesDesign
<1>1. BuildInv => ObservesDesign
  <2> SUFFICES ASSUME BuildInv, phase = "built" PROVE ObservesDesign
    BY DEF ObservesDesign
  <2> DEFINE ff == States(design)
             v(bits) == Values(circuit, Assigned(circuit.pi, bits, 0), <<>>)
             p(bits) == Assigned(design.pi, bits, 0)
             cycle1(bits) == Cycle(design, p(bits), Assigned(ff, bits, Len(design.pi)))
             cycle2(bits) == Cycle(design, p(bits), Captured(design, cycle1(bits)))
  <2>1. IsDesign(design)
    BY DesignsAssumption DEF BuildInv
  <2>2. PICK c : /\ Assembled(design, c, Pins(design), Moved(design, Pins(design)))
                 /\ IsBuiltFrom(design, c, circuit)
    BY DEF BuildInv
  <2>3. PICK r, b : Joined(c, r, b)
    BY <2>1, <2>2, AllJoined
  <2>4. FlipFlops(c) = ff
    BY <2>1, <2>2, BranchesAside
  <2>5. ASSUME NEW bits, ff = <<>>
        PROVE  \A i \in DOMAIN design.po : v(bits)[circuit.observed[i]] = cycle1(bits)[design.po[i]]
    <3>1. circuit = StuckAtCircuit(c)
      BY <2>2, <2>4, <2>5 DEF IsBuiltFrom
    <3>2. States(design) = <<>>
      BY <2>5
    <3>3. Assembled(design, c, Pins(design), Moved(design, Pins(design)))
      BY <2>2
    <3>4. ShowsOutputs(design, StuckAtCircuit(c), bits)
      <4> HIDE DEF ff, v, p, cycle1, cycle2
      <4> QED BY <2>1, <3>2, <3>3, OutputsObserved
    <3>5. ShowsOutputs(design, circuit, bits)
      BY <3>1, <3>4
    <3> QED BY <3>5 DEF ShowsOutputs
  <2>6. ASSUME NEW bits, ff # <<>>
        PROVE  /\ \A i \in DOMAIN ff : v(bits)[circuit.observed[i]] = Captured(design, cycle2(bits))[ff[i]]
               /\ \A n \in Named(design) : /\ v(bits)[Frame1(Unconnected(design), n)] = cycle1(bits)[n]
                                           /\ v(bits)[Frame2(Unconnected(design), n)] = cycle2(bits)[n]
    <3>1. circuit = Expanded(c)
      BY <2>2, <2>4, <2>6 DEF IsBuiltFrom
    <3>2. Assembled(design, c, Pins(design), Moved(design, Pins(design)))
      BY <2>2
    <3>3. ShowsCycles(design, Expanded(c), bits)
      <4> HIDE DEF ff, v, p, cycle1, cycle2
      <4> QED BY <2>1, <2>3, <3>2, CyclesObserved
    <3>4. ShowsCycles(design, circuit, bits)
      BY <3>1, <3>3
    <3> QED BY <3>4 DEF ShowsCycles
  <2> HIDE DEF v, cycle1, cycle2, ff
  <2>7. ASSUME NEW bits
        PROVE  IF ff = <<>>
               THEN [i \in DOMAIN design.po |-> v(bits)[circuit.observed[i]]]
                    = [i \in DOMAIN design.po |-> cycle1(bits)[design.po[i]]]
               ELSE /\ [i \in DOMAIN ff |-> v(bits)[circuit.observed[i]]]
                       = [i \in DOMAIN ff |-> Captured(design, cycle2(bits))[ff[i]]]
                    /\ \A n \in Named(design) : /\ v(bits)[Frame1(Unconnected(design), n)] = cycle1(bits)[n]
                                                /\ v(bits)[Frame2(Unconnected(design), n)] = cycle2(bits)[n]
    BY <2>5, <2>6
  <2> QED BY <2>7 DEF ObservesDesign, v, p, cycle1, cycle2, ff, Named
<1> QED BY <1>1, BuildInvariant, PTL
=============================================================================
