---------------------------- MODULE CircuitProofs ----------------------------
(***************************************************************************)
(* Facts about circuits that the proofs of several components cite.        *)
(***************************************************************************)
EXTENDS Circuit, FiniteSetTheorems, WellFoundedInduction, TLAPS

\* The least number principle, from the well-foundedness of strict inclusion
\* between the finite sets 0 .. x.
LEMMA LeastNumber ==
  ASSUME NEW T, T \subseteq Nat, T # {}
  PROVE  \E x \in T : \A y \in T : x <= y
<1> DEFINE R == StrictSubsetOrdering(Nat)
           F == FiniteSubsetsOf(Nat)
           G == {0 .. x : x \in T}
<1>1. IsWellFoundedOn(R, F)
  BY FS_StrictSubsetOrderingWellFounded
<1>2. G \subseteq F
  <2> SUFFICES ASSUME NEW x \in T PROVE 0 .. x \in FiniteSubsetsOf(Nat)
    OBVIOUS
  <2>1. IsFiniteSet(0 .. x)
    BY FS_Interval
  <2> QED BY <2>1 DEF FiniteSubsetsOf
<1>3. G # {}
  OBVIOUS
<1>4. PICK g \in G : \A h \in G : ~ (<<h, g>> \in R)
  <2> HIDE DEF R, F, G
  <2> QED BY <1>1, <1>2, <1>3, WFMin
<1>5. PICK x \in T : g = 0 .. x
  BY <1>4
<1>6. ASSUME NEW y \in T, y < x PROVE FALSE
  <2>1. 0 .. y \subseteq 0 .. x /\ x \in 0 .. x /\ x \notin 0 .. y
    BY <1>6
  <2>2. 0 .. y \in SUBSET Nat /\ 0 .. x \in SUBSET Nat
    OBVIOUS
  <2>3. <<0 .. y, 0 .. x>> \in R
    BY <2>1, <2>2 DEF StrictSubsetOrdering
  <2> QED BY <1>4, <1>5, <2>3
<1> QED BY <1>6

\* Every nonempty set of nets has one of the lowest level.
LEMMA LowestNet ==
  ASSUME NEW c, c.level \in [Nets(c) -> Nat], NEW S, S \subseteq Nets(c), S # {}
  PROVE  \E n \in S : \A m \in S : c.level[n] <= c.level[m]
<1> DEFINE T == {c.level[n] : n \in S}
<1>1. T \subseteq Nat /\ T # {}
  OBVIOUS
<1>2. PICK x \in T : \A y \in T : x <= y
  <2> HIDE DEF T
  <2> QED BY <1>1, LeastNumber
<1>3. PICK n \in S : x = c.level[n]
  BY <1>2
<1> QED BY <1>2, <1>3

\* Positions number the elements of a set from 1, without gaps or repeats.
LEMMA Positions ==
  ASSUME NEW S, IsFiniteSet(S), S \subseteq Nat
  PROVE  /\ Cardinality(S) \in Nat
         /\ \A n \in S : Position(n, S) \in 1 .. Cardinality(S)
         /\ \A n, k \in S : Position(n, S) = Position(k, S) => n = k
<1> DEFINE Upto(n) == {m \in S : m <= n}
<1>1. ASSUME NEW n \in S
      PROVE  /\ IsFiniteSet(Upto(n)) /\ Cardinality(Upto(n)) \in Nat
             /\ Position(n, S) = Cardinality(Upto(n))
  <2>1. IsFiniteSet(Upto(n))
    BY FS_Subset
  <2> QED BY <2>1, FS_CardinalityType DEF Position
<1>2. Cardinality(S) \in Nat
  BY FS_CardinalityType
<1>3. ASSUME NEW n \in S PROVE Position(n, S) \in 1 .. Cardinality(S)
  <2>1. n \in Upto(n) /\ Upto(n) \subseteq S
    OBVIOUS
  <2> HIDE DEF Upto
  <2>2. Cardinality(Upto(n)) <= Cardinality(S)
    BY <2>1, FS_Subset
  <2>3. Cardinality(Upto(n)) # 0
    BY <1>1, <2>1, FS_EmptySet
  <2> QED BY <1>1, <1>2, <2>2, <2>3
<1>4. ASSUME NEW n \in S, NEW k \in S, n < k PROVE Position(n, S) # Position(k, S)
  <2>1. Upto(n) \subseteq Upto(k) /\ k \in Upto(k) /\ k \notin Upto(n)
    <3>1. n \in Nat /\ k \in Nat /\ \A m \in S : m \in Nat
      OBVIOUS
    <3>2. \A m \in S : m <= n => m <= k
      BY <1>4, <3>1
    <3>3. ~ (k <= n)
      BY <1>4, <3>1
    <3>4. Upto(n) \subseteq Upto(k)
      BY <3>2
    <3>5. k <= k
      BY <3>1
    <3> QED BY <3>3, <3>4, <3>5
  <2> HIDE DEF Upto
  <2> QED BY <1>1, <2>1, FS_Subset
<1>5. \A n, k \in S : n = k \/ n < k \/ k < n
  OBVIOUS
<1> QED BY <1>2, <1>3, <1>4, <1>5

\* Every position is taken.
LEMMA PositionsTaken ==
  ASSUME NEW S, IsFiniteSet(S), S \subseteq Nat, NEW i \in 1 .. Cardinality(S)
  PROVE  \E n \in S : Position(n, S) = i
<1> DEFINE f == [n \in S |-> Position(n, S)]
           T == {f[n] : n \in S}
           P == 1 .. Cardinality(S)
<1>1. /\ Cardinality(S) \in Nat
      /\ \A n \in S : Position(n, S) \in P
      /\ \A n, k \in S : Position(n, S) = Position(k, S) => n = k
  BY Positions
<1>2. f \in [S -> T] /\ \A n, k \in S : f[n] = f[k] => n = k
  BY <1>1
<1>3. T \subseteq P
  BY <1>1
<1>4. IsFiniteSet(P) /\ Cardinality(P) = Cardinality(S)
  BY <1>1, FS_Interval
<1>5. \A t \in T : \E n \in S : t = f[n]
  OBVIOUS
<1> HIDE DEF f, T, P
<1>6. IsFiniteSet(T) /\ Cardinality(T) <= Cardinality(P)
  BY <1>3, <1>4, FS_Subset
<1>7. f \in Injection(S, T)
  BY <1>2 DEF Injection, IsInjective
<1>8. Cardinality(S) <= Cardinality(T)
  BY <1>6, <1>7, FS_Injection
<1>9. Cardinality(T) \in Nat
  BY <1>6, FS_CardinalityType
<1>10. Cardinality(T) = Cardinality(P)
  BY <1>1, <1>4, <1>6, <1>8, <1>9
<1>11. T = P
  BY <1>3, <1>4, <1>10, FS_Subset
<1>12. i \in T
  BY <1>11 DEF P
<1> QED BY <1>5, <1>12 DEF f

\* A gate other than an input has inputs, and the first is one of them.
LEMMA FirstInput ==
  ASSUME NEW c, WellFormed(c), NEW n \in Nets(c), c.type[n] # "IN"
  PROVE  c.in[n][1] \in Inputs(c, n)
<1>1. c.in[n] \in Seq(Nets(c)) /\ c.in[n] # <<>>
  BY DEF WellFormed
<1>2. 1 \in DOMAIN c.in[n]
  BY <1>1
<1> QED BY <1>2 DEF Inputs

\* A gate's output depends on its inputs only.
LEMMA EvalDepends ==
  ASSUME NEW c, WellFormed(c), NEW n \in Nets(c), c.type[n] # "IN",
         NEW v, NEW w, \A m \in Inputs(c, n) : v[m] = w[m]
  PROVE  Eval(c, v, n) = Eval(c, w, n)
<1>1. v[c.in[n][1]] = w[c.in[n][1]]
  BY FirstInput
<1>2. c.type[n] \in {"EXOR", "EXNOR"} => v[c.in[n][2]] = w[c.in[n][2]]
  <2> SUFFICES ASSUME c.type[n] \in {"EXOR", "EXNOR"} PROVE c.in[n][2] \in Inputs(c, n)
    OBVIOUS
  <2>1. c.in[n] \in Seq(Nets(c)) /\ Len(c.in[n]) = 2
    BY DEF WellFormed
  <2>2. 2 \in DOMAIN c.in[n]
    BY <2>1
  <2> QED BY <2>2 DEF Inputs
<1>3. CASE c.type[n] \in Controllable
  BY <1>3 DEF Eval, Controllable
<1>4. CASE c.type[n] \in {"EXOR", "EXNOR"}
  BY <1>1, <1>2, <1>4 DEF Eval, Controllable
<1>5. CASE c.type[n] \notin Controllable \union {"EXOR", "EXNOR"}
  BY <1>1, <1>5 DEF Eval, Controllable
<1> QED BY <1>3, <1>4, <1>5

\* If a gate of a kind with a controlling value tells two valuations apart, its
\* inputs on which they agree have the other value.
LEMMA NonControllingWhereEqual ==
  ASSUME NEW c, NEW n, c.type[n] \in Controllable,
         NEW v, NEW w, Eval(c, v, n) # Eval(c, w, n),
         NEW m \in Inputs(c, n), v[m] = w[m]
  PROVE  v[m] = NonControlling(c.type[n])
BY DEF Eval, Controllable

\* The two outputs of such a gate are different.
LEMMA UncontrolledBit ==
  ASSUME NEW type
  PROVE  Uncontrolled(type) \in Bits /\ NonControlling(type) \in Bits
BY DEF Uncontrolled, NonControlling, Bits

\* A gate's value is a bit.
LEMMA EvalBit ==
  ASSUME NEW c, WellFormed(c), NEW n \in Nets(c), c.type[n] # "IN",
         NEW v, \A m \in Inputs(c, n) : v[m] \in Bits
  PROVE  Eval(c, v, n) \in Bits
<1>1. c.type[n] \in Controllable => Eval(c, v, n) \in Bits
  <2>1. Uncontrolled(c.type[n]) \in {0, 1}
    BY UncontrolledBit DEF Bits
  <2> QED BY <2>1 DEF Eval, Bits, Controllable
<1>2. v[c.in[n][1]] \in Bits
  BY FirstInput
<1>3. c.type[n] \notin Controllable => Eval(c, v, n) \in Bits
  BY <1>2 DEF Eval, Bits, Controllable
<1> QED BY <1>1, <1>3

\* The nets at both ends of an edge, and their levels.
LEMMA Edges ==
  ASSUME NEW c, WellFormed(c), NEW n \in Nets(c)
  PROVE  /\ \A m \in Inputs(c, n) : m \in Nets(c) /\ n \in Outputs(c, m) /\ c.level[m] < c.level[n]
         /\ \A m \in Outputs(c, n) : m \in Nets(c) /\ n \in Inputs(c, m) /\ c.level[n] < c.level[m]
                                   /\ c.type[m] # "IN"
<1>1. Inputs(c, n) \subseteq Nets(c)
  <2>1. c.in[n] \in Seq(Nets(c))
    BY DEF WellFormed
  <2> QED BY <2>1 DEF Inputs
<1>2. Outputs(c, n) \subseteq Nets(c)
  <2>1. c.out[n] \in Seq(Nets(c))
    BY DEF WellFormed
  <2> QED BY <2>1 DEF Outputs
<1>3. \A m \in Inputs(c, n) : n \in Outputs(c, m) /\ c.level[m] < c.level[n]
  BY <1>1 DEF WellFormed
<1>4. \A m \in Outputs(c, n) : n \in Inputs(c, m)
  BY <1>2 DEF WellFormed
<1>5. \A m \in Outputs(c, n) : c.level[n] < c.level[m]
  BY <1>2, <1>4 DEF WellFormed
<1>6. \A m \in Outputs(c, n) : c.type[m] # "IN"
  <2> SUFFICES ASSUME NEW m \in Outputs(c, n), c.type[m] = "IN" PROVE FALSE
    OBVIOUS
  <2>1. c.in[m] = <<>>
    BY <1>2 DEF WellFormed
  <2> QED BY <1>4, <2>1 DEF Inputs
<1> QED BY <1>1, <1>2, <1>3, <1>4, <1>5, <1>6

\* An input has no inputs of its own, any other net has some.
LEMMA HasInputs ==
  ASSUME NEW c, WellFormed(c), NEW n \in Nets(c)
  PROVE  c.type[n] = "IN" <=> Inputs(c, n) = {}
<1>1. c.type[n] = "IN" => Inputs(c, n) = {}
  <2>1. c.type[n] = "IN" => c.in[n] = <<>>
    BY DEF WellFormed
  <2> QED BY <2>1 DEF Inputs
<1>2. c.type[n] # "IN" => Inputs(c, n) # {}
  BY FirstInput
<1> QED BY <1>1, <1>2

\* A gate with one input reads that net.
LEMMA OneInput ==
  ASSUME NEW c, WellFormed(c), NEW n \in Nets(c), c.type[n] \in {"BUF", "FOUT", "INV"}
  PROVE  Inputs(c, n) = {c.in[n][1]}
<1>1. c.in[n] \in Seq(Nets(c)) /\ Len(c.in[n]) = 1
  BY DEF WellFormed
<1>2. DOMAIN c.in[n] = {1}
  BY <1>1
<1> QED BY <1>2 DEF Inputs

-----------------------------------------------------------------------------
(* The values that inputs give *)

\* Values are well defined: level by level, each net has the value of its equation.
LEMMA ValuesExist ==
  ASSUME NEW c, WellFormed(c), NEW p, NEW fixed
  PROVE  /\ Values(c, p, fixed) = [n \in Nets(c) |-> Values(c, p, fixed)[n]]
         /\ \A n \in Nets(c) :
              Values(c, p, fixed)[n] = IF n \in DOMAIN fixed THEN fixed[n]
                                       ELSE IF c.type[n] = "IN" THEN p[n]
                                       ELSE Eval(c, Values(c, p, fixed), n)
<1> DEFINE E(v, n) == IF n \in DOMAIN fixed THEN fixed[n] ELSE IF c.type[n] = "IN" THEN p[n] ELSE Eval(c, v, n)
           Upto(v, k) == \A n \in Nets(c) : c.level[n] < k => v[n] = E(v, n)
<1>1. c.level \in [Nets(c) -> Nat] /\ \A n \in Nets(c) : c.level[n] \in Nat
  BY DEF WellFormed
<1>2. ASSUME NEW n \in Nets(c), NEW v, NEW w, \A m \in Inputs(c, n) : v[m] = w[m]
      PROVE  E(v, n) = E(w, n)
  BY <1>2, EvalDepends
<1> HIDE DEF E
<1>3. ASSUME NEW k \in Nat, NEW v, NEW w, Upto(v, k), Upto(w, k)
      PROVE  \A n \in Nets(c) : c.level[n] < k => v[n] = w[n]
  <2> DEFINE S == {n \in Nets(c) : c.level[n] < k /\ v[n] # w[n]}
  <2> SUFFICES ASSUME S # {} PROVE FALSE
    OBVIOUS
  <2>1. PICK n \in S : \A m \in S : c.level[n] <= c.level[m]
    <3>1. S \subseteq Nets(c)
      OBVIOUS
    <3> HIDE DEF S
    <3> QED BY <1>1, <3>1, LowestNet
  <2>2. ASSUME NEW m \in Inputs(c, n) PROVE v[m] = w[m]
    <3>1. m \in Nets(c) /\ c.level[m] < c.level[n]
      BY Edges
    <3> QED BY <1>1, <2>1, <3>1
  <2>3. E(v, n) = E(w, n)
    BY <1>2, <2>2
  <2> QED BY <1>3, <2>3
<1>4. ASSUME NEW k \in Nat PROVE \E v : Upto(v, k)
  <2> DEFINE T == {j \in Nat : ~ \E v : Upto(v, j)}
  <2> SUFFICES ASSUME T # {} PROVE FALSE
    OBVIOUS
  <2>1. PICK j \in T : \A i \in T : j <= i
    <3>1. T \subseteq Nat
      OBVIOUS
    <3> HIDE DEF T
    <3> QED BY <3>1, LeastNumber
  <2>2. j # 0
    <3>1. \A n \in Nets(c) : ~ (c.level[n] < 0)
      BY <1>1
    <3>2. Upto(<<>>, 0)
      BY <3>1
    <3> QED BY <3>2
  <2>3. j - 1 \in Nat /\ j - 1 \notin T
    BY <2>1, <2>2
  <2>4. PICK v : Upto(v, j - 1)
    BY <2>3
  <2> DEFINE w == [n \in Nets(c) |-> E(v, n)]
  <2>5. ASSUME NEW n \in Nets(c), c.level[n] < j PROVE w[n] = E(w, n)
    <3>1. ASSUME NEW m \in Inputs(c, n) PROVE v[m] = w[m]
      <4>1. m \in Nets(c) /\ c.level[m] < c.level[n]
        BY Edges
      <4>2. c.level[m] < j - 1
        BY <1>1, <2>5, <4>1
      <4> QED BY <2>4, <4>1, <4>2
    <3>2. E(v, n) = E(w, n)
      <4> HIDE DEF w
      <4> QED BY <1>2, <3>1
    <3> QED BY <3>2
  <2>6. Upto(w, j)
    <3> HIDE DEF w
    <3> QED BY <2>5
  <2> QED BY <2>1, <2>6
<1> DEFINE V(k) == CHOOSE v : Upto(v, k)
           W == [n \in Nets(c) |-> V(c.level[n] + 1)[n]]
<1>5. \A k \in Nat : Upto(V(k), k)
  <2> HIDE DEF Upto
  <2> QED BY <1>4
<1> HIDE DEF V
<1>6. ASSUME NEW n \in Nets(c) PROVE W[n] = E(W, n)
  <2> DEFINE k == c.level[n] + 1
  <2>1. k \in Nat /\ c.level[n] < k
    BY <1>1
  <2>2. V(k)[n] = E(V(k), n)
    BY <1>5, <2>1
  <2>3. ASSUME NEW m \in Inputs(c, n) PROVE V(k)[m] = W[m]
    <3>1. m \in Nets(c) /\ c.level[m] < c.level[n]
      BY Edges
    <3>2. c.level[m] + 1 \in Nat /\ c.level[m] < c.level[m] + 1 /\ c.level[m] + 1 <= k
      BY <1>1, <3>1
    <3>3. Upto(V(k), c.level[m] + 1)
      <4>1. \A i \in Nets(c) : c.level[i] < c.level[m] + 1 => c.level[i] < k
        BY <1>1, <2>1, <3>2
      <4> QED BY <1>5, <2>1, <4>1
    <3>4. V(k)[m] = V(c.level[m] + 1)[m]
      BY <1>3, <1>5, <3>1, <3>2, <3>3
    <3> QED BY <3>1, <3>4
  <2>4. E(V(k), n) = E(W, n)
    <3> HIDE DEF W, k
    <3> QED BY <1>2, <2>3
  <2> QED BY <2>2, <2>4
<1>7. W = [n \in Nets(c) |-> E(W, n)]
  BY <1>6
<1>8. Values(c, p, fixed) = CHOOSE v : v = [n \in Nets(c) |-> E(v, n)]
  BY DEF Values, E
<1>9. Values(c, p, fixed) = [n \in Nets(c) |-> E(Values(c, p, fixed), n)]
  <2> HIDE DEF W
  <2> QED BY <1>7, <1>8
<1>10. \A n \in Nets(c) : Values(c, p, fixed)[n] = E(Values(c, p, fixed), n)
  BY <1>9
<1>11. Values(c, p, fixed) = [n \in Nets(c) |-> Values(c, p, fixed)[n]]
  BY <1>9, <1>10
<1> QED BY <1>10, <1>11 DEF E

\* The good values follow from the inputs, the faulty ones from the fault too.
LEMMA GoodAndFaulty ==
  ASSUME NEW c, WellFormed(c), NEW p, NEW s, NEW u
  PROVE  /\ Values(c, p, <<>>) = [n \in Nets(c) |-> Values(c, p, <<>>)[n]]
         /\ Values(c, p, Stuck(s, u)) = [n \in Nets(c) |-> Values(c, p, Stuck(s, u))[n]]
         /\ \A n \in Nets(c) :
              Values(c, p, <<>>)[n] = IF c.type[n] = "IN" THEN p[n] ELSE Eval(c, Values(c, p, <<>>), n)
         /\ \A n \in Nets(c) :
              Values(c, p, Stuck(s, u))[n] =
                IF n = s THEN u ELSE IF c.type[n] = "IN" THEN p[n] ELSE Eval(c, Values(c, p, Stuck(s, u)), n)
<1>1. DOMAIN <<>> = {} /\ DOMAIN Stuck(s, u) = {s} /\ Stuck(s, u)[s] = u
  BY DEF Stuck
<1>2. /\ Values(c, p, <<>>) = [n \in Nets(c) |-> Values(c, p, <<>>)[n]]
      /\ \A n \in Nets(c) :
           Values(c, p, <<>>)[n] = IF n \in DOMAIN <<>> THEN <<>>[n]
                                   ELSE IF c.type[n] = "IN" THEN p[n] ELSE Eval(c, Values(c, p, <<>>), n)
  BY ValuesExist
<1> DEFINE w == Stuck(s, u)
<1>3. /\ Values(c, p, w) = [n \in Nets(c) |-> Values(c, p, w)[n]]
      /\ \A n \in Nets(c) :
           Values(c, p, w)[n] = IF n \in DOMAIN w THEN w[n]
                                ELSE IF c.type[n] = "IN" THEN p[n] ELSE Eval(c, Values(c, p, w), n)
  <2> HIDE DEF w
  <2> QED BY ValuesExist
<1> QED BY <1>1, <1>2, <1>3

\* Nets that are not above the fixed net, and all nets if it is fixed at the
\* value that it has anyway, keep their values.
LEMMA Unaffected ==
  ASSUME NEW c, WellFormed(c), NEW p, NEW s \in Nets(c), NEW u, NEW n \in Nets(c),
         c.level[n] < c.level[s] \/ Values(c, p, <<>>)[s] = u
  PROVE  Values(c, p, Stuck(s, u))[n] = Values(c, p, <<>>)[n]
<1> DEFINE g == Values(c, p, <<>>)
           f == Values(c, p, Stuck(s, u))
           S == {m \in Nets(c) : f[m] # g[m] /\ (c.level[m] < c.level[s] \/ g[s] = u)}
<1>1. /\ \A m \in Nets(c) : g[m] = IF c.type[m] = "IN" THEN p[m] ELSE Eval(c, g, m)
      /\ \A m \in Nets(c) : f[m] = IF m = s THEN u ELSE IF c.type[m] = "IN" THEN p[m] ELSE Eval(c, f, m)
  BY GoodAndFaulty
<1> HIDE DEF f, g
<1>2. c.level \in [Nets(c) -> Nat] /\ \A m \in Nets(c) : c.level[m] \in Nat
  BY DEF WellFormed
<1>3. SUFFICES ASSUME S # {} PROVE FALSE
  BY DEF f, g
<1>4. PICK m \in S : \A k \in S : c.level[m] <= c.level[k]
  <2>1. S \subseteq Nets(c)
    OBVIOUS
  <2> HIDE DEF S
  <2> QED BY <1>2, <1>3, <2>1, LowestNet
<1>5. m # s /\ c.type[m] # "IN"
  BY <1>1, <1>2, <1>4
<1>6. \A k \in Inputs(c, m) : f[k] = g[k]
  <2> SUFFICES ASSUME NEW k \in Inputs(c, m) PROVE f[k] = g[k]
    OBVIOUS
  <2>1. k \in Nets(c) /\ c.level[k] < c.level[m]
    BY Edges
  <2>2. c.level[k] < c.level[s] \/ g[s] = u
    BY <1>2, <1>4, <2>1
  <2> QED BY <1>2, <1>4, <2>1, <2>2
<1>7. Eval(c, f, m) = Eval(c, g, m)
  BY <1>5, <1>6, EvalDepends
<1> QED BY <1>1, <1>4, <1>5, <1>7
=============================================================================
