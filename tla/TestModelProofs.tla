--------------------------- MODULE TestModelProofs ---------------------------
(***************************************************************************)
(* On every well-formed circuit, for every fault and whatever faults were  *)
(* handled before: the models of the clauses are exactly the tests, and    *)
(* the simulation of a model gives the values of the circuit.              *)
(*                                                                         *)
(* Level by level, the clauses of the good circuit make the variables of   *)
(* the scope the good values of the input pattern, and those of the faulty *)
(* circuit the faulty ones, because a net the fault cannot reach has the   *)
(* same value in both; the comparator and the excitation are then what     *)
(* makes a test.  Conversely a test's values satisfy every clause, with    *)
(* the propagation chain true along one path of differing nets.            *)
(***************************************************************************)
EXTENDS TestModel, CircuitProofs

-----------------------------------------------------------------------------
(* Cones: what a net leads to, or depends on *)

\* Every nonempty set has an element of the lowest rank.
LEMMA LowestRank ==
  ASSUME NEW N, NEW rank \in [N -> Nat], NEW S, S \subseteq N, S # {}
  PROVE  \E n \in S : \A m \in S : rank[n] <= rank[m]
<1> DEFINE T == {rank[n] : n \in S}
<1>1. T \subseteq Nat /\ T # {}
  OBVIOUS
<1>2. PICK x \in T : \A y \in T : x <= y
  <2> HIDE DEF T
  <2> QED BY <1>1, LeastNumber
<1>3. PICK n \in S : x = rank[n]
  BY <1>2
<1> QED BY <1>2, <1>3

IsCone(cone, N, edges) == cone = [n \in N |-> {n} \union UNION {cone[m] : m \in edges[n]}]

\* The recursion along edges that lower the rank has a solution.
LEMMA ConesExist ==
  ASSUME NEW N, NEW rank \in [N -> Nat], NEW edges \in [N -> SUBSET N],
         \A n \in N : \A m \in edges[n] : rank[m] < rank[n]
  PROVE  \E cone : IsCone(cone, N, edges)
<1> DEFINE E(v, n) == {n} \union UNION {v[m] : m \in edges[n]}
           Upto(v, k) == \A n \in N : rank[n] < k => v[n] = E(v, n)
<1>1. \A n \in N : rank[n] \in Nat /\ \A m \in edges[n] : m \in N /\ rank[m] \in Nat /\ rank[m] < rank[n]
  OBVIOUS
<1>2. ASSUME NEW n \in N, NEW v, NEW w, \A m \in edges[n] : v[m] = w[m]
      PROVE  E(v, n) = E(w, n)
  BY <1>2
<1> HIDE DEF E
<1>3. ASSUME NEW k \in Nat, NEW v, NEW w, Upto(v, k), Upto(w, k)
      PROVE  \A n \in N : rank[n] < k => v[n] = w[n]
  <2> DEFINE S == {n \in N : rank[n] < k /\ v[n] # w[n]}
  <2> SUFFICES ASSUME S # {} PROVE FALSE
    OBVIOUS
  <2>1. PICK n \in S : \A m \in S : rank[n] <= rank[m]
    <3>1. S \subseteq N
      OBVIOUS
    <3> HIDE DEF S
    <3> QED BY <3>1, LowestRank
  <2>2. ASSUME NEW m \in edges[n] PROVE v[m] = w[m]
    BY <1>1, <2>1
  <2>3. E(v, n) = E(w, n)
    BY <1>2, <2>2
  <2> QED BY <1>3, <2>3
<1>4. ASSUME NEW k \in Nat PROVE \E v : Upto(v, k)
  <2> DEFINE T == {j \in Nat : ~ \E v : Upto(v, j)}
  <2> SUFFICES ASSUME T # {} PROVE FALSE
    OBVIOUS
  <2>1. PICK j \in T : \A i \in T : j <= i
    <3>1. T \subseteq Nat
      OBVIOUS
    <3> HIDE DEF T
    <3> QED BY <3>1, LeastNumber
  <2>2. j # 0
    <3>1. Upto(<<>>, 0)
      BY <1>1
    <3> QED BY <3>1
  <2>3. j - 1 \in Nat /\ j - 1 \notin T
    BY <2>1, <2>2
  <2>4. PICK v : Upto(v, j - 1)
    BY <2>3
  <2> DEFINE w == [n \in N |-> E(v, n)]
  <2>5. ASSUME NEW n \in N, rank[n] < j PROVE w[n] = E(w, n)
    <3>1. ASSUME NEW m \in edges[n] PROVE v[m] = w[m]
      <4>1. m \in N /\ rank[m] < j - 1
        BY <1>1, <2>5
      <4> QED BY <2>4, <4>1
    <3>2. E(v, n) = E(w, n)
      <4> HIDE DEF w
      <4> QED BY <1>2, <3>1
    <3> QED BY <3>2
  <2>6. Upto(w, j)
    <3> HIDE DEF w
    <3> QED BY <2>5
  <2> QED BY <2>1, <2>6
<1> DEFINE V(k) == CHOOSE v : Upto(v, k)
           W == [n \in N |-> V(rank[n] + 1)[n]]
<1>5. \A k \in Nat : Upto(V(k), k)
  <2> HIDE DEF Upto
  <2> QED BY <1>4
<1> HIDE DEF V
<1>6. ASSUME NEW n \in N PROVE W[n] = E(W, n)
  <2> DEFINE k == rank[n] + 1
  <2>1. k \in Nat /\ rank[n] < k
    BY <1>1
  <2>2. V(k)[n] = E(V(k), n)
    BY <1>5, <2>1
  <2>3. ASSUME NEW m \in edges[n] PROVE V(k)[m] = W[m]
    <3> DEFINE j == rank[m] + 1
    <3>1. m \in N /\ j \in Nat /\ j <= k /\ rank[m] < j
      BY <1>1
    <3>2. Upto(V(k), j) /\ Upto(V(j), j)
      BY <1>1, <1>5, <2>1, <3>1
    <3>3. V(k)[m] = V(j)[m]
      <4> HIDE DEF Upto, j, k
      <4> QED BY <1>3, <3>1, <3>2
    <3> QED BY <3>1, <3>3
  <2>4. E(V(k), n) = E(W, n)
    <3> HIDE DEF W
    <3> QED BY <1>2, <2>3
  <2> QED BY <2>2, <2>4
<1>7. W = [n \in N |-> E(W, n)]
  <2>1. W = [n \in N |-> W[n]]
    OBVIOUS
  <2> HIDE DEF W
  <2> QED BY <1>6, <2>1
<1> QED BY <1>7 DEF E, IsCone

\* A cone has its net, what follows every net of it, and nothing else.
LEMMA Cones ==
  ASSUME NEW N, NEW rank \in [N -> Nat], NEW edges \in [N -> SUBSET N],
         \A n \in N : \A m \in edges[n] : rank[m] < rank[n],
         NEW cone, IsCone(cone, N, edges)
  PROVE  \A n \in N : /\ n \in cone[n] /\ cone[n] \subseteq N
                      /\ \A k \in cone[n] : edges[k] \subseteq cone[n]
                      /\ \A k \in cone[n] : k = n \/ \E j \in cone[n] : k \in edges[j]
<1> DEFINE Good(n) == /\ n \in cone[n] /\ cone[n] \subseteq N
                      /\ \A k \in cone[n] : edges[k] \subseteq cone[n]
                      /\ \A k \in cone[n] : k = n \/ \E j \in cone[n] : k \in edges[j]
           S == {n \in N : ~ Good(n)}
<1> SUFFICES ASSUME S # {} PROVE FALSE
  OBVIOUS
<1>1. PICK n \in S : \A m \in S : rank[n] <= rank[m]
  <2>1. S \subseteq N
    OBVIOUS
  <2> HIDE DEF S
  <2> QED BY <2>1, LowestRank
<1>2. ASSUME NEW m \in edges[n] PROVE m \in N /\ Good(m)
  <2>1. m \in N /\ rank[m] \in Nat /\ rank[n] \in Nat /\ rank[m] < rank[n]
    OBVIOUS
  <2>2. m \notin S
    BY <1>1, <2>1
  <2> QED BY <2>1, <2>2
<1>3. cone[n] = {n} \union UNION {cone[m] : m \in edges[n]}
  BY DEF IsCone
<1>4. n \in cone[n] /\ cone[n] \subseteq N
  BY <1>2, <1>3
<1>5. ASSUME NEW k \in cone[n] PROVE edges[k] \subseteq cone[n]
  <2>1. CASE k = n
    BY <1>2, <1>3, <2>1
  <2>2. ASSUME NEW m \in edges[n], k \in cone[m] PROVE edges[k] \subseteq cone[n]
    BY <1>2, <1>3, <2>2
  <2> QED BY <1>3, <1>5, <2>1, <2>2
<1>6. ASSUME NEW k \in cone[n], k # n PROVE \E j \in cone[n] : k \in edges[j]
  <2>1. PICK m \in edges[n] : k \in cone[m]
    BY <1>3, <1>6
  <2>2. k = m \/ \E j \in cone[m] : k \in edges[j]
    BY <1>2, <2>1
  <2> QED BY <1>3, <1>4, <2>1, <2>2
<1> QED BY <1>4, <1>5, <1>6

\* Numbers of higher nets get fewer along the edges.
LEMMA HigherNets ==
  ASSUME NEW c, WellFormed(c)
  PROVE  \E rank \in [Nets(c) -> Nat] : \A n \in Nets(c) : \A m \in Outputs(c, n) : rank[m] < rank[n]
<1> DEFINE Higher(n) == {m \in Nets(c) : c.level[m] > c.level[n]}
           rank == [n \in Nets(c) |-> Cardinality(Higher(n))]
<1>1. IsFiniteSet(Nets(c)) /\ \A n \in Nets(c) : c.level[n] \in Nat
  BY DEF WellFormed
<1>2. ASSUME NEW n \in Nets(c) PROVE IsFiniteSet(Higher(n)) /\ Cardinality(Higher(n)) \in Nat
  <2>1. IsFiniteSet(Higher(n))
    BY <1>1, FS_Subset
  <2> QED BY <2>1, FS_CardinalityType
<1>3. ASSUME NEW n \in Nets(c), NEW m \in Outputs(c, n)
      PROVE  Cardinality(Higher(m)) < Cardinality(Higher(n))
  <2>1. m \in Nets(c) /\ c.level[n] < c.level[m]
    BY Edges
  <2>2. Higher(m) \subseteq Higher(n) /\ m \in Higher(n) /\ m \notin Higher(m)
    BY <1>1, <2>1
  <2>3. IsFiniteSet(Higher(n)) /\ Cardinality(Higher(n)) \in Nat /\ Cardinality(Higher(m)) \in Nat
    BY <1>2, <2>1
  <2> HIDE DEF Higher
  <2>4. Cardinality(Higher(m)) <= Cardinality(Higher(n))
    BY <2>2, <2>3, FS_Subset
  <2>5. Cardinality(Higher(m)) # Cardinality(Higher(n))
    BY <2>2, <2>3, FS_Subset
  <2> QED BY <2>3, <2>4, <2>5
<1>4. rank \in [Nets(c) -> Nat]
  BY <1>2
<1>5. ASSUME NEW n \in Nets(c), NEW m \in Outputs(c, n) PROVE rank[m] < rank[n]
  <2>1. m \in Nets(c)
    BY Edges
  <2> HIDE DEF Higher
  <2> QED BY <1>3, <2>1
<1> HIDE DEF rank
<1> QED BY <1>4, <1>5

\* What a fault can reach: its site, and nets that are no inputs, up to the outputs.
LEMMA Reached ==
  ASSUME WellFormed(circuit), NEW s \in Nets(circuit)
  PROVE  /\ s \in Reach(s) /\ Reach(s) \subseteq Nets(circuit)
         /\ \A n \in Reach(s) : Outputs(circuit, n) \subseteq Reach(s)
         /\ \A n \in Reach(s) \ {s} : /\ circuit.type[n] # "IN"
                                      /\ \E m \in Reach(s) : n \in Outputs(circuit, m)
<1> DEFINE N == Nets(circuit)
           edges == [n \in N |-> Outputs(circuit, n)]
           reached == CHOOSE v : v = [n \in N |-> {n} \union UNION {v[m] : m \in Outputs(circuit, n)}]
<1>1. edges \in [N -> SUBSET N]
  <2>1. \A n \in N : Outputs(circuit, n) \subseteq N
    BY Edges
  <2> QED BY <2>1
<1>2. PICK rank \in [N -> Nat] : \A n \in N : \A m \in edges[n] : rank[m] < rank[n]
  BY HigherNets
<1>3. \A v : IsCone(v, N, edges) <=>
        v = [n \in N |-> {n} \union UNION {v[m] : m \in Outputs(circuit, n)}]
  BY DEF IsCone
<1>4. IsCone(reached, N, edges)
  <2>1. \E v : IsCone(v, N, edges)
    <3> HIDE DEF edges, N
    <3> QED BY <1>1, <1>2, ConesExist
  <2> QED BY <1>3, <2>1
<1>5. /\ s \in reached[s] /\ reached[s] \subseteq N
      /\ \A k \in reached[s] : edges[k] \subseteq reached[s]
      /\ \A k \in reached[s] : k = s \/ \E j \in reached[s] : k \in edges[j]
  <2> HIDE DEF edges, N, reached
  <2>1. s \in N
    BY DEF N
  <2> QED BY <1>1, <1>2, <1>4, <2>1, Cones
<1>6. Reach(s) = reached[s]
  BY DEF Reach
<1> HIDE DEF reached
<1>7. /\ s \in Reach(s) /\ Reach(s) \subseteq Nets(circuit)
      /\ \A n \in Reach(s) : Outputs(circuit, n) \subseteq Reach(s)
  BY <1>5, <1>6
<1>8. \A k \in Reach(s) : k = s \/ \E j \in Reach(s) : k \in Outputs(circuit, j)
  BY <1>5, <1>6
<1>9. ASSUME NEW n \in Reach(s) \ {s} PROVE circuit.type[n] # "IN"
  BY <1>7, <1>8, Edges
<1> QED BY <1>7, <1>8, <1>9

\* What nets depend on: themselves, and all inputs of what they depend on.
LEMMA Supported ==
  ASSUME WellFormed(circuit), NEW nets \in SUBSET Nets(circuit)
  PROVE  /\ nets \subseteq Support(nets) /\ Support(nets) \subseteq Nets(circuit)
         /\ \A n \in Support(nets) : Inputs(circuit, n) \subseteq Support(nets)
         /\ \A more \in SUBSET nets : Support(more) \subseteq Support(nets)
<1> DEFINE N == Nets(circuit)
           edges == [n \in N |-> Inputs(circuit, n)]
           read == CHOOSE v : v = [n \in N |-> {n} \union UNION {v[m] : m \in Inputs(circuit, n)}]
<1>1. edges \in [N -> SUBSET N]
  <2>1. \A n \in N : Inputs(circuit, n) \subseteq N
    BY Edges
  <2> QED BY <2>1
<1>2. /\ circuit.level \in [N -> Nat]
      /\ \A n \in N : \A m \in edges[n] : circuit.level[m] < circuit.level[n]
  BY Edges DEF WellFormed
<1>3. \A v : IsCone(v, N, edges) <=> v = [n \in N |-> {n} \union UNION {v[m] : m \in Inputs(circuit, n)}]
  BY DEF IsCone
<1>4. IsCone(read, N, edges)
  <2>1. \E v : IsCone(v, N, edges)
    <3> HIDE DEF edges, N
    <3> QED BY <1>1, <1>2, ConesExist
  <2> QED BY <1>3, <2>1
<1>5. \A n \in N : /\ n \in read[n] /\ read[n] \subseteq N
                   /\ \A k \in read[n] : edges[k] \subseteq read[n]
  <2> HIDE DEF edges, N, read
  <2> QED BY <1>1, <1>2, <1>4, Cones
<1>6. \A set : Support(set) = UNION {read[n] : n \in set}
  BY DEF Support
<1> HIDE DEF read
<1>7. \A n \in Support(nets) : Inputs(circuit, n) \subseteq Support(nets)
  <2> SUFFICES ASSUME NEW n \in nets, NEW k \in read[n] PROVE Inputs(circuit, k) \subseteq read[n]
    BY <1>6
  <2>1. k \in N /\ edges[k] \subseteq read[n]
    BY <1>5
  <2> QED BY <2>1
<1>8. nets \subseteq Support(nets) /\ Support(nets) \subseteq Nets(circuit)
  BY <1>5, <1>6
<1>9. \A more \in SUBSET nets : Support(more) \subseteq Support(nets)
  BY <1>6
<1> QED BY <1>7, <1>8, <1>9

-----------------------------------------------------------------------------
(* Numbers of nets and variables *)

\* The variables of the good values: one per net, the first ones.
LEMMA GoodVariables ==
  ASSUME WellFormed(circuit), InputsListed(circuit)
  PROVE  /\ Constant \in Nat
         /\ \A n \in Nets(circuit) : varsgc[n] \in 1 .. Constant
         /\ \A n, k \in Nets(circuit) : varsgc[n] = varsgc[k] => n = k
<1> DEFINE N == Nets(circuit)
           I == InputNets
           R == N \ I
           L == Len(circuit.pi)
           At(n) == CHOOSE i \in DOMAIN circuit.pi : circuit.pi[i] = n
<1>1. /\ IsFiniteSet(N) /\ N \subseteq Nat
      /\ circuit.pi \in Seq(N) /\ L \in Nat /\ DOMAIN circuit.pi = 1 .. L
      /\ \A i, j \in DOMAIN circuit.pi : circuit.pi[i] = circuit.pi[j] => i = j
  BY DEF WellFormed, InputsListed
<1>2. I \subseteq N
  BY <1>1 DEF InputNets
<1>3. /\ IsFiniteSet(I) /\ Cardinality(I) \in Nat /\ IsFiniteSet(R) /\ Cardinality(R) \in Nat
      /\ Constant \in Nat /\ Constant = Cardinality(I) + Cardinality(R)
  <2>1. IsFiniteSet(I) /\ IsFiniteSet(R)
    BY <1>1, <1>2, FS_Subset
  <2>2. Cardinality(I) \in Nat /\ Cardinality(R) \in Nat /\ Cardinality(N) \in Nat
    BY <1>1, <2>1, FS_CardinalityType
  <2>3. Cardinality(R) = Cardinality(N) - Cardinality(N \intersect I)
    BY <1>1, FS_Difference
  <2>4. N \intersect I = I
    BY <1>2
  <2> HIDE DEF N, I, R
  <2>5. Constant = Cardinality(N)
    BY DEF Constant, N
  <2> QED BY <2>1, <2>2, <2>3, <2>4, <2>5
<1>4. L <= Cardinality(I)
  <2> DEFINE f == [i \in 1 .. L |-> circuit.pi[i]]
  <2>1. f \in [1 .. L -> I]
    BY <1>1 DEF InputNets
  <2>2. \A i, j \in 1 .. L : f[i] = f[j] => i = j
    BY <1>1
  <2> HIDE DEF f
  <2>3. f \in Injection(1 .. L, I)
    BY <2>1, <2>2 DEF Injection, IsInjective
  <2>4. Cardinality(1 .. L) = L
    BY <1>1, FS_Interval
  <2> QED BY <1>3, <2>3, <2>4, FS_Injection
<1>5. ASSUME NEW n \in I PROVE varsgc[n] \in 1 .. L /\ circuit.pi[varsgc[n]] = n
  <2>1. varsgc[n] = At(n)
    BY <1>2 DEF varsgc
  <2>2. \E i \in DOMAIN circuit.pi : circuit.pi[i] = n
    BY DEF InputNets
  <2>3. At(n) \in DOMAIN circuit.pi /\ circuit.pi[At(n)] = n
    BY <2>2
  <2> HIDE DEF At
  <2> QED BY <1>1, <2>1, <2>3
<1>6. /\ \A n \in R : Position(n, R) \in 1 .. Cardinality(R)
      /\ \A n, k \in R : Position(n, R) = Position(k, R) => n = k
  <2>1. R \subseteq Nat
    BY <1>1
  <2> HIDE DEF R
  <2> QED BY <1>3, <2>1, Positions
<1>7. \A n \in R : varsgc[n] = L + Position(n, R)
  BY DEF varsgc
<1> HIDE DEF L
<1>8. ASSUME NEW n \in N PROVE varsgc[n] \in 1 .. Constant
  <2>1. CASE n \in I
    BY <1>1, <1>3, <1>4, <1>5, <2>1
  <2>2. CASE n \in R
    <3>1. Position(n, R) \in 1 .. Cardinality(R) /\ varsgc[n] = L + Position(n, R)
      BY <1>6, <1>7, <2>2
    <3> HIDE DEF R, I
    <3> QED BY <1>1, <1>3, <1>4, <3>1
  <2> QED BY <2>1, <2>2
<1>9. ASSUME NEW n \in N, NEW k \in N, varsgc[n] = varsgc[k] PROVE n = k
  <2>1. CASE n \in I /\ k \in I
    BY <1>5, <1>9, <2>1
  <2>2. ASSUME NEW x \in I, NEW y \in R PROVE varsgc[x] # varsgc[y]
    <3>1. varsgc[x] \in 1 .. L
      BY <1>5
    <3>2. Position(y, R) \in 1 .. Cardinality(R) /\ varsgc[y] = L + Position(y, R)
      BY <1>6, <1>7
    <3> HIDE DEF R, I
    <3> QED BY <1>1, <1>3, <3>1, <3>2
  <2>3. CASE n \in R /\ k \in R
    <3>1. L + Position(n, R) = L + Position(k, R)
      BY <1>7, <1>9, <2>3
    <3>2. Position(n, R) \in 1 .. Cardinality(R) /\ Position(k, R) \in 1 .. Cardinality(R)
      BY <1>6, <2>3
    <3>3. Position(n, R) = Position(k, R)
      <4> HIDE DEF R
      <4> QED BY <1>1, <1>3, <3>1, <3>2
    <3> QED BY <1>6, <2>3, <3>3
  <2> QED BY <1>9, <2>1, <2>2, <2>3
<1> QED BY <1>3, <1>8, <1>9

-----------------------------------------------------------------------------
(* Models *)

\* The literals of the variables up to a number.
Literals(last) == {l \in Int : Variable(l) \in 1 .. last}

Satisfied(a, clause) == \E l \in clause : Holds(a, l)

\* A nonempty set of variables has a last one.
LEMMA LastOf ==
  ASSUME NEW last \in Nat, NEW given, given \subseteq 1 .. last, given # {}
  PROVE  \E x \in given : \A y \in given : y <= x
<1> DEFINE T == {last - x : x \in given}
<1>0. \A x \in given : x \in Nat /\ last - x \in Nat
  OBVIOUS
<1>1. T \subseteq Nat /\ T # {}
  BY <1>0
<1>2. PICK k \in T : \A j \in T : k <= j
  <2> HIDE DEF T
  <2> QED BY <1>1, LeastNumber
<1>3. PICK x \in given : k = last - x
  BY <1>2
<1>4. \A y \in given : last - x <= last - y
  BY <1>2, <1>3
<1> QED BY <1>0, <1>4

\* The search for models finds all values of the variables that satisfy every
\* clause, and nothing else.
LEMMA ModelsFound ==
  ASSUME NEW last \in Nat, clauses \subseteq SUBSET Literals(last), Variables \subseteq 1 .. last
  PROVE  Models = {a \in [Variables -> Bits] : \A clause \in clauses : Satisfied(a, clause)}
<1> DEFINE V == Variables
           Latest(given) == CHOOSE x \in given : \A y \in given : y <= x
           Extend(a, given, x, v) == [y \in given |-> IF y = x THEN v ELSE a[y]]
           Possible(a, given, x) ==
             \A clause \in clauses : x \in clause \/ -x \in clause =>
               \E l \in clause : Variable(l) \in given => Holds(a, l)
           Extended(set, given, x) ==
             {a \in {Extend(b, given, x, v) : b \in set, v \in Bits} : Possible(a, given, x)}
           F(m, given) ==
             IF given = {} THEN [given -> Bits]
             ELSE Extended(m[given \ {Latest(given)}], given, Latest(given))
           models == CHOOSE m : m = [given \in SUBSET V |-> F(m, given)]
           Open(a, given, clause) == \E l \in clause : Variable(l) \in given => Holds(a, l)
           All(given) == {a \in [given -> Bits] : \A clause \in clauses : Open(a, given, clause)}
           found == [given \in SUBSET V |-> All(given)]
<1> SUFFICES {} \notin clauses =>
               Models = {a \in [V -> Bits] : \A clause \in clauses : Satisfied(a, clause)}
  <2>1. CASE {} \in clauses
    <3>1. Models = {}
      BY <2>1 DEF Models
    <3>2. \A a : ~ Satisfied(a, {})
      BY DEF Satisfied
    <3> QED BY <2>1, <3>1, <3>2
  <2> QED BY <2>1
<1> HAVE {} \notin clauses
<1>1. Models = models[V]
  BY DEF Models
<1>2. \A l \in Literals(last) : /\ l \in Int /\ l # 0 /\ Variable(l) \in 1 .. last
                                /\ \A x \in 1 .. last : Variable(l) = x => l = x \/ l = -x
  BY DEF Literals, Variable
<1>3. \A given \in SUBSET V : given # {} => Latest(given) \in given
  <2> TAKE given \in SUBSET V
  <2> HAVE given # {}
  <2>1. \E x \in given : \A y \in given : y <= x
    BY LastOf
  <2> QED BY <2>1
<1> HIDE DEF Latest
<1>4. ASSUME NEW given \in SUBSET V, NEW m,
             given # {} => m[given \ {Latest(given)}] = All(given \ {Latest(given)})
      PROVE  F(m, given) = All(given)
  <2>1. CASE given = {}
    <3>1. \A a : \A clause \in clauses : Open(a, given, clause)
      BY <2>1
    <3>2. All(given) = [given -> Bits]
      <4> HIDE DEF Open
      <4> QED BY <3>1
    <3> QED BY <2>1, <3>2
  <2>2. CASE given # {}
    <3> DEFINE x == Latest(given)
               rest == given \ {x}
    <3>1. x \in given /\ x \in 1 .. last
      BY <1>3, <2>2
    <3> HIDE DEF x
    <3>2. F(m, given) = Extended(All(rest), given, x)
      <4>1. m[rest] = All(rest)
        BY <1>4, <2>2 DEF x
      <4> HIDE DEF All, Extended
      <4>2. F(m, given) = Extended(m[rest], given, x)
        BY <2>2 DEF x
      <4> QED BY <4>1, <4>2
    <3>3. ASSUME NEW b \in All(rest), NEW v \in Bits, Possible(Extend(b, given, x, v), given, x)
          PROVE  Extend(b, given, x, v) \in All(given)
      <4> DEFINE a == Extend(b, given, x, v)
      <4>1. a \in [given -> Bits] /\ \A y \in rest : a[y] = b[y]
        BY <3>1
      <4> HIDE DEF a
      <4>2. ASSUME NEW clause \in clauses PROVE Open(a, given, clause)
        <5>1. CASE x \in clause \/ -x \in clause
          BY <3>3, <5>1 DEF a
        <5>2. CASE ~ (x \in clause \/ -x \in clause)
          <6>1. PICK l \in clause : Variable(l) \in rest => Holds(b, l)
            OBVIOUS
          <6>2. l \in Literals(last)
            OBVIOUS
          <6>3. Variable(l) # x
            BY <1>2, <3>1, <5>2, <6>2
          <6>4. Variable(l) \in given => Holds(a, l)
            BY <1>2, <4>1, <6>1, <6>2, <6>3 DEF Holds, Variable
          <6> QED BY <6>4
        <5> QED BY <5>1, <5>2
      <4>3. a \in All(given)
        <5> HIDE DEF Open
        <5> QED BY <4>1, <4>2
      <4> QED BY <4>3 DEF a
    <3>4. ASSUME NEW a \in All(given)
          PROVE  a \in {Extend(b, given, x, v) : b \in All(rest), v \in Bits} /\ Possible(a, given, x)
      <4> DEFINE b == [y \in rest |-> a[y]]
      <4>1. a \in [given -> Bits] /\ b \in [rest -> Bits] /\ a[x] \in Bits /\ \A y \in rest : a[y] = b[y]
        BY <3>1
      <4>2. a = Extend(b, given, x, a[x])
        BY <3>1, <4>1
      <4> HIDE DEF b
      <4>3. ASSUME NEW clause \in clauses PROVE Open(b, rest, clause)
        <5>1. PICK l \in clause : Variable(l) \in given => Holds(a, l)
          OBVIOUS
        <5>2. l \in Literals(last)
          OBVIOUS
        <5>3. Variable(l) \in rest => Holds(b, l)
          BY <1>2, <4>1, <5>1, <5>2 DEF Holds, Variable
        <5> QED BY <5>3
      <4>4. b \in All(rest)
        <5> HIDE DEF Open
        <5> QED BY <4>1, <4>3
      <4>5. Possible(a, given, x)
        OBVIOUS
      <4> HIDE DEF All, Extend, Possible
      <4> QED BY <4>1, <4>2, <4>4, <4>5
    <3>5. ASSUME NEW a \in Extended(All(rest), given, x) PROVE a \in All(given)
      <4> HIDE DEF All, Extend, Possible, rest
      <4>1. PICK b \in All(rest), v \in Bits : a = Extend(b, given, x, v)
        OBVIOUS
      <4>2. Possible(a, given, x)
        OBVIOUS
      <4> QED BY <3>3, <4>1, <4>2
    <3>6. ASSUME NEW a \in All(given) PROVE a \in Extended(All(rest), given, x)
      <4> HIDE DEF All, Extend, Possible, rest
      <4> QED BY <3>4
    <3> HIDE DEF All, Extended, F
    <3> QED BY <3>2, <3>5, <3>6
  <2> HIDE DEF F, All
  <2> QED BY <2>1, <2>2
<1> HIDE DEF F, All, Extended, Extend, Possible
<1>5. \A given \in SUBSET V : given # {} => given \ {Latest(given)} \in SUBSET V
  OBVIOUS
<1>6. found = [given \in SUBSET V |-> F(found, given)]
  <2>1. ASSUME NEW given \in SUBSET V PROVE found[given] = F(found, given)
    <3>1. given # {} => found[given \ {Latest(given)}] = All(given \ {Latest(given)})
      BY <1>5
    <3>2. F(found, given) = All(given)
      <4> HIDE DEF found
      <4> QED BY <1>4, <3>1
    <3> QED BY <3>2
  <2>2. found = [given \in SUBSET V |-> found[given]]
    OBVIOUS
  <2> HIDE DEF found
  <2> QED BY <2>1, <2>2
<1>7. \A given \in SUBSET V : models[given] = F(models, given)
  <2> HIDE DEF found
  <2>1. models = [given \in SUBSET V |-> F(models, given)]
    BY <1>6
  <2> HIDE DEF models
  <2> QED BY <2>1
<1> HIDE DEF models, found
<1>8. \A given \in SUBSET V : models[given] = All(given)
  <2> DEFINE S == {given \in SUBSET V : models[given] # All(given)}
             rank == [given \in SUBSET V |-> Cardinality(given)]
  <2> SUFFICES ASSUME S # {} PROVE FALSE
    OBVIOUS
  <2>1. ASSUME NEW given \in SUBSET V PROVE IsFiniteSet(given) /\ Cardinality(given) \in Nat
    <3>1. IsFiniteSet(1 .. last)
      BY FS_Interval
    <3>2. given \subseteq 1 .. last
      OBVIOUS
    <3>3. IsFiniteSet(given)
      BY <3>1, <3>2, FS_Subset
    <3> QED BY <3>3, FS_CardinalityType
  <2>2. rank \in [SUBSET V -> Nat]
    BY <2>1
  <2>3. PICK given \in S : \A other \in S : rank[given] <= rank[other]
    <3> DEFINE D == SUBSET V
    <3>1. S \subseteq D /\ rank \in [D -> Nat]
      BY <2>2
    <3> HIDE DEF S, rank, D
    <3> QED BY <3>1, LowestRank
  <2>4. given # {} => models[given \ {Latest(given)}] = All(given \ {Latest(given)})
    <3> SUFFICES ASSUME given # {} PROVE models[given \ {Latest(given)}] = All(given \ {Latest(given)})
      OBVIOUS
    <3> DEFINE rest == given \ {Latest(given)}
    <3>1. rest \in SUBSET V /\ rest \subseteq given /\ rest # given
      BY <1>3
    <3> HIDE DEF rest
    <3>2. Cardinality(rest) <= Cardinality(given) /\ Cardinality(rest) # Cardinality(given)
      BY <2>1, <3>1, FS_Subset
    <3>3. ~ (rank[given] <= rank[rest])
      BY <2>1, <3>1, <3>2
    <3>4. rest \notin S
      BY <2>3, <3>3
    <3> QED BY <3>1, <3>4 DEF rest
  <2>5. F(models, given) = All(given)
    BY <1>4, <2>4
  <2> QED BY <1>7, <2>5
<1>9. \A clause \in clauses : \A l \in clause : Variable(l) \in V
  BY DEF Variables
<1>10. \A a : \A clause \in clauses : Open(a, V, clause) <=> Satisfied(a, clause)
  BY <1>9 DEF Satisfied
<1>11. All(V) = {a \in [V -> Bits] : \A clause \in clauses : Satisfied(a, clause)}
  <2>1. All(V) = {a \in [V -> Bits] : \A clause \in clauses : Open(a, V, clause)}
    BY DEF All
  <2> HIDE DEF Open
  <2> QED BY <1>10, <2>1
<1> QED BY <1>1, <1>8, <1>11

-----------------------------------------------------------------------------
(* Clauses of gates *)

AllHold(a, set) == \A clause \in set : Satisfied(a, clause)

LEMMA HoldsTogether ==
  ASSUME NEW a, NEW S, NEW T
  PROVE  AllHold(a, S \union T) <=> AllHold(a, S) /\ AllHold(a, T)
BY DEF AllHold

LEMMA LiteralHolds ==
  ASSUME NEW a, NEW y \in Nat \ {0}
  PROVE  (Holds(a, y) <=> a[y] = 1) /\ (Holds(a, -y) <=> a[y] = 0)
BY DEF Holds

LEMMA PairHolds ==
  ASSUME NEW a, NEW l, NEW m
  PROVE  Satisfied(a, {l, m}) <=> Holds(a, l) \/ Holds(a, m)
BY DEF Satisfied

LEMMA TripleHolds ==
  ASSUME NEW a, NEW l, NEW m, NEW k
  PROVE  Satisfied(a, {l, m, k}) <=> Holds(a, l) \/ Holds(a, m) \/ Holds(a, k)
BY DEF Satisfied

\* What a gate makes of the values of the variables x.
OutputOf(type, a, x) ==
  CASE type \in Controllable ->
         IF \A i \in DOMAIN x : a[x[i]] = NonControlling(type)
         THEN Uncontrolled(type) ELSE 1 - Uncontrolled(type)
    [] type = "INV" -> 1 - a[x[1]]
    [] type = "EXOR" -> IF a[x[1]] = a[x[2]] THEN 0 ELSE 1
    [] type = "EXNOR" -> IF a[x[1]] = a[x[2]] THEN 1 ELSE 0
    [] OTHER -> a[x[1]]

LEMMA ControllableMeaning ==
  ASSUME NEW type \in Controllable, NEW x \in Seq(Nat \ {0}), NEW z \in Nat \ {0},
         NEW a, a[z] \in Bits, \A i \in DOMAIN x : a[x[i]] \in Bits
  PROVE  AllHold(a, GateClauses(type, x, z)) <=> a[z] = OutputOf(type, a, x)
<1> DEFINE in == {x[i] : i \in DOMAIN x}
           NonControlled(y) == IF NonControlling(type) = 1 THEN y ELSE -y
           out == IF Uncontrolled(type) = 1 THEN z ELSE -z
           first == {-NonControlled(y) : y \in in} \union {out}
           others == {{NonControlled(y), -out} : y \in in}
           All == \A i \in DOMAIN x : a[x[i]] = NonControlling(type)
<1>0. type \notin {"BUF", "FOUT"} /\ type # "INV" /\ type # "EXOR" /\ type # "EXNOR"
  BY DEF Controllable
<1>1. GateClauses(type, x, z) = {first} \union others
  BY <1>0 DEF GateClauses
<1>2. OutputOf(type, a, x) = IF All THEN Uncontrolled(type) ELSE 1 - Uncontrolled(type)
  BY <1>0 DEF OutputOf
<1>3. NonControlling(type) \in Bits /\ Uncontrolled(type) \in Bits
  BY DEF NonControlling, Uncontrolled, Bits
<1>4. ASSUME NEW y \in in
      PROVE  /\ y \in Nat \ {0} /\ a[y] \in Bits
             /\ Holds(a, NonControlled(y)) <=> a[y] = NonControlling(type)
             /\ Holds(a, -NonControlled(y)) <=> a[y] # NonControlling(type)
  <2>1. y \in Nat \ {0} /\ a[y] \in Bits
    OBVIOUS
  <2>2. (Holds(a, y) <=> a[y] = 1) /\ (Holds(a, -y) <=> a[y] = 0)
    BY <2>1, LiteralHolds
  <2>3. -(-y) = y
    BY <2>1
  <2>4. CASE NonControlling(type) = 1
    BY <2>1, <2>2, <2>4 DEF Bits
  <2>5. CASE NonControlling(type) = 0
    BY <2>1, <2>2, <2>3, <2>5 DEF Bits
  <2> QED BY <1>3, <2>4, <2>5 DEF Bits
<1>5. /\ Holds(a, out) <=> a[z] = Uncontrolled(type)
      /\ Holds(a, -out) <=> a[z] = 1 - Uncontrolled(type)
  <2>1. (Holds(a, z) <=> a[z] = 1) /\ (Holds(a, -z) <=> a[z] = 0) /\ -(-z) = z
    BY LiteralHolds
  <2> QED BY <1>3, <2>1 DEF Bits
<1>6. All <=> \A y \in in : a[y] = NonControlling(type)
  OBVIOUS
<1> HIDE DEF NonControlled, out, All, in
<1>7. Satisfied(a, first) <=> a[z] = Uncontrolled(type) \/ ~ All
  <2>1. Satisfied(a, first) <=> Holds(a, out) \/ \E y \in in : Holds(a, -NonControlled(y))
    BY DEF Satisfied
  <2> HIDE DEF first
  <2> QED BY <1>4, <1>5, <1>6, <2>1
<1>8. AllHold(a, others) <=> a[z] = 1 - Uncontrolled(type) \/ All
  <2>1. AllHold(a, others) <=> \A y \in in : Satisfied(a, {NonControlled(y), -out})
    BY DEF AllHold
  <2> HIDE DEF others
  <2>2. \A y \in in : Satisfied(a, {NonControlled(y), -out}) <=>
          a[y] = NonControlling(type) \/ a[z] = 1 - Uncontrolled(type)
    BY <1>4, <1>5, PairHolds
  <2> QED BY <1>6, <2>1, <2>2
<1>9. AllHold(a, GateClauses(type, x, z)) <=> Satisfied(a, first) /\ AllHold(a, others)
  <2> HIDE DEF first, others
  <2> QED BY <1>1 DEF AllHold
<1> HIDE DEF first, others
<1> QED BY <1>2, <1>3, <1>7, <1>8, <1>9 DEF Bits

LEMMA BufferMeaning ==
  ASSUME NEW type \in {"BUF", "FOUT", "INV"}, NEW x, NEW z \in Nat \ {0},
         NEW a, a[z] \in Bits, x[1] \in Nat \ {0}, a[x[1]] \in Bits
  PROVE  AllHold(a, GateClauses(type, x, z)) <=> a[z] = OutputOf(type, a, x)
<1> DEFINE y == x[1]
<1>1. /\ Holds(a, y) <=> a[y] = 1
      /\ Holds(a, -y) <=> a[y] = 0
      /\ Holds(a, z) <=> a[z] = 1
      /\ Holds(a, -z) <=> a[z] = 0
  BY LiteralHolds
<1>2. \A l, m, k, j : AllHold(a, {{l, m}, {k, j}}) <=>
                       (Holds(a, l) \/ Holds(a, m)) /\ (Holds(a, k) \/ Holds(a, j))
  <2>1. \A S, T : AllHold(a, {S, T}) <=> Satisfied(a, S) /\ Satisfied(a, T)
    BY DEF AllHold
  <2> QED BY <2>1, PairHolds
<1> a[y] \in Bits
  OBVIOUS
<1>3. type \notin Controllable /\ type # "EXOR" /\ type # "EXNOR"
  BY DEF Controllable
<1>4. CASE type = "INV"
  <2>1. GateClauses(type, x, z) = {{y, z}, {-y, -z}} /\ OutputOf(type, a, x) = 1 - a[y]
    BY <1>3, <1>4 DEF GateClauses, OutputOf
  <2> HIDE DEF y
  <2>2. AllHold(a, {{y, z}, {-y, -z}}) <=>
          (Holds(a, y) \/ Holds(a, z)) /\ (Holds(a, -y) \/ Holds(a, -z))
    BY <1>2
  <2> QED BY <1>1, <2>1, <2>2 DEF Bits
<1>5. CASE type # "INV"
  <2>1. GateClauses(type, x, z) = {{-y, z}, {y, -z}}
    BY <1>3, <1>5 DEF GateClauses
  <2>2. OutputOf(type, a, x) = a[y]
    BY <1>3, <1>5 DEF OutputOf
  <2> HIDE DEF y
  <2>3. AllHold(a, {{-y, z}, {y, -z}}) <=>
          (Holds(a, -y) \/ Holds(a, z)) /\ (Holds(a, y) \/ Holds(a, -z))
    BY <1>2
  <2> QED BY <1>1, <2>1, <2>2, <2>3 DEF Bits
<1> QED BY <1>4, <1>5

LEMMA ParityMeaning ==
  ASSUME NEW type \in {"EXOR", "EXNOR"}, NEW x, NEW z \in Nat \ {0}, NEW a, a[z] \in Bits,
         x[1] \in Nat \ {0}, x[2] \in Nat \ {0}, a[x[1]] \in Bits, a[x[2]] \in Bits
  PROVE  AllHold(a, GateClauses(type, x, z)) <=> a[z] = OutputOf(type, a, x)
<1> DEFINE p == x[1]
           q == x[2]
           Parity(y) == {{-p, -q, -y}, {p, q, -y}, {p, -q, y}, {-p, q, y}}
<1>1. /\ Holds(a, p) <=> a[p] = 1
      /\ Holds(a, -p) <=> a[p] = 0
      /\ Holds(a, q) <=> a[q] = 1
      /\ Holds(a, -q) <=> a[q] = 0
      /\ Holds(a, z) <=> a[z] = 1
      /\ Holds(a, -z) <=> a[z] = 0
      /\ -(-z) = z
  BY LiteralHolds
<1> HIDE DEF p, q
<1>2. \A y : AllHold(a, Parity(y)) <=> /\ Holds(a, -p) \/ Holds(a, -q) \/ Holds(a, -y)
                                       /\ Holds(a, p) \/ Holds(a, q) \/ Holds(a, -y)
                                       /\ Holds(a, p) \/ Holds(a, -q) \/ Holds(a, y)
                                       /\ Holds(a, -p) \/ Holds(a, q) \/ Holds(a, y)
  <2>1. \A S, T, U, V : AllHold(a, {S, T, U, V}) <=>
                        Satisfied(a, S) /\ Satisfied(a, T) /\ Satisfied(a, U) /\ Satisfied(a, V)
    BY DEF AllHold
  <2> TAKE y
  <2>2. AllHold(a, Parity(y)) <=>
          /\ Satisfied(a, {-p, -q, -y}) /\ Satisfied(a, {p, q, -y})
          /\ Satisfied(a, {p, -q, y}) /\ Satisfied(a, {-p, q, y})
    BY <2>1, Zenon
  <2> QED BY <2>2, TripleHolds
<1>3. type \notin Controllable /\ type \notin {"BUF", "FOUT"} /\ type # "INV"
  BY DEF Controllable
<1>4. a[p] \in Bits /\ a[q] \in Bits
  BY DEF p, q
<1>5. CASE type = "EXOR"
  <2>1. GateClauses(type, x, z) = Parity(z)
    BY <1>3, <1>5 DEF GateClauses, p, q
  <2>2. OutputOf(type, a, x) = IF a[p] = a[q] THEN 0 ELSE 1
    BY <1>3, <1>5 DEF OutputOf, p, q
  <2> HIDE DEF Parity
  <2> QED BY <1>1, <1>2, <1>4, <2>1, <2>2 DEF Bits
<1>6. CASE type = "EXNOR"
  <2>1. GateClauses(type, x, z) = Parity(-z)
    BY <1>3, <1>6 DEF GateClauses, p, q
  <2>2. OutputOf(type, a, x) = IF a[p] = a[q] THEN 1 ELSE 0
    BY <1>3, <1>6 DEF OutputOf, p, q
  <2> HIDE DEF Parity
  <2> QED BY <1>1, <1>2, <1>4, <2>1, <2>2 DEF Bits
<1> QED BY <1>5, <1>6

\* The clauses of a net's gate say that its variable has the value that the
\* gate makes of its inputs' variables.
LEMMA DefinitionMeaning ==
  ASSUME WellFormed(circuit), NEW n \in Nets(circuit), circuit.type[n] # "IN",
         NEW var, \A m \in Nets(circuit) : var[m] \in Nat \ {0},
         NEW a, \A m \in Nets(circuit) : a[var[m]] \in Bits
  PROVE  AllHold(a, Definition(n, var)) <=>
           a[var[n]] = Eval(circuit, [m \in Nets(circuit) |-> a[var[m]]], n)
<1> DEFINE type == circuit.type[n]
           in == circuit.in[n]
           x == [i \in DOMAIN in |-> var[in[i]]]
           v == [m \in Nets(circuit) |-> a[var[m]]]
<1>1. /\ type \in GateTypes /\ in \in Seq(Nets(circuit))
      /\ type \in {"BUF", "FOUT", "INV"} => Len(in) = 1
      /\ type \in {"EXOR", "EXNOR"} => Len(in) = 2
  <2>1. type \in GateTypes
    BY DEF WellFormed
  <2>2. in \in Seq(Nets(circuit))
    BY DEF WellFormed
  <2>3. /\ type \in {"BUF", "FOUT", "INV"} => Len(in) = 1
        /\ type \in {"EXOR", "EXNOR"} => Len(in) = 2
    BY DEF WellFormed
  <2> QED BY <2>1, <2>2, <2>3
<1>2. x \in Seq(Nat \ {0}) /\ DOMAIN x = DOMAIN in /\ DOMAIN in = 1 .. Len(in)
      /\ \A i \in DOMAIN in : in[i] \in Nets(circuit) /\ x[i] = var[in[i]]
  <2>1. Len(in) \in Nat /\ DOMAIN in = 1 .. Len(in) /\ \A i \in DOMAIN in : in[i] \in Nets(circuit)
    BY <1>1
  <2>2. x \in [1 .. Len(in) -> Nat \ {0}]
    BY <2>1
  <2> HIDE DEF in
  <2> QED BY <2>1, <2>2
<1>3. Definition(n, var) = GateClauses(type, x, var[n])
  BY DEF Definition
<1>4. \A i \in DOMAIN in : v[in[i]] = a[x[i]] /\ a[x[i]] \in Bits
  BY <1>2
<1> HIDE DEF x, v
<1>5. CASE type \in Controllable
  <2>0. type \notin {"BUF", "FOUT"} /\ type # "INV" /\ type # "EXOR" /\ type # "EXNOR"
    BY <1>5 DEF Controllable
  <2>1. AllHold(a, GateClauses(type, x, var[n])) <=> a[var[n]] = OutputOf(type, a, x)
    <3>1. var[n] \in Nat \ {0} /\ a[var[n]] \in Bits /\ \A i \in DOMAIN x : a[x[i]] \in Bits
      BY <1>2, <1>4
    <3> HIDE DEF type, in
    <3> QED BY <1>2, <1>5, <3>1, ControllableMeaning
  <2>2. OutputOf(type, a, x) = IF \A i \in DOMAIN x : a[x[i]] = NonControlling(type)
                               THEN Uncontrolled(type) ELSE 1 - Uncontrolled(type)
    BY <1>5, <2>0 DEF OutputOf
  <2>3. Eval(circuit, v, n) = IF \A m \in Inputs(circuit, n) : v[m] = NonControlling(type)
                              THEN Uncontrolled(type) ELSE 1 - Uncontrolled(type)
    BY <1>5, <2>0 DEF Eval
  <2>4. (\A i \in DOMAIN x : a[x[i]] = NonControlling(type)) <=>
          (\A m \in Inputs(circuit, n) : v[m] = NonControlling(type))
    BY <1>2, <1>4 DEF Inputs
  <2>5. Eval(circuit, v, n) = OutputOf(type, a, x)
    <3> HIDE DEF type
    <3> QED BY <2>2, <2>3, <2>4
  <2> QED BY <1>3, <2>1, <2>5 DEF v
<1>6. CASE type \in {"BUF", "FOUT", "INV"}
  <2>1. 1 \in DOMAIN in /\ a[x[1]] = v[in[1]] /\ a[x[1]] \in Bits /\ x[1] \in Nat \ {0}
    <3>1. Len(in) = 1
      BY <1>1, <1>6
    <3> HIDE DEF in
    <3> QED BY <1>2, <1>4, <3>1
  <2>2. AllHold(a, GateClauses(type, x, var[n])) <=> a[var[n]] = OutputOf(type, a, x)
    <3> HIDE DEF type
    <3> QED BY <1>6, <2>1, BufferMeaning
  <2>3. Eval(circuit, v, n) = OutputOf(type, a, x)
    BY <1>6, <2>1 DEF Eval, OutputOf, Controllable
  <2> QED BY <1>3, <2>2, <2>3 DEF v
<1>7. CASE type \in {"EXOR", "EXNOR"}
  <2>1. /\ 1 \in DOMAIN in /\ a[x[1]] = v[in[1]] /\ a[x[1]] \in Bits /\ x[1] \in Nat \ {0}
        /\ 2 \in DOMAIN in /\ a[x[2]] = v[in[2]] /\ a[x[2]] \in Bits /\ x[2] \in Nat \ {0}
    <3>1. Len(in) = 2
      BY <1>1, <1>7
    <3> HIDE DEF in
    <3> QED BY <1>2, <1>4, <3>1
  <2>2. AllHold(a, GateClauses(type, x, var[n])) <=> a[var[n]] = OutputOf(type, a, x)
    <3> HIDE DEF type
    <3> QED BY <1>7, <2>1, ParityMeaning
  <2>3. Eval(circuit, v, n) = OutputOf(type, a, x)
    BY <1>7, <2>1 DEF Eval, OutputOf, Controllable
  <2> QED BY <1>3, <2>2, <2>3 DEF v
<1> QED BY <1>1, <1>5, <1>6, <1>7 DEF GateTypes

-----------------------------------------------------------------------------
(* A fault's flags, numbers and scope *)

Base == Constant + 2 * Cardinality(tfo)

\* What SearchTFO sets.
Prepared ==
  /\ WellFormed(circuit) /\ InputsListed(circuit)
  /\ site \in Nets(circuit) /\ target.stuck \in Bits
  /\ tfo = Reach(site)
  /\ varsfc = FaultyVariables(tfo)
  /\ \A n \in tfo : varprop[n] = Constant + 2 * Position(n, tfo)

\* What NormalScopeBuild adds to it.
Scoped ==
  /\ Prepared
  /\ tpo = Observed(circuit) \intersect tfo
  /\ detection = Support(tpo)
  /\ needed = Required(tpo)

\* Good values, faulty values and the chain have variables of their own.
LEMMA Numbers ==
  ASSUME Prepared
  PROVE  /\ Constant \in Nat /\ Base \in Nat /\ Constant <= Base
         /\ \A n \in Nets(circuit) : varsgc[n] \in 1 .. Constant
         /\ \A n, k \in Nets(circuit) : varsgc[n] = varsgc[k] => n = k
         /\ \A n \in Nets(circuit) \ tfo : varsfc[n] = varsgc[n]
         /\ \A n \in tfo : varsfc[n] \in Constant + 1 .. Base /\ varprop[n] \in Constant + 1 .. Base
         /\ \A n, k \in tfo : varsfc[n] = varsfc[k] => n = k
         /\ \A n, k \in tfo : varprop[n] = varprop[k] => n = k
         /\ \A n, k \in tfo : varsfc[n] # varprop[k]
<1>1. /\ Constant \in Nat
      /\ \A n \in Nets(circuit) : varsgc[n] \in 1 .. Constant
      /\ \A n, k \in Nets(circuit) : varsgc[n] = varsgc[k] => n = k
  BY GoodVariables DEF Prepared
<1>2. tfo \subseteq Nets(circuit)
  BY Reached DEF Prepared
<1>3. IsFiniteSet(tfo) /\ tfo \subseteq Nat
  <2>1. IsFiniteSet(Nets(circuit)) /\ Nets(circuit) \subseteq Nat
    BY DEF Prepared, WellFormed
  <2> QED BY <1>2, <2>1, FS_Subset
<1>4. /\ Cardinality(tfo) \in Nat
      /\ \A n \in tfo : Position(n, tfo) \in 1 .. Cardinality(tfo)
      /\ \A n, k \in tfo : Position(n, tfo) = Position(k, tfo) => n = k
  BY <1>3, Positions
<1>5. Base = Constant + 2 * Cardinality(tfo)
  BY DEF Base
<1>6. \A n \in Nets(circuit) :
        varsfc[n] = IF n \in tfo THEN Constant + 2 * Position(n, tfo) - 1 ELSE varsgc[n]
  BY DEF Prepared, FaultyVariables
<1>7. \A n \in tfo : varprop[n] = Constant + 2 * Position(n, tfo)
  BY DEF Prepared
<1>8. ASSUME NEW n \in tfo
      PROVE  /\ varsfc[n] = Constant + 2 * Position(n, tfo) - 1
             /\ varprop[n] = Constant + 2 * Position(n, tfo)
             /\ Position(n, tfo) \in Nat /\ 1 <= Position(n, tfo) /\ Position(n, tfo) <= Cardinality(tfo)
  BY <1>2, <1>4, <1>6, <1>7
<1>9. Base \in Nat /\ Constant <= Base
  BY <1>1, <1>4, <1>5
<1>10. \A n \in tfo : varsfc[n] \in Constant + 1 .. Base /\ varprop[n] \in Constant + 1 .. Base
  BY <1>1, <1>4, <1>5, <1>8
<1>11. ASSUME NEW n \in tfo, NEW k \in tfo
       PROVE  /\ varsfc[n] = varsfc[k] => n = k
              /\ varprop[n] = varprop[k] => n = k
              /\ varsfc[n] # varprop[k]
  <2>1. \A x, y \in Nat : /\ Constant + 2 * x - 1 = Constant + 2 * y - 1 => x = y
                          /\ Constant + 2 * x = Constant + 2 * y => x = y
                          /\ Constant + 2 * x - 1 # Constant + 2 * y
    BY <1>1
  <2> QED BY <1>4, <1>8, <2>1
<1> QED BY <1>1, <1>6, <1>9, <1>10, <1>11

\* The variables of the comparator follow, the last of all says that some
\* output differs.
LEMMA DifferenceNumbers ==
  ASSUME Scoped, tpo # {}
  PROVE  /\ LastVariable(Base) \in Nat /\ Base < LastVariable(Base)
         /\ IsFiniteSet(tpo) /\ Cardinality(tpo) \in Nat /\ Cardinality(tpo) # 0
         /\ \A o \in tpo : Difference(Base, o) \in Base + 1 .. LastVariable(Base)
         /\ \A o, q \in tpo : Difference(Base, o) = Difference(Base, q) => o = q
         /\ Cardinality(tpo) > 1 => \A o \in tpo : Difference(Base, o) # LastVariable(Base)
         /\ Cardinality(tpo) = 1 => \A o \in tpo : Difference(Base, o) = LastVariable(Base)
<1>1. Base \in Nat
  BY Numbers DEF Scoped
<1>2. IsFiniteSet(tpo) /\ tpo \subseteq Nat
  <2>1. tpo \subseteq Nets(circuit)
    BY Reached DEF Scoped, Prepared
  <2>2. IsFiniteSet(Nets(circuit)) /\ Nets(circuit) \subseteq Nat
    BY DEF Scoped, Prepared, WellFormed
  <2> QED BY <2>1, <2>2, FS_Subset
<1>3. /\ Cardinality(tpo) \in Nat
      /\ \A n \in tpo : Position(n, tpo) \in 1 .. Cardinality(tpo)
      /\ \A n, k \in tpo : Position(n, tpo) = Position(k, tpo) => n = k
  BY <1>2, Positions
<1>4. Cardinality(tpo) # 0
  BY <1>2, FS_EmptySet
<1>5. LastVariable(Base) = Base + Cardinality(tpo) + (IF Cardinality(tpo) > 1 THEN 1 ELSE 0)
  BY DEF LastVariable
<1>6. \A o : Difference(Base, o) = Base + Position(o, tpo)
  BY DEF Difference
<1> HIDE DEF Base
<1>7. \A o \in tpo : Position(o, tpo) \in Nat /\ 1 <= Position(o, tpo) /\ Position(o, tpo) <= Cardinality(tpo)
  BY <1>3
<1>8. LastVariable(Base) \in Nat /\ Base < LastVariable(Base)
  BY <1>1, <1>3, <1>4, <1>5
<1>9. ASSUME NEW o \in tpo
      PROVE  /\ Difference(Base, o) \in Base + 1 .. LastVariable(Base)
             /\ Cardinality(tpo) > 1 => Difference(Base, o) # LastVariable(Base)
             /\ Cardinality(tpo) = 1 => Difference(Base, o) = LastVariable(Base)
  BY <1>1, <1>3, <1>4, <1>5, <1>6, <1>7, <1>8
<1>10. ASSUME NEW o \in tpo, NEW q \in tpo, Difference(Base, o) = Difference(Base, q) PROVE o = q
  <2>1. Position(o, tpo) = Position(q, tpo)
    BY <1>1, <1>6, <1>7, <1>10
  <2> QED BY <1>3, <2>1
<1> QED BY <1>2, <1>3, <1>4, <1>8, <1>9, <1>10

\* The scope holds what its nets depend on, the fault's site among it.
LEMMA Scopes ==
  ASSUME Scoped
  PROVE  /\ tfo \subseteq Nets(circuit) /\ site \in tfo
         /\ \A n \in tfo : Outputs(circuit, n) \subseteq tfo
         /\ \A n \in tfo \ {site} : circuit.type[n] # "IN"
         /\ tpo \subseteq detection /\ detection \subseteq needed /\ needed \subseteq Nets(circuit)
         /\ \A n \in detection : Inputs(circuit, n) \subseteq detection
         /\ \A n \in needed : Inputs(circuit, n) \subseteq needed
         /\ excitation # None => excitation \in needed
         /\ tpo # {} => site \in detection
<1>1. /\ tfo \subseteq Nets(circuit) /\ site \in tfo
      /\ \A n \in tfo : Outputs(circuit, n) \subseteq tfo
      /\ \A n \in tfo \ {site} : circuit.type[n] # "IN" /\ \E m \in tfo : n \in Outputs(circuit, m)
  BY Reached DEF Scoped, Prepared
<1>2. WellFormed(circuit)
  BY DEF Scoped, Prepared
<1> DEFINE roots == tpo \union ({excitation} \ {None})
<1>3. tpo \subseteq tfo /\ roots \in SUBSET Nets(circuit) /\ tpo \in SUBSET roots
  <2>1. excitation \in Nets(circuit) \union {None}
    BY <1>2 DEF WellFormed, excitation, Scoped, Prepared
  <2>2. tpo \subseteq tfo
    BY DEF Scoped
  <2> QED BY <1>1, <2>1, <2>2
<1>4. detection = Support(tpo) /\ needed = Support(roots)
  BY DEF Scoped, Required
<1> HIDE DEF roots
<1>5. /\ tpo \subseteq detection /\ detection \subseteq needed /\ needed \subseteq Nets(circuit)
      /\ roots \subseteq needed
      /\ \A n \in detection : Inputs(circuit, n) \subseteq detection
      /\ \A n \in needed : Inputs(circuit, n) \subseteq needed
  <2>1. tpo \in SUBSET Nets(circuit)
    BY <1>3
  <2>2. tpo \subseteq detection /\ \A n \in detection : Inputs(circuit, n) \subseteq detection
    BY <1>2, <1>4, <2>1, Supported
  <2>3. /\ roots \subseteq needed /\ needed \subseteq Nets(circuit)
        /\ \A n \in needed : Inputs(circuit, n) \subseteq needed
        /\ detection \subseteq needed
    BY <1>2, <1>3, <1>4, Supported
  <2> QED BY <2>2, <2>3
<1>6. excitation # None => excitation \in needed
  BY <1>5 DEF roots
<1>7. ASSUME tpo # {} PROVE site \in detection
  <2> DEFINE S == tfo \intersect detection
  <2>1. S \subseteq Nets(circuit) /\ S # {}
    BY <1>1, <1>3, <1>5, <1>7
  <2>2. /\ circuit.level \in [Nets(circuit) -> Nat]
        /\ \A n \in Nets(circuit) : circuit.level[n] \in Nat
    BY <1>2 DEF WellFormed
  <2>3. PICK n \in S : \A m \in S : circuit.level[n] <= circuit.level[m]
    <3> HIDE DEF S
    <3> QED BY <2>1, <2>2, LowestNet
  <2>4. ASSUME n # site PROVE FALSE
    <3>1. PICK m \in tfo : n \in Outputs(circuit, m)
      BY <1>1, <2>4
    <3>2. m \in Inputs(circuit, n) /\ circuit.level[m] < circuit.level[n]
      BY <1>1, <1>2, <3>1, Edges
    <3>3. m \in S
      BY <1>5, <3>2
    <3>4. circuit.level[n] <= circuit.level[m] /\ circuit.level[n] \in Nat /\ circuit.level[m] \in Nat
      BY <1>1, <2>2, <2>3, <3>3
    <3> QED BY <3>2, <3>4
  <2> QED BY <2>4
<1> QED BY <1>1, <1>5, <1>6, <1>7

-----------------------------------------------------------------------------
(* The clauses and their literals *)

\* The clauses that the solver has when it is asked.
Complete ==
  /\ Scoped
  /\ \E units \in {{}, EssentialUnits} :
       clauses = (IF tpo = {} THEN {{}} ELSE DetectionClauses(Base) \union units) \union GoodCircuit

Negated(L) == \A l \in L : -l \in L

OperandsIn(L, type, x) ==
  /\ \A i \in DOMAIN x : x[i] \in L
  /\ type \notin Controllable => x[1] \in L
  /\ type \in {"EXOR", "EXNOR"} => x[2] \in L

Within(set, L) == set \subseteq SUBSET L

LEMMA LiteralsOfGate ==
  ASSUME NEW L, L \subseteq Int, Negated(L), NEW type, type \in GateTypes,
         NEW x, OperandsIn(L, type, x), NEW z, z \in L
  PROVE  Within(GateClauses(type, x, z), L)
<1> DEFINE in == {x[i] : i \in DOMAIN x}
           NonControlled(y) == IF NonControlling(type) = 1 THEN y ELSE -y
           out == IF Uncontrolled(type) = 1 THEN z ELSE -z
           Parity(y) == {{-x[1], -x[2], -y}, {x[1], x[2], -y}, {x[1], -x[2], y}, {-x[1], x[2], y}}
<1> USE DEF OperandsIn, Within
<1>1. \A l \in L : -l \in L
  BY DEF Negated
<1>2. CASE type \in Controllable
  <2>0. type \notin {"BUF", "FOUT"} /\ type # "INV" /\ type # "EXOR" /\ type # "EXNOR"
    BY <1>2 DEF Controllable
  <2>1. GateClauses(type, x, z) = {{-NonControlled(y) : y \in in} \union {out}}
                                  \union {{NonControlled(y), -out} : y \in in}
    BY <1>2, <2>0 DEF GateClauses
  <2>2. \A y \in in : NonControlled(y) \in L /\ -NonControlled(y) \in L
    BY <1>1
  <2>3. out \in L /\ -out \in L
    BY <1>1
  <2> HIDE DEF in, NonControlled, out
  <2>4. {-NonControlled(y) : y \in in} \union {out} \in SUBSET L
    BY <2>2, <2>3
  <2>5. {{NonControlled(y), -out} : y \in in} \subseteq SUBSET L
    BY <2>2, <2>3
  <2> QED BY <2>1, <2>4, <2>5
<1>3. CASE type \in {"BUF", "FOUT", "INV"}
  <2>0. type \notin Controllable
    BY <1>3 DEF Controllable
  <2>1. GateClauses(type, x, z) =
          IF type = "INV" THEN {{x[1], z}, {-x[1], -z}} ELSE {{-x[1], z}, {x[1], -z}}
    BY <1>3, <2>0 DEF GateClauses
  <2>2. x[1] \in L /\ -x[1] \in L /\ -z \in L
    BY <1>1, <2>0
  <2> QED BY <2>1, <2>2
<1>4. CASE type \in {"EXOR", "EXNOR"}
  <2>0. type \notin Controllable /\ type \notin {"BUF", "FOUT"} /\ type # "INV"
    BY <1>4 DEF Controllable
  <2>1. GateClauses(type, x, z) = IF type = "EXOR" THEN Parity(z) ELSE Parity(-z)
    BY <1>4, <2>0 DEF GateClauses
  <2>2. x[1] \in L /\ -x[1] \in L /\ x[2] \in L /\ -x[2] \in L /\ -z \in L
    BY <1>1, <1>4, <2>0
  <2>3. \A y \in L : Parity(y) \subseteq SUBSET L
    BY <1>1, <2>2
  <2> HIDE DEF Parity
  <2> QED BY <2>1, <2>2, <2>3
<1> QED BY <1>2, <1>3, <1>4 DEF GateTypes

LEMMA LiteralsOfDefinition ==
  ASSUME WellFormed(circuit), NEW L \in SUBSET Int, Negated(L), NEW n \in Nets(circuit),
         NEW var, \A m \in Nets(circuit) : var[m] \in L
  PROVE  Definition(n, var) \subseteq SUBSET L
<1> DEFINE type == circuit.type[n]
           in == circuit.in[n]
           x == [i \in DOMAIN in |-> var[in[i]]]
<1>1. Definition(n, var) = GateClauses(type, x, var[n])
  BY DEF Definition
<1>2. CASE type = "IN"
  <2>1. GateClauses(type, x, var[n]) = {}
    BY <1>2 DEF GateClauses, Controllable
  <2> QED BY <1>1, <2>1
<1>3. CASE type # "IN"
  <2>1. type \in GateTypes
    BY <1>3 DEF WellFormed
  <2>2. in \in Seq(Nets(circuit)) /\ in # <<>>
    BY <1>3 DEF WellFormed
  <2>3. type \in {"EXOR", "EXNOR"} => Len(in) = 2
    BY DEF WellFormed
  <2> HIDE DEF type, in
  <2>4. /\ DOMAIN x = DOMAIN in /\ 1 \in DOMAIN in
        /\ \A i \in DOMAIN in : x[i] \in L
        /\ type \in {"EXOR", "EXNOR"} => 2 \in DOMAIN in
    BY <2>2, <2>3
  <2>5. OperandsIn(L, type, x)
    BY <2>4 DEF OperandsIn
  <2> HIDE DEF x
  <2>6. Within(GateClauses(type, x, var[n]), L)
    BY <2>1, <2>5, LiteralsOfGate
  <2> QED BY <1>1, <2>6 DEF Within
<1> QED BY <1>2, <1>3

LEMMA InRange ==
  ASSUME Complete, tpo # {}
  PROVE  /\ clauses \subseteq SUBSET Literals(LastVariable(Base))
         /\ Variables \subseteq 1 .. LastVariable(Base)
<1> DEFINE last == LastVariable(Base)
           L == Literals(last)
<1>0. Scoped /\ Prepared /\ WellFormed(circuit) /\ target.stuck \in Bits
  BY DEF Complete, Scoped, Prepared
<1>1. /\ Constant \in Nat /\ Base \in Nat /\ Constant <= Base /\ last \in Nat /\ Base < last
      /\ \A n \in Nets(circuit) : varsgc[n] \in 1 .. Constant
      /\ \A n \in Nets(circuit) \ tfo : varsfc[n] = varsgc[n]
      /\ \A n \in tfo : varsfc[n] \in Constant + 1 .. Base /\ varprop[n] \in Constant + 1 .. Base
      /\ \A o \in tpo : Difference(Base, o) \in Base + 1 .. last
      /\ Cardinality(tpo) \in Nat
  BY <1>0, Numbers, DifferenceNumbers
<1>2. /\ tfo \subseteq Nets(circuit) /\ site \in tfo
      /\ \A n \in tfo : Outputs(circuit, n) \subseteq tfo
      /\ needed \subseteq Nets(circuit)
      /\ tpo \subseteq tfo
  BY <1>0, Scopes DEF Scoped
<1>3. L \subseteq Int /\ \A x \in 1 .. last : x \in L /\ -x \in L
  BY <1>1 DEF Literals, Variable
<1>4. Negated(L)
  BY <1>1 DEF Literals, Variable, Negated
<1> HIDE DEF L
<1>5. /\ \A n \in Nets(circuit) : varsgc[n] \in 1 .. last /\ varsfc[n] \in 1 .. last
      /\ \A n \in tfo : varprop[n] \in 1 .. last
      /\ \A o \in tpo : Difference(Base, o) \in 1 .. last
  <2> HIDE DEF last, Base
  <2> QED BY <1>1, <1>2
<1>6. /\ \A n \in Nets(circuit) :
           varsgc[n] \in L /\ -varsgc[n] \in L /\ varsfc[n] \in L /\ -varsfc[n] \in L
      /\ \A n \in tfo : varprop[n] \in L /\ -varprop[n] \in L
      /\ \A o \in tpo : Difference(Base, o) \in L
      /\ last \in L
  <2>1. last \in 1 .. last
    BY <1>1
  <2> HIDE DEF last, Base
  <2> QED BY <1>3, <1>5, <2>1
<1>7. \A n \in Nets(circuit) :
        Definition(n, varsgc) \subseteq SUBSET L /\ Definition(n, varsfc) \subseteq SUBSET L
  <2>1. \A n \in Nets(circuit) : varsgc[n] \in L /\ varsfc[n] \in L
    BY <1>6
  <2> HIDE DEF last
  <2> QED BY <1>0, <1>3, <1>4, <2>1, LiteralsOfDefinition
<1>8. GoodCircuit \subseteq SUBSET L /\ FaultyCircuit \subseteq SUBSET L
  BY <1>2, <1>7 DEF GoodCircuit, FaultyCircuit
<1>9. PropagationChain \subseteq SUBSET L
  <2>1. {{varprop[site]}} \subseteq SUBSET L
    BY <1>2, <1>6
  <2>2. \A n \in tfo : Differs(n) \subseteq SUBSET L
    BY <1>2, <1>6 DEF Differs
  <2>3. \A n \in tfo : Continues(n) \subseteq SUBSET L
    BY <1>2, <1>6 DEF Continues
  <2> QED BY <2>1, <2>2, <2>3 DEF PropagationChain
<1>10. Comparator(Base) \subseteq SUBSET L
  <2> DEFINE count == Cardinality(tpo)
             x == [i \in 1 .. count |-> last - count + i - 1]
             Compared(o) == GateClauses("EXOR", <<varsgc[o], varsfc[o]>>, Difference(Base, o))
             one == UNION {Compared(o) : o \in tpo}
  <2>1. Comparator(Base) = one \union (IF count > 1 THEN GateClauses("OR", x, last) ELSE {})
    BY DEF Comparator
  <2>2. ASSUME NEW o \in tpo
        PROVE  Compared(o) \subseteq SUBSET L
    <3> DEFINE y == <<varsgc[o], varsfc[o]>>
    <3>1. DOMAIN y = {1, 2} /\ y[1] \in L /\ y[2] \in L
      BY <1>2, <1>6
    <3>2. "EXOR" \in GateTypes /\ OperandsIn(L, "EXOR", y)
      BY <3>1 DEF GateTypes, OperandsIn
    <3>3. L \subseteq Int /\ Difference(Base, o) \in L
      BY <1>3, <1>6
    <3> HIDE DEF y, last
    <3>4. Within(GateClauses("EXOR", y, Difference(Base, o)), L)
      BY <1>4, <3>1, <3>2, <3>3, LiteralsOfGate
    <3> QED BY <3>4 DEF y, Within
  <2>3. ASSUME count > 1 PROVE GateClauses("OR", x, last) \subseteq SUBSET L
    <3>1. last = Base + count + 1
      BY <2>3 DEF LastVariable
    <3>2. \A i \in 1 .. count : last - count + i - 1 \in 1 .. last
      <4> HIDE DEF last, Base
      <4> QED BY <1>1, <3>1
    <3>3. DOMAIN x = 1 .. count /\ \A i \in DOMAIN x : x[i] \in L
      <4>1. \A i \in 1 .. count : x[i] = last - count + i - 1
        OBVIOUS
      <4> HIDE DEF last
      <4> QED BY <1>3, <3>2, <4>1
    <3>4. "OR" \in GateTypes /\ OperandsIn(L, "OR", x)
      <4> HIDE DEF x
      <4> QED BY <3>3 DEF GateTypes, Controllable, OperandsIn
    <3>5. L \subseteq Int /\ last \in L
      BY <1>3, <1>6
    <3> HIDE DEF x, last
    <3>6. Within(GateClauses("OR", x, last), L)
      BY <1>4, <3>3, <3>4, <3>5, LiteralsOfGate
    <3> QED BY <3>6 DEF Within
  <2>4. one \subseteq SUBSET L
    <3> HIDE DEF Compared
    <3> QED BY <2>2
  <2> HIDE DEF one, x, count
  <2> QED BY <2>1, <2>3, <2>4
<1>11. \A n \in Nets(circuit) : \A v : Literal(varsgc[n], v) \in L /\ Literal(varsfc[n], v) \in L
  BY <1>6 DEF Literal
<1>12. excitation # None => excitation \in Nets(circuit)
  BY <1>0, Scopes
<1>13. Excitation(Base) \subseteq SUBSET L
  <2>1. {Literal(varsgc[site], 1 - target.stuck)} \in SUBSET L
          /\ {Literal(varsfc[site], target.stuck)} \in SUBSET L
    BY <1>2, <1>11
  <2>2. {last} \in SUBSET L
    BY <1>6
  <2>3. \A n \in {excitation} \ {None} : {Literal(varsgc[n], target.stuck)} \in SUBSET L
    BY <1>11, <1>12
  <2> QED BY <2>1, <2>2, <2>3 DEF Excitation
<1>14. EssentialUnits \subseteq SUBSET L
  <2>1. EssentialUnits \subseteq {{Literal(varsgc[e[1]], e[2])} : e \in needed \X Bits}
    BY DEF EssentialUnits
  <2>2. \A e \in needed \X Bits : {Literal(varsgc[e[1]], e[2])} \in SUBSET L
    BY <1>2, <1>11
  <2> QED BY <2>1, <2>2
<1>15. clauses \subseteq SUBSET L
  <2>1. DetectionClauses(Base) \subseteq SUBSET L
    BY <1>8, <1>9, <1>10, <1>13 DEF DetectionClauses
  <2>2. PICK units \in {{}, EssentialUnits} :
               clauses = (DetectionClauses(Base) \union units) \union GoodCircuit
    BY DEF Complete
  <2>3. units \subseteq SUBSET L
    BY <1>14
  <2> QED BY <1>8, <2>1, <2>2, <2>3
<1>16. Variables \subseteq 1 .. last
  <2>1. \A l \in L : Variable(l) \in 1 .. last
    BY DEF L, Literals
  <2>2. UNION clauses \subseteq L
    BY <1>15
  <2>3. InputNets \subseteq Nets(circuit)
    BY <1>0 DEF Prepared, InputsListed, InputNets
  <2>4. \A n \in InputNets : varsgc[n] \in 1 .. last
    BY <1>5, <2>3
  <2> HIDE DEF last
  <2> QED BY <2>1, <2>2, <2>4 DEF Variables
<1> QED BY <1>15, <1>16 DEF L

\* An answer is given by values of all variables that satisfy the clauses.
LEMMA AnswersFound ==
  ASSUME Complete, tpo # {}
  PROVE  \A p : p \in Answers <=>
           \E b \in [1 .. LastVariable(Base) -> Bits] : AllHold(b, clauses) /\ p = InputsOf(b)
<1> DEFINE last == LastVariable(Base)
<1>1. clauses \subseteq SUBSET Literals(last) /\ Variables \subseteq 1 .. last
  BY InRange
<1>2. last \in Nat
  BY DifferenceNumbers DEF Complete
<1> HIDE DEF last
<1>3. Models = {a \in [Variables -> Bits] : \A clause \in clauses : Satisfied(a, clause)}
  BY <1>1, <1>2, ModelsFound
<1>4. \A n \in InputNets : varsgc[n] \in Variables
  BY DEF Variables
<1>5. \A clause \in clauses : \A l \in clause : Variable(l) \in Variables /\ l \in Int /\ l # 0
  <2>1. \A clause \in clauses : \A l \in clause : Variable(l) \in Variables
    BY DEF Variables
  <2>2. \A l \in Literals(last) : l \in Int /\ l # 0
    BY DEF Literals, Variable
  <2> QED BY <1>1, <2>1, <2>2
<1>6. ASSUME NEW a, NEW b, \A x \in Variables : a[x] = b[x]
      PROVE  /\ AllHold(a, clauses) <=> AllHold(b, clauses)
             /\ InputsOf(a) = InputsOf(b)
  <2>1. ASSUME NEW clause \in clauses PROVE Satisfied(a, clause) <=> Satisfied(b, clause)
    <3>1. ASSUME NEW l \in clause PROVE Holds(a, l) <=> Holds(b, l)
      BY <1>5, <1>6 DEF Holds, Variable
    <3> QED BY <3>1 DEF Satisfied
  <2>2. InputsOf(a) = InputsOf(b)
    BY <1>4, <1>6 DEF InputsOf
  <2> QED BY <2>1, <2>2 DEF AllHold
<1>7. ASSUME NEW p \in Answers
      PROVE  \E b \in [1 .. last -> Bits] : AllHold(b, clauses) /\ p = InputsOf(b)
  <2>1. PICK a \in [Variables -> Bits] : AllHold(a, clauses) /\ p = InputsOf(a)
    BY <1>3 DEF Answers, AllHold
  <2> DEFINE b == [x \in 1 .. last |-> IF x \in Variables THEN a[x] ELSE 0]
  <2>2. b \in [1 .. last -> Bits] /\ \A x \in Variables : a[x] = b[x]
    BY <1>1 DEF Bits
  <2> HIDE DEF b
  <2>3. AllHold(b, clauses) /\ p = InputsOf(b)
    BY <1>6, <2>1, <2>2
  <2> QED BY <2>2, <2>3
<1>8. ASSUME NEW b \in [1 .. last -> Bits], AllHold(b, clauses) PROVE InputsOf(b) \in Answers
  <2> DEFINE a == [x \in Variables |-> b[x]]
  <2>1. a \in [Variables -> Bits] /\ \A x \in Variables : a[x] = b[x]
    BY <1>1
  <2> HIDE DEF a
  <2>2. AllHold(a, clauses) /\ InputsOf(a) = InputsOf(b)
    BY <1>6, <1>8, <2>1
  <2>3. a \in Models
    BY <1>3, <2>1, <2>2 DEF AllHold
  <2> QED BY <2>2, <2>3 DEF Answers
<1> QED BY <1>7, <1>8 DEF last

-----------------------------------------------------------------------------
(* The values of a pattern *)

Good(p) == Values(circuit, p, <<>>)
Faulty(p) == Values(circuit, p, Stuck(site, target.stuck))

\* The fault is excited by the pattern and seen.
Detects(p) ==
  /\ Good(p)[site] = 1 - target.stuck
  /\ excitation # None => Good(p)[excitation] = target.stuck
  /\ \E o \in Observed(circuit) : Faulty(p)[o] # Good(p)[o]

Patterns == [InputNets -> Bits]

LEMMA InputNetsListed ==
  ASSUME InputsListed(circuit)
  PROVE  InputNets = {n \in Nets(circuit) : circuit.type[n] = "IN"}
<1>1. /\ circuit.pi \in Seq(Nets(circuit))
      /\ \A n \in Nets(circuit) : circuit.type[n] = "IN" <=>
           \E i \in DOMAIN circuit.pi : circuit.pi[i] = n
  BY DEF InputsListed
<1>2. \A i \in DOMAIN circuit.pi : circuit.pi[i] \in Nets(circuit)
  BY <1>1
<1> QED BY <1>1, <1>2 DEF InputNets

LEMMA PatternValues ==
  ASSUME Prepared, NEW p \in Patterns
  PROVE  /\ \A n \in Nets(circuit) :
              Good(p)[n] = IF circuit.type[n] = "IN" THEN p[n] ELSE Eval(circuit, Good(p), n)
         /\ \A n \in Nets(circuit) :
              Faulty(p)[n] = IF n = site THEN target.stuck
                             ELSE IF circuit.type[n] = "IN" THEN p[n] ELSE Eval(circuit, Faulty(p), n)
         /\ Good(p) \in [Nets(circuit) -> Bits]
         /\ Faulty(p) \in [Nets(circuit) -> Bits]
<1> DEFINE N == Nets(circuit)
           g == Good(p)
           f == Faulty(p)
<1>0. /\ WellFormed(circuit) /\ InputsListed(circuit) /\ site \in N /\ target.stuck \in Bits
      /\ circuit.level \in [N -> Nat]
      /\ \A n \in N : circuit.level[n] \in Nat
  BY DEF Prepared, WellFormed
<1>1. /\ g = [n \in N |-> g[n]]
      /\ f = [n \in N |-> f[n]]
      /\ \A n \in N : g[n] = IF circuit.type[n] = "IN" THEN p[n] ELSE Eval(circuit, g, n)
      /\ \A n \in N : f[n] = IF n = site THEN target.stuck
                             ELSE IF circuit.type[n] = "IN" THEN p[n] ELSE Eval(circuit, f, n)
  BY <1>0, GoodAndFaulty DEF Good, Faulty
<1>2. \A n \in N : circuit.type[n] = "IN" => p[n] \in Bits
  BY <1>0, InputNetsListed DEF Patterns
<1> HIDE DEF g, f
<1>3. ASSUME NEW v,
             \A n \in N : \/ v[n] = Eval(circuit, v, n)
                         \/ v[n] \in Bits
                         \/ (circuit.type[n] = "IN" /\ v[n] = p[n]),
             \A n \in N : circuit.type[n] = "IN" => v[n] \in Bits
      PROVE  \A n \in N : v[n] \in Bits
  <2> DEFINE S == {n \in N : v[n] \notin Bits}
  <2> SUFFICES ASSUME S # {} PROVE FALSE
    OBVIOUS
  <2>1. PICK n \in S : \A m \in S : circuit.level[n] <= circuit.level[m]
    <3>1. S \subseteq N
      OBVIOUS
    <3> HIDE DEF S
    <3> QED BY <1>0, <3>1, LowestNet
  <2>2. circuit.type[n] # "IN" /\ v[n] = Eval(circuit, v, n)
    BY <1>3
  <2>3. ASSUME NEW m \in Inputs(circuit, n) PROVE v[m] \in Bits
    <3>1. m \in N /\ circuit.level[m] < circuit.level[n]
      BY <1>0, Edges
    <3> QED BY <1>0, <2>1, <3>1
  <2> QED BY <1>0, <2>2, <2>3, EvalBit
<1>4. \A n \in N : g[n] \in Bits
  <2>1. \A n \in N : circuit.type[n] = "IN" => g[n] \in Bits
    BY <1>1, <1>2
  <2>2. \A n \in N :
          g[n] = Eval(circuit, g, n) \/ g[n] \in Bits \/ (circuit.type[n] = "IN" /\ g[n] = p[n])
    BY <1>1
  <2> QED BY <1>3, <2>1, <2>2
<1>5. \A n \in N : f[n] \in Bits
  <2>1. \A n \in N : circuit.type[n] = "IN" => f[n] \in Bits
    BY <1>0, <1>1, <1>2
  <2>2. \A n \in N :
          f[n] = Eval(circuit, f, n) \/ f[n] \in Bits \/ (circuit.type[n] = "IN" /\ f[n] = p[n])
    BY <1>0, <1>1
  <2> QED BY <1>3, <2>1, <2>2
<1>6. g \in [N -> Bits] /\ f \in [N -> Bits]
  BY <1>1, <1>4, <1>5
<1> QED BY <1>1, <1>6 DEF g, f

\* A net that the fault cannot reach has its good value in the faulty circuit.
LEMMA Unreached ==
  ASSUME Prepared, NEW p \in Patterns, NEW n \in Nets(circuit) \ tfo
  PROVE  Faulty(p)[n] = Good(p)[n]
<1> DEFINE N == Nets(circuit)
           g == Good(p)
           f == Faulty(p)
           S == {m \in N \ tfo : f[m] # g[m]}
<1>0. /\ WellFormed(circuit) /\ circuit.level \in [N -> Nat] /\ \A m \in N : circuit.level[m] \in Nat
      /\ site \in tfo /\ \A m \in tfo : Outputs(circuit, m) \subseteq tfo
  BY Reached DEF Prepared, WellFormed
<1>1. /\ \A m \in N : g[m] = IF circuit.type[m] = "IN" THEN p[m] ELSE Eval(circuit, g, m)
      /\ \A m \in N : f[m] = IF m = site THEN target.stuck
                             ELSE IF circuit.type[m] = "IN" THEN p[m] ELSE Eval(circuit, f, m)
  BY PatternValues
<1> HIDE DEF g, f
<1> SUFFICES ASSUME S # {} PROVE FALSE
  BY DEF g, f
<1>2. PICK m \in S : \A k \in S : circuit.level[m] <= circuit.level[k]
  <2>1. S \subseteq N
    OBVIOUS
  <2> HIDE DEF S
  <2> QED BY <1>0, <2>1, LowestNet
<1>3. m # site /\ circuit.type[m] # "IN"
  BY <1>0, <1>1
<1>4. ASSUME NEW k \in Inputs(circuit, m) PROVE f[k] = g[k]
  <2>1. k \in N /\ m \in Outputs(circuit, k) /\ circuit.level[k] < circuit.level[m]
    BY <1>0, Edges
  <2>2. k \notin tfo
    BY <1>0, <2>1
  <2> QED BY <1>0, <1>2, <2>1, <2>2
<1>5. Eval(circuit, f, m) = Eval(circuit, g, m)
  BY <1>0, <1>3, <1>4, EvalDepends
<1> QED BY <1>1, <1>3, <1>5

\* The tests are the patterns that detect the fault.
LEMMA TestsDetect ==
  ASSUME Prepared
  PROVE  /\ \A t : t \in AllTests(circuit, site, target.stuck) <=>
                     \E p \in Patterns : Detects(p) /\ t = [good |-> Good(p), faulty |-> Faulty(p)]
         /\ \A p : p \in Detecting <=> p \in Patterns /\ Detects(p)
<1> DEFINE N == Nets(circuit)
           case == FaultAt(circuit, site, target.stuck)
<1>0. WellFormed(circuit) /\ InputsListed(circuit) /\ site \in N /\ target.stuck \in Bits
  BY DEF Prepared
<1>1. Patterns = InputPatterns(circuit)
  BY DEF Patterns, InputPatterns, InputNets
<1>2. InputNets = {n \in N : circuit.type[n] = "IN"}
  BY <1>0, InputNetsListed
<1>3. case.circuit = circuit /\ case.site = site /\ case.stuck = target.stuck
  BY DEF FaultAt
<1>4. excitation = circuit.first[site]
  BY DEF excitation, site
<1>5. ASSUME NEW p \in Patterns PROVE IsTest(case, Good(p), Faulty(p)) <=> Detects(p)
  <2> DEFINE g == Good(p)
             f == Faulty(p)
  <2>1. /\ \A n \in N : g[n] = IF circuit.type[n] = "IN" THEN p[n] ELSE Eval(circuit, g, n)
        /\ \A n \in N : f[n] = IF n = site THEN target.stuck
                               ELSE IF circuit.type[n] = "IN" THEN p[n] ELSE Eval(circuit, f, n)
        /\ g \in [N -> Bits] /\ f \in [N -> Bits]
    BY PatternValues
  <2> HIDE DEF g, f
  <2>2. IsValuation(circuit, g, {}) /\ IsValuation(circuit, f, {site})
    BY <2>1 DEF IsValuation
  <2>3. \A n \in N : circuit.type[n] = "IN" /\ n # site => f[n] = g[n]
    BY <2>1
  <2>4. f[site] = target.stuck
    BY <1>0, <2>1
  <2> HIDE DEF case
  <2>5. IsSimulation(case, g, f)
    BY <1>3, <2>2, <2>3, <2>4 DEF IsSimulation
  <2>6. IsTest(case, g, f) <=> /\ g[site] = 1 - target.stuck
                               /\ circuit.first[site] # None => g[circuit.first[site]] = target.stuck
                               /\ \E o \in Observed(circuit) : f[o] # g[o]
    BY <1>3, <2>5 DEF IsTest
  <2>7. IsTest(case, g, f) <=> Detects(p)
    BY <1>4, <2>6 DEF Detects, g, f
  <2> QED BY <2>7 DEF g, f
<1>6. AllSimulations(circuit, site, target.stuck) =
        {[good |-> Good(p), faulty |-> Faulty(p)] : p \in Patterns}
  BY <1>1 DEF AllSimulations, Good, Faulty
<1>7. ASSUME NEW t
      PROVE  t \in AllTests(circuit, site, target.stuck) <=>
               \E p \in Patterns : Detects(p) /\ t = [good |-> Good(p), faulty |-> Faulty(p)]
  <2>1. t \in AllTests(circuit, site, target.stuck) <=>
          t \in AllSimulations(circuit, site, target.stuck) /\ IsTest(case, t.good, t.faulty)
    BY DEF AllTests
  <2>2. t \in AllSimulations(circuit, site, target.stuck) <=>
          \E p \in Patterns : t = [good |-> Good(p), faulty |-> Faulty(p)]
    BY <1>6
  <2> HIDE DEF case
  <2>3. ASSUME NEW p \in Patterns, t = [good |-> Good(p), faulty |-> Faulty(p)]
        PROVE  IsTest(case, t.good, t.faulty) <=> Detects(p)
    <3>1. t.good = Good(p) /\ t.faulty = Faulty(p)
      BY <2>3
    <3> QED BY <1>5, <3>1
  <2> QED BY <2>1, <2>2, <2>3
<1>8. ASSUME NEW p \in Patterns PROVE [n \in InputNets |-> Good(p)[n]] = p
  <2>1. \A n \in InputNets : Good(p)[n] = p[n]
    BY <1>2, PatternValues
  <2> QED BY <2>1 DEF Patterns
<1>9. Detecting = {[n \in InputNets |-> t.good[n]] : t \in AllTests(circuit, site, target.stuck)}
  BY DEF Detecting
<1>10. ASSUME NEW p PROVE p \in Detecting <=> p \in Patterns /\ Detects(p)
  <2>1. ASSUME p \in Detecting PROVE p \in Patterns /\ Detects(p)
    <3>1. PICK t \in AllTests(circuit, site, target.stuck) : p = [n \in InputNets |-> t.good[n]]
      BY <1>9, <2>1
    <3>2. PICK q \in Patterns : Detects(q) /\ t = [good |-> Good(q), faulty |-> Faulty(q)]
      BY <1>7
    <3>3. t.good = Good(q)
      BY <3>2
    <3>4. p = q
      BY <1>8, <3>1, <3>3
    <3> QED BY <3>2, <3>4
  <2>2. ASSUME p \in Patterns, Detects(p) PROVE p \in Detecting
    <3> DEFINE t == [good |-> Good(p), faulty |-> Faulty(p)]
    <3>1. t \in AllTests(circuit, site, target.stuck)
      BY <1>7, <2>2
    <3>2. t.good = Good(p)
      OBVIOUS
    <3> HIDE DEF t
    <3>3. p = [n \in InputNets |-> t.good[n]]
      BY <1>8, <2>2, <3>2
    <3> QED BY <1>9, <3>1, <3>3
  <2> QED BY <2>1, <2>2
<1> QED BY <1>7, <1>10

-----------------------------------------------------------------------------
(* Every answer detects the fault *)

\* The clauses of a complete model, part by part.
LEMMA Parts ==
  ASSUME Complete, tpo # {}, NEW b
  PROVE  AllHold(b, clauses) <=>
           /\ AllHold(b, FaultyCircuit) /\ AllHold(b, PropagationChain) /\ AllHold(b, Comparator(Base))
           /\ AllHold(b, Excitation(Base)) /\ AllHold(b, GoodCircuit)
           /\ \E units \in {{}, EssentialUnits} :
                clauses = (DetectionClauses(Base) \union units) \union GoodCircuit /\ AllHold(b, units)
<1>1. PICK units \in {{}, EssentialUnits} :
             clauses = (DetectionClauses(Base) \union units) \union GoodCircuit
  BY DEF Complete
<1>2. AllHold(b, clauses) <=>
        AllHold(b, DetectionClauses(Base)) /\ AllHold(b, units) /\ AllHold(b, GoodCircuit)
  BY <1>1, HoldsTogether
<1>3. AllHold(b, DetectionClauses(Base)) <=>
        /\ AllHold(b, FaultyCircuit) /\ AllHold(b, PropagationChain)
        /\ AllHold(b, Comparator(Base)) /\ AllHold(b, Excitation(Base))
  <2> DEFINE two == FaultyCircuit \union PropagationChain
             three == two \union Comparator(Base)
  <2>1. AllHold(b, two) <=> AllHold(b, FaultyCircuit) /\ AllHold(b, PropagationChain)
    BY HoldsTogether
  <2>2. AllHold(b, three) <=> AllHold(b, two) /\ AllHold(b, Comparator(Base))
    BY HoldsTogether
  <2>3. AllHold(b, three \union Excitation(Base)) <=>
          AllHold(b, three) /\ AllHold(b, Excitation(Base))
    BY HoldsTogether
  <2>4. DetectionClauses(Base) = three \union Excitation(Base)
    BY DEF DetectionClauses
  <2> QED BY <2>1, <2>2, <2>3, <2>4
<1>4. ASSUME NEW more, clauses = (DetectionClauses(Base) \union more) \union GoodCircuit,
             AllHold(b, more), AllHold(b, DetectionClauses(Base)), AllHold(b, GoodCircuit)
      PROVE  AllHold(b, clauses)
  BY <1>4, HoldsTogether
<1> QED BY <1>1, <1>2, <1>3, <1>4

LEMMA UnitHolds ==
  ASSUME NEW b, NEW x \in Nat \ {0}, b[x] \in Bits, NEW v \in Bits
  PROVE  Satisfied(b, {Literal(x, v)}) <=> b[x] = v
<1>1. Satisfied(b, {Literal(x, v)}) <=> Holds(b, Literal(x, v))
  BY DEF Satisfied
<1>2. (Holds(b, x) <=> b[x] = 1) /\ (Holds(b, -x) <=> b[x] = 0)
  BY LiteralHolds
<1> QED BY <1>1, <1>2 DEF Literal, Bits

LEMMA FaultUnitsHold ==
  ASSUME Complete, tpo # {}, NEW b \in [1 .. LastVariable(Base) -> Bits]
  PROVE  AllHold(b, Excitation(Base)) <=>
           /\ b[varsgc[site]] = 1 - target.stuck
           /\ b[varsfc[site]] = target.stuck
           /\ b[LastVariable(Base)] = 1
           /\ excitation # None => b[varsgc[excitation]] = target.stuck
<1> DEFINE last == LastVariable(Base)
<1>0. Scoped /\ Prepared /\ site \in Nets(circuit) /\ target.stuck \in Bits
  BY DEF Complete, Scoped, Prepared
<1>1. /\ Constant \in Nat /\ Base \in Nat /\ Constant <= Base /\ last \in Nat /\ Base < last
      /\ \A n \in Nets(circuit) : varsgc[n] \in 1 .. Constant
      /\ \A n \in tfo : varsfc[n] \in Constant + 1 .. Base
  BY <1>0, Numbers, DifferenceNumbers
<1>2. site \in tfo /\ (excitation # None => excitation \in Nets(circuit))
  BY <1>0, Scopes
<1>3. Excitation(Base) =
        {{Literal(varsgc[site], 1 - target.stuck)}, {Literal(varsfc[site], target.stuck)}, {last}}
                         \union {{Literal(varsgc[n], target.stuck)} : n \in {excitation} \ {None}}
  BY DEF Excitation
<1> HIDE DEF last, Base
<1>4. /\ \A n \in Nets(circuit) : varsgc[n] \in 1 .. last
      /\ varsfc[site] \in 1 .. last /\ last \in 1 .. last
  BY <1>0, <1>1, <1>2
<1>5. \A x \in 1 .. last : x \in Nat \ {0} /\ b[x] \in Bits
  BY DEF last
<1>6. target.stuck \in Bits /\ 1 - target.stuck \in Bits
  BY <1>0 DEF Bits
<1> DEFINE u == 1 - target.stuck
<1>6a. \A x \in 1 .. last, v \in Bits : Satisfied(b, {Literal(x, v)}) <=> b[x] = v
  BY <1>5, UnitHolds
<1>7. Satisfied(b, {Literal(varsgc[site], 1 - target.stuck)}) <=> b[varsgc[site]] = 1 - target.stuck
  <2>1. u \in Bits
    BY <1>6
  <2> HIDE DEF u
  <2>2. Satisfied(b, {Literal(varsgc[site], u)}) <=> b[varsgc[site]] = u
    BY <1>0, <1>4, <1>6a, <2>1
  <2> QED BY <2>2 DEF u
<1>8. Satisfied(b, {Literal(varsfc[site], target.stuck)}) <=> b[varsfc[site]] = target.stuck
  BY <1>4, <1>5, <1>6, UnitHolds
<1>9. Satisfied(b, {last}) <=> b[last] = 1
  <2>1. Holds(b, last) <=> b[last] = 1
    BY <1>4, <1>5, LiteralHolds
  <2> QED BY <2>1 DEF Satisfied
<1>10. \A n \in Nets(circuit) : Satisfied(b, {Literal(varsgc[n], target.stuck)}) <=>
         b[varsgc[n]] = target.stuck
  BY <1>4, <1>5, <1>6, UnitHolds
<1>11. AllHold(b, {{Literal(varsgc[n], target.stuck)} : n \in {excitation} \ {None}}) <=>
         (excitation # None => Satisfied(b, {Literal(varsgc[excitation], target.stuck)}))
  BY DEF AllHold
<1>12. \A S, T, U : AllHold(b, {S, T, U}) <=> Satisfied(b, S) /\ Satisfied(b, T) /\ Satisfied(b, U)
  BY DEF AllHold
<1> DEFINE units == {{Literal(varsgc[n], target.stuck)} : n \in {excitation} \ {None}}
           S == {Literal(varsgc[site], 1 - target.stuck)}
           T == {Literal(varsfc[site], target.stuck)}
<1> HIDE DEF units, S, T
<1>13. AllHold(b, Excitation(Base)) <=>
         Satisfied(b, S) /\ Satisfied(b, T) /\ Satisfied(b, {last}) /\ AllHold(b, units)
  <2>1. Excitation(Base) = {S, T, {last}} \union units
    BY <1>3 DEF S, T, units
  <2> QED BY <1>12, <2>1, HoldsTogether
<1>14. AllHold(b, units) <=> (excitation # None => b[varsgc[excitation]] = target.stuck)
  BY <1>2, <1>10, <1>11 DEF units
<1> QED BY <1>7, <1>8, <1>9, <1>13, <1>14 DEF S, T, last

\* The comparator's clauses: a variable of an output says that it differs, the
\* last that one of them does.
LEMMA ComparatorMeaning ==
  ASSUME Complete, tpo # {}, NEW b \in [1 .. LastVariable(Base) -> Bits]
  PROVE  AllHold(b, Comparator(Base)) <=>
           /\ \A o \in tpo : b[Difference(Base, o)] = IF b[varsgc[o]] = b[varsfc[o]] THEN 0 ELSE 1
           /\ Cardinality(tpo) > 1 =>
                b[LastVariable(Base)] = IF \E o \in tpo : b[Difference(Base, o)] = 1 THEN 1 ELSE 0
<1> DEFINE last == LastVariable(Base)
           count == Cardinality(tpo)
           x == [i \in 1 .. count |-> last - count + i - 1]
           y(o) == <<varsgc[o], varsfc[o]>>
           Compared(o) == GateClauses("EXOR", y(o), Difference(Base, o))
           one == UNION {Compared(o) : o \in tpo}
           any == IF count > 1 THEN GateClauses("OR", x, last) ELSE {}
<1>0. Scoped /\ Prepared
  BY DEF Complete, Scoped
<1>1. /\ Constant \in Nat /\ Base \in Nat /\ Constant <= Base /\ last \in Nat /\ Base < last
      /\ \A n \in Nets(circuit) : varsgc[n] \in 1 .. Constant
      /\ \A n \in tfo : varsfc[n] \in Constant + 1 .. Base
      /\ \A o \in tpo : Difference(Base, o) \in Base + 1 .. last
      /\ IsFiniteSet(tpo) /\ count \in Nat
  BY <1>0, Numbers, DifferenceNumbers
<1>2. tpo \subseteq tfo /\ tfo \subseteq Nets(circuit)
  BY <1>0, Scopes DEF Scoped
<1>3. \A o \in tpo :
        varsgc[o] \in 1 .. last /\ varsfc[o] \in 1 .. last /\ Difference(Base, o) \in 1 .. last
  <2> HIDE DEF last, Base
  <2> QED BY <1>1, <1>2
<1>4. \A z \in 1 .. last : z \in Nat \ {0} /\ b[z] \in Bits
  OBVIOUS
<1>5. Comparator(Base) = one \union any
  BY DEF Comparator
<1>6. ASSUME NEW o \in tpo
      PROVE  AllHold(b, Compared(o)) <=>
               b[Difference(Base, o)] = IF b[varsgc[o]] = b[varsfc[o]] THEN 0 ELSE 1
  <2> DEFINE z == y(o)
  <2>1. z[1] = varsgc[o] /\ z[2] = varsfc[o]
    OBVIOUS
  <2> HIDE DEF z, last
  <2>2. /\ Difference(Base, o) \in Nat \ {0} /\ b[Difference(Base, o)] \in Bits
        /\ z[1] \in Nat \ {0} /\ b[z[1]] \in Bits /\ z[2] \in Nat \ {0} /\ b[z[2]] \in Bits
    BY <1>3, <1>4, <2>1
  <2>3. AllHold(b, GateClauses("EXOR", z, Difference(Base, o))) <=>
          b[Difference(Base, o)] = OutputOf("EXOR", b, z)
    <3>1. "EXOR" \in {"EXOR", "EXNOR"}
      OBVIOUS
    <3> QED BY <2>2, <3>1, ParityMeaning
  <2>4. OutputOf("EXOR", b, z) = IF b[varsgc[o]] = b[varsfc[o]] THEN 0 ELSE 1
    BY <2>1 DEF OutputOf, Controllable
  <2> QED BY <2>3, <2>4 DEF z
<1>7. AllHold(b, one) <=> \A o \in tpo : AllHold(b, Compared(o))
  <2> HIDE DEF Compared
  <2> QED BY DEF AllHold
<1>8. ASSUME count > 1
      PROVE  AllHold(b, any) <=> b[last] = IF \E o \in tpo : b[Difference(Base, o)] = 1 THEN 1 ELSE 0
  <2>1. last = Base + count + 1
    BY <1>8 DEF LastVariable
  <2>2. \A o : Difference(Base, o) = Base + Position(o, tpo)
    BY DEF Difference
  <2>3. DOMAIN x = 1 .. count /\ \A i \in 1 .. count : x[i] = Base + i
    <3>1. \A i \in 1 .. count : x[i] = last - count + i - 1
      OBVIOUS
    <3> HIDE DEF last, Base, count
    <3>2. \A i \in 1 .. count : last - count + i - 1 = Base + i
      BY <1>1, <2>1
    <3> QED BY <3>1, <3>2
  <2>4. \A o \in tpo : Position(o, tpo) \in 1 .. count
    <3>1. tpo \subseteq Nat
      BY <1>0, <1>2 DEF Prepared, WellFormed
    <3> QED BY <1>1, <3>1, Positions
  <2>5. \A i \in 1 .. count : \E o \in tpo : Position(o, tpo) = i
    <3>1. tpo \subseteq Nat
      BY <1>0, <1>2 DEF Prepared, WellFormed
    <3> QED BY <1>1, <3>1, PositionsTaken
  <2> HIDE DEF count, x, Base
  <2>6. \A i \in 1 .. count : x[i] \in 1 .. last
    <3> HIDE DEF last
    <3> QED BY <1>1, <2>1, <2>3
  <2>7. last \in 1 .. last
    BY <1>1
  <2>8. x \in Seq(Nat \ {0})
    <3>1. x \in [1 .. count -> Nat \ {0}]
      <4>1. x = [i \in 1 .. count |-> x[i]]
        BY DEF x
      <4> QED BY <1>4, <2>6, <4>1
    <3> QED BY <1>1, <3>1
  <2>9. AllHold(b, GateClauses("OR", x, last)) <=> b[last] = OutputOf("OR", b, x)
    <3>1. \A i \in DOMAIN x : b[x[i]] \in Bits
      BY <1>4, <2>3, <2>6
    <3>2. last \in Nat \ {0} /\ b[last] \in Bits
      BY <1>4, <2>7
    <3>3. "OR" \in Controllable
      BY DEF Controllable
    <3> HIDE DEF last
    <3> QED BY <2>8, <3>1, <3>2, <3>3, ControllableMeaning
  <2>10. OutputOf("OR", b, x) = IF \A i \in DOMAIN x : b[x[i]] = 0 THEN 0 ELSE 1
    BY DEF OutputOf, Controllable, NonControlling, Uncontrolled
  <2>11. (\A i \in DOMAIN x : b[x[i]] = 0) <=> ~ \E o \in tpo : b[Difference(Base, o)] = 1
    <3>1. \A o \in tpo : Position(o, tpo) \in DOMAIN x /\ x[Position(o, tpo)] = Difference(Base, o)
      BY <2>2, <2>3, <2>4
    <3>2. \A i \in DOMAIN x : b[x[i]] \in Bits /\ \E o \in tpo : x[i] = Difference(Base, o)
      BY <1>4, <2>2, <2>3, <2>5, <2>6
    <3> QED BY <3>1, <3>2 DEF Bits
  <2> QED BY <1>8, <2>9, <2>10, <2>11
<1>9. ~ (count > 1) => AllHold(b, any)
  BY DEF AllHold
<1> HIDE DEF one, any, Compared, count, last
<1>10. AllHold(b, Comparator(Base)) <=> AllHold(b, one) /\ AllHold(b, any)
  BY <1>5, HoldsTogether
<1> QED BY <1>6, <1>7, <1>8, <1>9, <1>10 DEF count, last

\* Values of the variables that satisfy a gate's clauses obey the gate.
LEMMA DefinitionsMean ==
  ASSUME Complete, tpo # {}, NEW b \in [1 .. LastVariable(Base) -> Bits]
  PROVE  /\ \A n \in Nets(circuit) :
              /\ varsgc[n] \in Nat \ {0} /\ b[varsgc[n]] \in Bits
              /\ varsfc[n] \in Nat \ {0} /\ b[varsfc[n]] \in Bits
         /\ \A n \in Nets(circuit) : circuit.type[n] # "IN" =>
              /\ AllHold(b, Definition(n, varsgc)) <=>
                   b[varsgc[n]] = Eval(circuit, [m \in Nets(circuit) |-> b[varsgc[m]]], n)
              /\ AllHold(b, Definition(n, varsfc)) <=>
                   b[varsfc[n]] = Eval(circuit, [m \in Nets(circuit) |-> b[varsfc[m]]], n)
         /\ \A n \in Nets(circuit) : \A var : circuit.type[n] = "IN" => AllHold(b, Definition(n, var))
<1> DEFINE last == LastVariable(Base)
<1>0. Scoped /\ Prepared /\ WellFormed(circuit)
  BY DEF Complete, Scoped, Prepared
<1>1. /\ Constant \in Nat /\ Base \in Nat /\ Constant <= Base /\ last \in Nat /\ Base < last
      /\ \A n \in Nets(circuit) : varsgc[n] \in 1 .. Constant
      /\ \A n \in Nets(circuit) \ tfo : varsfc[n] = varsgc[n]
      /\ \A n \in tfo : varsfc[n] \in Constant + 1 .. Base
  BY <1>0, Numbers, DifferenceNumbers
<1>2. \A n \in Nets(circuit) : varsgc[n] \in 1 .. last /\ varsfc[n] \in 1 .. last
  <2> HIDE DEF last, Base
  <2> QED BY <1>1
<1>3. \A x \in 1 .. last : x \in Nat \ {0} /\ b[x] \in Bits
  OBVIOUS
<1>4. \A n \in Nets(circuit) : /\ varsgc[n] \in Nat \ {0} /\ b[varsgc[n]] \in Bits
                               /\ varsfc[n] \in Nat \ {0} /\ b[varsfc[n]] \in Bits
  <2> HIDE DEF last
  <2> QED BY <1>2, <1>3
<1>5. ASSUME NEW n \in Nets(circuit), circuit.type[n] # "IN"
      PROVE  AllHold(b, Definition(n, varsgc)) <=>
               b[varsgc[n]] = Eval(circuit, [m \in Nets(circuit) |-> b[varsgc[m]]], n)
  <2>1. /\ \A m \in Nets(circuit) : varsgc[m] \in Nat \ {0}
        /\ \A m \in Nets(circuit) : b[varsgc[m]] \in Bits
    BY <1>4
  <2> QED BY <1>0, <1>5, <2>1, DefinitionMeaning
<1>6. ASSUME NEW n \in Nets(circuit), circuit.type[n] # "IN"
      PROVE  AllHold(b, Definition(n, varsfc)) <=>
               b[varsfc[n]] = Eval(circuit, [m \in Nets(circuit) |-> b[varsfc[m]]], n)
  <2>1. /\ \A m \in Nets(circuit) : varsfc[m] \in Nat \ {0}
        /\ \A m \in Nets(circuit) : b[varsfc[m]] \in Bits
    BY <1>4
  <2> QED BY <1>0, <1>6, <2>1, DefinitionMeaning
<1>7. ASSUME NEW n \in Nets(circuit), NEW var, circuit.type[n] = "IN"
      PROVE  AllHold(b, Definition(n, var))
  <2>1. Definition(n, var) = {}
    BY <1>7 DEF Definition, GateClauses, Controllable
  <2> QED BY <2>1 DEF AllHold
<1> QED BY <1>4, <1>5, <1>6, <1>7

\* Satisfying values are the pattern's on the scope, and make it a test.
LEMMA ModelDetects ==
  ASSUME Complete, tpo # {}, NEW b \in [1 .. LastVariable(Base) -> Bits], AllHold(b, clauses)
  PROVE  InputsOf(b) \in Patterns /\ Detects(InputsOf(b))
<1> DEFINE N == Nets(circuit)
           p == InputsOf(b)
           G == [n \in N |-> b[varsgc[n]]]
           F == [n \in N |-> b[varsfc[n]]]
           g == Good(p)
           f == Faulty(p)
<1>0. /\ Scoped /\ Prepared /\ WellFormed(circuit) /\ InputsListed(circuit)
      /\ circuit.level \in [N -> Nat] /\ \A n \in N : circuit.level[n] \in Nat
  BY DEF Complete, Scoped, Prepared, WellFormed
<1>1. /\ tfo \subseteq N /\ site \in tfo
      /\ \A n \in tfo \ {site} : circuit.type[n] # "IN"
      /\ tpo \subseteq detection /\ detection \subseteq needed /\ needed \subseteq N
      /\ \A n \in detection : Inputs(circuit, n) \subseteq detection
      /\ \A n \in needed : Inputs(circuit, n) \subseteq needed
      /\ excitation # None => excitation \in needed
      /\ site \in detection
  BY <1>0, Scopes
<1>2. InputNets = {n \in N : circuit.type[n] = "IN"}
  BY <1>0, InputNetsListed
<1>3. /\ \A n \in N : b[varsgc[n]] \in Bits
      /\ \A n \in N : circuit.type[n] # "IN" =>
           /\ AllHold(b, Definition(n, varsgc)) <=> b[varsgc[n]] = Eval(circuit, G, n)
           /\ AllHold(b, Definition(n, varsfc)) <=> b[varsfc[n]] = Eval(circuit, F, n)
  BY DefinitionsMean
<1>4. p \in Patterns /\ \A n \in InputNets : p[n] = G[n]
  BY <1>2, <1>3 DEF InputsOf, Patterns
<1>5. /\ \A n \in N : g[n] = IF circuit.type[n] = "IN" THEN p[n] ELSE Eval(circuit, g, n)
      /\ \A n \in N : f[n] = IF n = site THEN target.stuck
                             ELSE IF circuit.type[n] = "IN" THEN p[n] ELSE Eval(circuit, f, n)
      /\ g \in [N -> Bits] /\ f \in [N -> Bits]
  BY <1>0, <1>4, PatternValues
<1>6. \A n \in N \ tfo : f[n] = g[n]
  BY <1>0, <1>4, Unreached
<1>7. /\ AllHold(b, FaultyCircuit) /\ AllHold(b, Comparator(Base))
      /\ AllHold(b, Excitation(Base)) /\ AllHold(b, GoodCircuit)
  BY Parts
<1>8. /\ G[site] = 1 - target.stuck /\ F[site] = target.stuck /\ b[LastVariable(Base)] = 1
      /\ excitation # None => G[excitation] = target.stuck
  BY <1>1, <1>7, FaultUnitsHold
<1>9. \A n \in N \ tfo : F[n] = G[n]
  BY <1>0, Numbers
<1>10. \A n \in needed : circuit.type[n] # "IN" => G[n] = Eval(circuit, G, n)
  <2>1. \A n \in needed : AllHold(b, Definition(n, varsgc))
    BY <1>7 DEF GoodCircuit, AllHold
  <2> QED BY <1>1, <1>3, <2>1
<1>11. \A n \in (tfo \ {site}) \intersect detection : F[n] = Eval(circuit, F, n)
  <2>1. \A n \in (tfo \ {site}) \intersect detection : AllHold(b, Definition(n, varsfc))
    BY <1>7 DEF FaultyCircuit, AllHold
  <2> QED BY <1>1, <1>3, <2>1
<1> HIDE DEF p, g, f, G, F
<1>12. \A n \in needed : G[n] = g[n]
  <2> DEFINE S == {n \in needed : G[n] # g[n]}
  <2> SUFFICES ASSUME S # {} PROVE FALSE
    OBVIOUS
  <2>1. PICK n \in S : \A m \in S : circuit.level[n] <= circuit.level[m]
    <3>1. S \subseteq N
      BY <1>1
    <3> HIDE DEF S
    <3> QED BY <1>0, <3>1, LowestNet
  <2>2. n \in N /\ circuit.type[n] # "IN"
    BY <1>1, <1>2, <1>4, <1>5
  <2>3. ASSUME NEW m \in Inputs(circuit, n) PROVE G[m] = g[m]
    <3>1. m \in N /\ circuit.level[m] < circuit.level[n]
      BY <1>0, <2>2, Edges
    <3> QED BY <1>0, <1>1, <2>1, <3>1
  <2>4. Eval(circuit, G, n) = Eval(circuit, g, n)
    BY <1>0, <2>2, <2>3, EvalDepends
  <2> QED BY <1>5, <1>10, <2>2, <2>4
<1>13. \A n \in detection : F[n] = f[n]
  <2> DEFINE S == {n \in detection : F[n] # f[n]}
  <2> SUFFICES ASSUME S # {} PROVE FALSE
    OBVIOUS
  <2>1. PICK n \in S : \A m \in S : circuit.level[n] <= circuit.level[m]
    <3>1. S \subseteq N
      BY <1>1
    <3> HIDE DEF S
    <3> QED BY <1>0, <3>1, LowestNet
  <2>2. n \in tfo \ {site}
    <3>1. n \notin tfo => F[n] = G[n] /\ f[n] = g[n] /\ G[n] = g[n]
      BY <1>1, <1>6, <1>9, <1>12
    <3>2. n = site => F[n] = f[n]
      BY <1>1, <1>5, <1>8
    <3> QED BY <3>1, <3>2
  <2>3. n \in N /\ circuit.type[n] # "IN"
    BY <1>1, <2>2
  <2>4. ASSUME NEW m \in Inputs(circuit, n) PROVE F[m] = f[m]
    <3>1. m \in N /\ circuit.level[m] < circuit.level[n]
      BY <1>0, <2>3, Edges
    <3> QED BY <1>0, <1>1, <2>1, <2>3, <3>1
  <2>5. Eval(circuit, F, n) = Eval(circuit, f, n)
    BY <1>0, <2>3, <2>4, EvalDepends
  <2>6. F[n] = Eval(circuit, F, n)
    BY <1>11, <2>2
  <2> QED BY <1>5, <2>2, <2>3, <2>5, <2>6
<1>14. PICK o \in tpo : G[o] # F[o]
  <2>1. /\ \A o \in tpo : b[Difference(Base, o)] = IF b[varsgc[o]] = b[varsfc[o]] THEN 0 ELSE 1
        /\ Cardinality(tpo) > 1 =>
             b[LastVariable(Base)] = IF \E o \in tpo : b[Difference(Base, o)] = 1 THEN 1 ELSE 0
    BY <1>7, ComparatorMeaning
  <2>2. /\ Cardinality(tpo) \in Nat /\ Cardinality(tpo) # 0
        /\ Cardinality(tpo) = 1 => \A o \in tpo : Difference(Base, o) = LastVariable(Base)
    BY <1>0, DifferenceNumbers
  <2>3. \E o \in tpo : b[Difference(Base, o)] = 1
    <3>1. CASE Cardinality(tpo) > 1
      BY <1>8, <2>1, <3>1
    <3>2. CASE Cardinality(tpo) = 1
      BY <1>8, <2>2, <3>2
    <3> QED BY <2>2, <3>1, <3>2
  <2>4. \A o \in tpo : G[o] = b[varsgc[o]] /\ F[o] = b[varsfc[o]]
    BY <1>1 DEF G, F
  <2> QED BY <2>1, <2>3, <2>4
<1>15. o \in Observed(circuit) /\ f[o] # g[o]
  BY <1>0, <1>1, <1>12, <1>13, <1>14 DEF Scoped
<1>16. g[site] = 1 - target.stuck /\ (excitation # None => g[excitation] = target.stuck)
  BY <1>1, <1>8, <1>12
<1> QED BY <1>4, <1>15, <1>16 DEF Detects, p, g, f

-----------------------------------------------------------------------------
(* Every test satisfies the clauses *)

\* A fault that is seen is seen at an output that it reaches, and nets of
\* different values lead there from its site, each to the next.
LEMMA ActiveNets ==
  ASSUME Scoped, NEW p \in Patterns, Detects(p)
  PROVE  /\ \E o \in tpo : Faulty(p)[o] # Good(p)[o]
         /\ \E S \in SUBSET (tfo \intersect detection) :
              /\ site \in S
              /\ \A n \in S : Good(p)[n] # Faulty(p)[n]
              /\ \A n \in S :
                   Outputs(circuit, n) = {} \/ n \in tpo \/ \E m \in Outputs(circuit, n) : m \in S
<1> DEFINE N == Nets(circuit)
           g == Good(p)
           f == Faulty(p)
           Continuing(C) ==
             /\ \A n \in C : g[n] # f[n]
             /\ \A n \in C :
                  Outputs(circuit, n) = {} \/ n \in tpo \/ \E m \in Outputs(circuit, n) : m \in C
           D == tfo \intersect detection
           S == UNION {C \in SUBSET D : Continuing(C)}
<1>0. /\ Prepared /\ WellFormed(circuit)
      /\ circuit.level \in [N -> Nat] /\ \A n \in N : circuit.level[n] \in Nat
  BY DEF Scoped, Prepared, WellFormed
<1>1. /\ tfo \subseteq N /\ site \in tfo
      /\ \A n \in tfo \ {site} : circuit.type[n] # "IN"
      /\ tpo \subseteq detection /\ detection \subseteq N
      /\ \A n \in detection : Inputs(circuit, n) \subseteq detection
      /\ tpo = Observed(circuit) \intersect tfo
  BY Scopes DEF Scoped
<1>2. /\ \A n \in N : g[n] = IF circuit.type[n] = "IN" THEN p[n] ELSE Eval(circuit, g, n)
      /\ \A n \in N : f[n] = IF n = site THEN target.stuck
                             ELSE IF circuit.type[n] = "IN" THEN p[n] ELSE Eval(circuit, f, n)
  BY <1>0, PatternValues
<1>3. \A n \in N \ tfo : f[n] = g[n]
  BY <1>0, Unreached
<1>4. PICK o \in tpo : f[o] # g[o]
  <2>1. PICK o \in Observed(circuit) : f[o] # g[o]
    BY DEF Detects
  <2>2. o \in N
    BY <1>0 DEF WellFormed
  <2> QED BY <1>1, <1>3, <2>1, <2>2
<1> HIDE DEF g, f
<1>5. o \in S
  <2>1. {o} \in SUBSET D /\ Continuing({o})
    BY <1>1, <1>4
  <2> HIDE DEF Continuing, D
  <2> QED BY <2>1
<1>6. Continuing(S) /\ S \in SUBSET D
  <2>1. \A n \in S : \E C \in SUBSET D : n \in C /\ Continuing(C) /\ C \subseteq S
    <3> HIDE DEF Continuing, D
    <3> QED OBVIOUS
  <2>2. S \in SUBSET D
    <3> HIDE DEF Continuing, D
    <3> QED OBVIOUS
  <2> HIDE DEF S, D
  <2>3. ASSUME NEW n \in S
        PROVE  /\ g[n] # f[n]
               /\ Outputs(circuit, n) = {} \/ n \in tpo \/ \E m \in Outputs(circuit, n) : m \in S
    <3>1. PICK C \in SUBSET D : n \in C /\ Continuing(C) /\ C \subseteq S
      BY <2>1
    <3> QED BY <3>1
  <2> QED BY <2>2, <2>3
<1>7. PICK n \in S : \A m \in S : circuit.level[n] <= circuit.level[m]
  <2>1. S \subseteq N /\ S # {}
    <3>1. D \subseteq N
      BY <1>1
    <3> HIDE DEF S, D
    <3> QED BY <1>5, <1>6, <3>1
  <2> HIDE DEF S
  <2> QED BY <1>0, <2>1, LowestNet
<1> HIDE DEF S
<1>8. n = site
  <2> SUFFICES ASSUME n # site PROVE FALSE
    OBVIOUS
  <2>1. n \in tfo \ {site} /\ n \in detection /\ n \in N /\ circuit.type[n] # "IN" /\ g[n] # f[n]
    BY <1>1, <1>6
  <2>2. Eval(circuit, g, n) # Eval(circuit, f, n)
    BY <1>2, <2>1
  <2>3. PICK m \in Inputs(circuit, n) : g[m] # f[m]
    BY <1>0, <2>1, <2>2, EvalDepends
  <2>4. m \in N /\ n \in Outputs(circuit, m) /\ circuit.level[m] < circuit.level[n]
    BY <1>0, <2>1, Edges
  <2>5. m \in D
    BY <1>1, <1>3, <2>1, <2>3, <2>4
  <2>6. Continuing(S \union {m}) /\ S \union {m} \in SUBSET D
    <3>1. \A k \in S \union {m} : g[k] # f[k]
      BY <1>6, <2>3
    <3>2. \A k \in S \union {m} :
            Outputs(circuit, k) = {} \/ k \in tpo \/ \E j \in Outputs(circuit, k) : j \in S \union {m}
      BY <1>6, <2>4
    <3> HIDE DEF D
    <3> QED BY <1>6, <2>5, <3>1, <3>2
  <2>7. m \in S
    <3> HIDE DEF Continuing, D
    <3> QED BY <2>6 DEF S
  <2> QED BY <1>0, <1>7, <2>1, <2>4, <2>7
<1>9. \E A \in SUBSET D : site \in A /\ Continuing(A)
  BY <1>6, <1>8
<1> QED BY <1>4, <1>9 DEF g, f

\* Values of all variables for a test: those of the good and of the faulty
\* circuit, true for the nets S in the chain and for outputs that differ.
Assigned(p, S) ==
  LET true == {varsgc[n] : n \in {m \in Nets(circuit) : Good(p)[m] = 1}}
              \union {varsfc[n] : n \in {m \in Nets(circuit) : Faulty(p)[m] = 1}}
              \union {varprop[n] : n \in S}
              \union {Difference(Base, o) : o \in {q \in tpo : Faulty(p)[q] # Good(p)[q]}}
              \union {LastVariable(Base)}
  IN [x \in 1 .. LastVariable(Base) |-> IF x \in true THEN 1 ELSE 0]

LEMMA AssignedValues ==
  ASSUME Scoped, NEW p \in Patterns, \E o \in tpo : Faulty(p)[o] # Good(p)[o],
         NEW S \in SUBSET tfo
  PROVE  /\ Assigned(p, S) \in [1 .. LastVariable(Base) -> Bits]
         /\ \A n \in Nets(circuit) : /\ Assigned(p, S)[varsgc[n]] = Good(p)[n]
                                     /\ Assigned(p, S)[varsfc[n]] = Faulty(p)[n]
         /\ \A n \in tfo : Assigned(p, S)[varprop[n]] = IF n \in S THEN 1 ELSE 0
         /\ \A o \in tpo :
              Assigned(p, S)[Difference(Base, o)] = IF Faulty(p)[o] # Good(p)[o] THEN 1 ELSE 0
         /\ Assigned(p, S)[LastVariable(Base)] = 1
<1> DEFINE N == Nets(circuit)
           last == LastVariable(Base)
           g == Good(p)
           f == Faulty(p)
           b == Assigned(p, S)
           true1 == {varsgc[n] : n \in {m \in N : g[m] = 1}}
           true2 == {varsfc[n] : n \in {m \in N : f[m] = 1}}
           true3 == {varprop[n] : n \in S}
           true4 == {Difference(Base, o) : o \in {q \in tpo : f[q] # g[q]}}
           true == true1 \union true2 \union true3 \union true4 \union {last}
<1>0. Prepared /\ tpo \subseteq tfo /\ tfo \subseteq N /\ tpo # {}
  BY Scopes DEF Scoped
<1>1. /\ Constant \in Nat /\ Base \in Nat /\ Constant <= Base /\ last \in Nat /\ Base < last
      /\ \A n \in N : varsgc[n] \in 1 .. Constant
      /\ \A n, k \in N : varsgc[n] = varsgc[k] => n = k
      /\ \A n \in N \ tfo : varsfc[n] = varsgc[n]
      /\ \A n \in tfo : varsfc[n] \in Constant + 1 .. Base /\ varprop[n] \in Constant + 1 .. Base
      /\ \A n, k \in tfo : varsfc[n] = varsfc[k] => n = k
      /\ \A n, k \in tfo : varprop[n] = varprop[k] => n = k
      /\ \A n, k \in tfo : varsfc[n] # varprop[k]
      /\ \A o \in tpo : Difference(Base, o) \in Base + 1 .. last
      /\ \A o, q \in tpo : Difference(Base, o) = Difference(Base, q) => o = q
      /\ Cardinality(tpo) > 1 => \A o \in tpo : Difference(Base, o) # last
      /\ Cardinality(tpo) = 1 => \A o \in tpo : Difference(Base, o) = last
      /\ Cardinality(tpo) \in Nat /\ Cardinality(tpo) # 0
  BY <1>0, Numbers, DifferenceNumbers
<1>2. b = [x \in 1 .. last |-> IF x \in true THEN 1 ELSE 0]
  BY DEF Assigned
<1>3. b \in [1 .. last -> Bits] /\ \A x \in 1 .. last : b[x] = IF x \in true THEN 1 ELSE 0
  <2> HIDE DEF b, true, last
  <2> QED BY <1>2 DEF Bits
<1>4. /\ \A n \in N \ tfo : f[n] = g[n]
      /\ \A n \in N : g[n] \in {0, 1} /\ f[n] \in {0, 1}
  <2>1. g \in [N -> Bits] /\ f \in [N -> Bits]
    BY <1>0, PatternValues
  <2>2. \A n \in N \ tfo : f[n] = g[n]
    BY <1>0, Unreached
  <2> QED BY <2>1, <2>2 DEF Bits
<1>5. /\ \A x : x \in true1 <=> \E n \in N : g[n] = 1 /\ x = varsgc[n]
      /\ \A x : x \in true2 <=> \E n \in N : f[n] = 1 /\ x = varsfc[n]
      /\ \A x : x \in true3 <=> \E n \in S : x = varprop[n]
      /\ \A x : x \in true4 <=> \E o \in tpo : f[o] # g[o] /\ x = Difference(Base, o)
  OBVIOUS
<1> DEFINE Small(x) == x \in 1 .. Constant
           Middle(x) == x \in Constant + 1 .. Base
           Large(x) == x \in Base + 1 .. last
<1>6. /\ \A x : ~ (Small(x) /\ Middle(x)) /\ ~ (Small(x) /\ Large(x)) /\ ~ (Middle(x) /\ Large(x))
      /\ \A x : Small(x) \/ Middle(x) \/ Large(x) => x \in 1 .. last
      /\ Large(last)
  <2> HIDE DEF last, Base
  <2> QED BY <1>1
<1>7. /\ \A n \in N : Small(varsgc[n])
      /\ \A n \in tfo : Middle(varsfc[n]) /\ Middle(varprop[n])
      /\ \A o \in tpo : Large(Difference(Base, o))
  BY <1>1
<1> HIDE DEF g, f, b, true1, true2, true3, true4, last, Small, Middle, Large
<1>8. ASSUME NEW n \in N PROVE varsgc[n] \in true <=> g[n] = 1
  <2>1. varsgc[n] # last /\ varsgc[n] \notin true3 /\ varsgc[n] \notin true4
    BY <1>0, <1>5, <1>6, <1>7
  <2>2. varsgc[n] \in true1 <=> g[n] = 1
    BY <1>1, <1>5
  <2>3. ASSUME varsgc[n] \in true2 PROVE g[n] = 1
    <3>1. PICK k \in N : f[k] = 1 /\ varsgc[n] = varsfc[k]
      BY <1>5, <2>3
    <3>2. k \notin tfo
      BY <1>6, <1>7, <3>1
    <3>3. k = n
      BY <1>1, <3>1, <3>2
    <3> QED BY <1>4, <3>1, <3>2, <3>3
  <2> QED BY <2>1, <2>2, <2>3
<1>9. ASSUME NEW n \in tfo PROVE varsfc[n] \in true <=> f[n] = 1
  <2>1. varsfc[n] # last /\ varsfc[n] \notin true1 /\ varsfc[n] \notin true4
    BY <1>0, <1>5, <1>6, <1>7
  <2>2. varsfc[n] \notin true3
    BY <1>1, <1>5
  <2>3. varsfc[n] \in true2 => f[n] = 1
    <3> SUFFICES ASSUME varsfc[n] \in true2 PROVE f[n] = 1
      OBVIOUS
    <3>1. PICK k \in N : f[k] = 1 /\ varsfc[n] = varsfc[k]
      BY <1>5
    <3>2. k \in tfo
      BY <1>1, <1>6, <1>7, <3>1
    <3> QED BY <1>1, <3>1, <3>2
  <2>4. f[n] = 1 => varsfc[n] \in true2
    BY <1>0, <1>5
  <2> QED BY <2>1, <2>2, <2>3, <2>4
<1>10. ASSUME NEW n \in tfo PROVE varprop[n] \in true <=> n \in S
  <2>1. varprop[n] # last /\ varprop[n] \notin true1 /\ varprop[n] \notin true4
    BY <1>0, <1>5, <1>6, <1>7
  <2>2. varprop[n] \notin true2
    <3> SUFFICES ASSUME varprop[n] \in true2 PROVE FALSE
      OBVIOUS
    <3>1. PICK k \in N : f[k] = 1 /\ varprop[n] = varsfc[k]
      BY <1>5
    <3>2. k \in tfo
      BY <1>1, <1>6, <1>7, <3>1
    <3> QED BY <1>1, <3>1, <3>2
  <2>3. varprop[n] \in true3 <=> n \in S
    BY <1>1, <1>5
  <2> QED BY <2>1, <2>2, <2>3
<1>11. ASSUME NEW o \in tpo PROVE Difference(Base, o) \in true <=> f[o] # g[o]
  <2> DEFINE d == Difference(Base, o)
  <2>1. d \notin true1 /\ d \notin true3
    BY <1>0, <1>5, <1>6, <1>7
  <2>2. d \notin true2
    <3> SUFFICES ASSUME NEW k \in N PROVE d # varsfc[k]
      BY <1>5
    <3>1. Small(varsfc[k]) \/ Middle(varsfc[k])
      BY <1>1, <1>7
    <3> QED BY <1>6, <1>7, <3>1
  <2>3. d \in true4 <=> f[o] # g[o]
    BY <1>1, <1>5
  <2>4. d = last => f[o] # g[o]
    <3>1. PICK q \in tpo : f[q] # g[q]
      BY DEF f, g
    <3>2. d = last => Difference(Base, q) = d
      <4> HIDE DEF Base
      <4> QED BY <1>1
    <3> QED BY <1>1, <3>1, <3>2
  <2> HIDE DEF d
  <2>5. d \in true <=> f[o] # g[o]
    BY <2>1, <2>2, <2>3, <2>4
  <2> QED BY <2>5 DEF d
<1>12. last \in true
  OBVIOUS
<1> HIDE DEF true
<1>13. ASSUME NEW n \in N PROVE b[varsgc[n]] = g[n] /\ b[varsfc[n]] = f[n]
  <2>1. b[varsgc[n]] = g[n]
    BY <1>3, <1>4, <1>6, <1>7, <1>8
  <2>2. CASE n \in tfo
    BY <1>3, <1>4, <1>6, <1>7, <1>9, <2>1, <2>2
  <2>3. CASE n \notin tfo
    BY <1>1, <1>4, <2>1, <2>3
  <2> QED BY <2>1, <2>2, <2>3
<1>14. \A n \in tfo : b[varprop[n]] = IF n \in S THEN 1 ELSE 0
  BY <1>3, <1>6, <1>7, <1>10
<1>15. \A o \in tpo : b[Difference(Base, o)] = IF f[o] # g[o] THEN 1 ELSE 0
  BY <1>3, <1>6, <1>7, <1>11
<1>16. b[last] = 1
  BY <1>3, <1>6, <1>12
<1> QED BY <1>3, <1>13, <1>14, <1>15, <1>16 DEF b, g, f, last

LEMMA TestSatisfies ==
  ASSUME Complete, NEW p \in Patterns, Detects(p)
  PROVE  tpo # {} /\ \E b \in [1 .. LastVariable(Base) -> Bits] : AllHold(b, clauses) /\ p = InputsOf(b)
<1> DEFINE N == Nets(circuit)
           last == LastVariable(Base)
           g == Good(p)
           f == Faulty(p)
<1>0. /\ Scoped /\ Prepared /\ WellFormed(circuit) /\ InputsListed(circuit)
      /\ site \in N /\ target.stuck \in Bits
  BY DEF Complete, Scoped, Prepared
<1>1. /\ tfo \subseteq N /\ site \in tfo
      /\ \A n \in tfo : Outputs(circuit, n) \subseteq tfo
      /\ \A n \in tfo \ {site} : circuit.type[n] # "IN"
      /\ tpo \subseteq tfo /\ needed \subseteq N
      /\ excitation # None => excitation \in needed
  BY <1>0, Scopes DEF Scoped
<1>2. /\ \A n \in N : g[n] = IF circuit.type[n] = "IN" THEN p[n] ELSE Eval(circuit, g, n)
      /\ \A n \in N : f[n] = IF n = site THEN target.stuck
                             ELSE IF circuit.type[n] = "IN" THEN p[n] ELSE Eval(circuit, f, n)
      /\ g \in [N -> Bits] /\ f \in [N -> Bits]
  BY <1>0, PatternValues
<1>3. /\ \E o \in tpo : f[o] # g[o]
      /\ \E S \in SUBSET (tfo \intersect detection) :
              /\ site \in S
              /\ \A n \in S : g[n] # f[n]
              /\ \A n \in S :
                   Outputs(circuit, n) = {} \/ n \in tpo \/ \E m \in Outputs(circuit, n) : m \in S
  BY <1>0, ActiveNets
<1>4. tpo # {}
  BY <1>3
<1>5. PICK S \in SUBSET (tfo \intersect detection) :
              /\ site \in S
              /\ \A n \in S : g[n] # f[n]
              /\ \A n \in S :
                   Outputs(circuit, n) = {} \/ n \in tpo \/ \E m \in Outputs(circuit, n) : m \in S
  BY <1>3
<1> DEFINE b == Assigned(p, S)
<1>6. /\ b \in [1 .. last -> Bits]
      /\ \A n \in N : b[varsgc[n]] = g[n] /\ b[varsfc[n]] = f[n]
      /\ \A n \in tfo : b[varprop[n]] = IF n \in S THEN 1 ELSE 0
      /\ \A o \in tpo : b[Difference(Base, o)] = IF f[o] # g[o] THEN 1 ELSE 0
      /\ b[last] = 1
  <2>1. S \in SUBSET tfo
    OBVIOUS
  <2> QED BY <1>0, <1>3, <2>1, AssignedValues
<1> HIDE DEF b, g, f
<1>7. /\ \A n \in N : /\ varsgc[n] \in Nat \ {0} /\ b[varsgc[n]] \in Bits
                      /\ varsfc[n] \in Nat \ {0} /\ b[varsfc[n]] \in Bits
      /\ \A n \in N : circuit.type[n] # "IN" =>
           /\ AllHold(b, Definition(n, varsgc)) <=>
                b[varsgc[n]] = Eval(circuit, [m \in N |-> b[varsgc[m]]], n)
           /\ AllHold(b, Definition(n, varsfc)) <=>
                b[varsfc[n]] = Eval(circuit, [m \in N |-> b[varsfc[m]]], n)
      /\ \A n \in N : \A var : circuit.type[n] = "IN" => AllHold(b, Definition(n, var))
  BY <1>4, <1>6, DefinitionsMean
<1>8. [m \in N |-> b[varsgc[m]]] = g /\ [m \in N |-> b[varsfc[m]]] = f
  BY <1>2, <1>6
<1>9. AllHold(b, GoodCircuit)
  <2>1. ASSUME NEW n \in needed PROVE AllHold(b, Definition(n, varsgc))
    <3>1. CASE circuit.type[n] = "IN"
      BY <1>1, <1>7, <3>1
    <3>2. CASE circuit.type[n] # "IN"
      BY <1>1, <1>2, <1>6, <1>7, <1>8, <3>2
    <3> QED BY <3>1, <3>2
  <2> QED BY <2>1 DEF GoodCircuit, AllHold
<1>10. AllHold(b, FaultyCircuit)
  <2>1. ASSUME NEW n \in (tfo \ {site}) \intersect detection PROVE AllHold(b, Definition(n, varsfc))
    <3>1. n \in N /\ n # site /\ circuit.type[n] # "IN"
      BY <1>1
    <3> QED BY <1>2, <1>6, <1>7, <1>8, <3>1
  <2> QED BY <2>1 DEF FaultyCircuit, AllHold
<1>11. \A n \in tfo : /\ varprop[n] \in Nat \ {0}
                      /\ Holds(b, varprop[n]) <=> n \in S
                      /\ Holds(b, -varprop[n]) <=> n \notin S
  <2>1. \A n \in tfo : varprop[n] \in Nat \ {0}
    <3>1. /\ Constant \in Nat /\ Base \in Nat
          /\ \A n \in tfo : varprop[n] \in Constant + 1 .. Base
      BY <1>0, Numbers
    <3> HIDE DEF Base
    <3> QED BY <3>1
  <2>2. ASSUME NEW n \in tfo
        PROVE  (Holds(b, varprop[n]) <=> n \in S) /\ (Holds(b, -varprop[n]) <=> n \notin S)
    <3> DEFINE y == varprop[n]
    <3>1. y \in Nat \ {0} /\ b[y] = IF n \in S THEN 1 ELSE 0
      BY <1>6, <2>1
    <3> HIDE DEF y
    <3>2. (Holds(b, y) <=> n \in S) /\ (Holds(b, -y) <=> n \notin S)
      BY <3>1, LiteralHolds
    <3> QED BY <3>2 DEF y
  <2> QED BY <2>1, <2>2
<1>12. ASSUME NEW n \in tfo PROVE AllHold(b, Differs(n))
  <2>1. /\ Holds(b, varsgc[n]) <=> g[n] = 1
        /\ Holds(b, -varsgc[n]) <=> g[n] = 0
        /\ Holds(b, varsfc[n]) <=> f[n] = 1
        /\ Holds(b, -varsfc[n]) <=> f[n] = 0
    <3> DEFINE x == varsgc[n]
               y == varsfc[n]
    <3>1. x \in Nat \ {0} /\ y \in Nat \ {0} /\ b[x] = g[n] /\ b[y] = f[n]
      BY <1>1, <1>6, <1>7
    <3> HIDE DEF x, y
    <3>2. /\ Holds(b, x) <=> g[n] = 1
          /\ Holds(b, -x) <=> g[n] = 0
          /\ Holds(b, y) <=> f[n] = 1
          /\ Holds(b, -y) <=> f[n] = 0
      BY <3>1, LiteralHolds
    <3> QED BY <3>2 DEF x, y
  <2>2. g[n] \in Bits /\ f[n] \in Bits
    BY <1>1, <1>2
  <2>3. n \in S => (g[n] = 1 /\ f[n] = 0) \/ (g[n] = 0 /\ f[n] = 1)
    BY <1>5, <2>2 DEF Bits
  <2>4. Satisfied(b, {-varprop[n], varsgc[n], varsfc[n]})
          /\ Satisfied(b, {-varprop[n], -varsgc[n], -varsfc[n]})
    BY <1>11, <2>1, <2>3, TripleHolds
  <2> QED BY <2>4 DEF AllHold, Differs
<1>13. ASSUME NEW n \in tfo PROVE AllHold(b, Continues(n))
  <2> SUFFICES ASSUME Outputs(circuit, n) # {}, n \notin tpo
               PROVE  Satisfied(b, {-varprop[n]}
                                   \union {varprop[m] : m \in Outputs(circuit, n) \intersect detection})
    BY DEF AllHold, Continues
  <2>1. CASE n \notin S
    BY <1>11, <2>1 DEF Satisfied
  <2>2. CASE n \in S
    <3>1. PICK m \in Outputs(circuit, n) : m \in S
      BY <1>5, <2>2
    <3>2. m \in tfo /\ m \in detection
      BY <3>1
    <3>3. Holds(b, varprop[m])
      BY <1>11, <3>1, <3>2
    <3> QED BY <3>2, <3>3 DEF Satisfied
  <2> QED BY <2>1, <2>2
<1>14. AllHold(b, PropagationChain)
  <2> DEFINE links == UNION {Differs(n) \union Continues(n) : n \in tfo \intersect detection}
  <2>1. AllHold(b, {{varprop[site]}})
    BY <1>1, <1>5, <1>11 DEF AllHold, Satisfied
  <2>2. AllHold(b, links)
    <3>1. \A n \in tfo : AllHold(b, Differs(n) \union Continues(n))
      BY <1>12, <1>13, HoldsTogether
    <3> QED BY <3>1 DEF AllHold
  <2>3. PropagationChain = {{varprop[site]}} \union links
    BY DEF PropagationChain
  <2> HIDE DEF links
  <2> QED BY <2>1, <2>2, <2>3, HoldsTogether
<1>15. AllHold(b, Comparator(Base))
  <2>1. \A o \in tpo : b[Difference(Base, o)] = IF b[varsgc[o]] = b[varsfc[o]] THEN 0 ELSE 1
    BY <1>1, <1>6
  <2>2. b[last] = IF \E o \in tpo : b[Difference(Base, o)] = 1 THEN 1 ELSE 0
    <3>1. \E o \in tpo : b[Difference(Base, o)] = 1
      BY <1>3, <1>6
    <3> QED BY <1>6, <3>1
  <2> QED BY <1>4, <1>6, <2>1, <2>2, ComparatorMeaning
<1>16. AllHold(b, Excitation(Base))
  <2>1. b[varsgc[site]] = 1 - target.stuck /\ (excitation # None => b[varsgc[excitation]] = target.stuck)
    BY <1>0, <1>1, <1>6 DEF Detects, g
  <2>2. b[varsfc[site]] = target.stuck
    BY <1>0, <1>2, <1>6
  <2> QED BY <1>4, <1>6, <2>1, <2>2, FaultUnitsHold
<1>17. AllHold(b, EssentialUnits)
  <2> DEFINE t == [good |-> g, faulty |-> f]
             tests == AllTests(circuit, site, target.stuck)
             known == {e \in needed \X Bits : \A u \in tests : u.good[e[1]] = e[2]}
  <2>1. t \in tests
    BY <1>0, TestsDetect DEF g, f
  <2>2. EssentialUnits = {{Literal(varsgc[e[1]], e[2])} : e \in known}
    BY DEF EssentialUnits
  <2>3. ASSUME NEW e \in known PROVE Satisfied(b, {Literal(varsgc[e[1]], e[2])})
    <3>1. e[1] \in N /\ e[2] \in Bits /\ t.good[e[1]] = e[2]
      BY <1>1, <2>1
    <3>2. b[varsgc[e[1]]] = e[2]
      BY <1>6, <3>1
    <3> DEFINE n == e[1]
               v == e[2]
    <3>3. n \in N /\ v \in Bits /\ b[varsgc[n]] = v
      BY <3>1, <3>2
    <3> HIDE DEF n, v
    <3>4. Satisfied(b, {Literal(varsgc[n], v)})
      BY <1>7, <3>3, UnitHolds
    <3> QED BY <3>4 DEF n, v
  <2> HIDE DEF known
  <2> QED BY <2>2, <2>3 DEF AllHold
<1>18. AllHold(b, clauses)
  <2>1. PICK units \in {{}, EssentialUnits} :
               clauses = (DetectionClauses(Base) \union units) \union GoodCircuit
    BY <1>4 DEF Complete
  <2>2. AllHold(b, units)
    BY <1>17 DEF AllHold
  <2> QED BY <1>4, <1>9, <1>10, <1>14, <1>15, <1>16, <2>1, <2>2, Parts
<1>19. p = InputsOf(b)
  <2>1. InputNets = {n \in N : circuit.type[n] = "IN"}
    BY <1>0, InputNetsListed
  <2>2. \A n \in InputNets : b[varsgc[n]] = p[n]
    BY <1>2, <1>6, <2>1
  <2> QED BY <2>2 DEF InputsOf, Patterns
<1> QED BY <1>4, <1>6, <1>18, <1>19

\* The answers to a complete model are the patterns that detect the fault.
LEMMA AnswersAreTests ==
  ASSUME Complete
  PROVE  \A p : p \in Answers <=> p \in Detecting
<1>0. Scoped /\ Prepared
  BY DEF Complete, Scoped
<1>1. \A p : p \in Detecting <=> p \in Patterns /\ Detects(p)
  BY <1>0, TestsDetect
<1>2. CASE tpo = {}
  <2>1. {} \in clauses
    BY <1>2 DEF Complete
  <2>2. Answers = {}
    BY <2>1 DEF Answers, Models
  <2>3. \A p : ~ (p \in Patterns /\ Detects(p))
    BY <1>2, TestSatisfies
  <2> QED BY <1>1, <2>2, <2>3
<1>3. CASE tpo # {}
  <2>1. \A p : p \in Answers <=>
          \E b \in [1 .. LastVariable(Base) -> Bits] : AllHold(b, clauses) /\ p = InputsOf(b)
    BY <1>3, AnswersFound
  <2>2. \A b \in [1 .. LastVariable(Base) -> Bits] : AllHold(b, clauses) =>
          InputsOf(b) \in Patterns /\ Detects(InputsOf(b))
    BY <1>3, ModelDetects
  <2>3. \A p \in Patterns : Detects(p) =>
          \E b \in [1 .. LastVariable(Base) -> Bits] : AllHold(b, clauses) /\ p = InputsOf(b)
    BY TestSatisfies
  <2> QED BY <1>1, <2>1, <2>2, <2>3
<1> QED BY <1>2, <1>3

-----------------------------------------------------------------------------
(* The steps *)

\* What the clauses are built from stays until the next fault or scope.
Kept == UNCHANGED <<circuit, target, tfo, tpo, varsfc, varprop, needed, detection>>

LEMMA KeptNumbers ==
  ASSUME Kept
  PROVE  /\ Constant' = Constant /\ varsgc' = varsgc /\ Base' = Base
         /\ site' = site /\ excitation' = excitation
<1>1. Constant' = Constant
  BY DEF Kept, Constant
<1>2. varsgc' = varsgc
  BY DEF Kept, varsgc, InputNets
<1>3. Base' = Base
  BY <1>1 DEF Kept, Base
<1>4. site' = site /\ excitation' = excitation
  BY DEF Kept, site, excitation
<1> QED BY <1>1, <1>2, <1>3, <1>4

LEMMA KeptClauses ==
  ASSUME Kept
  PROVE  /\ GoodCircuit' = GoodCircuit
         /\ EssentialUnits' = EssentialUnits
         /\ DetectionClauses(Base)' = DetectionClauses(Base)
<1>0. /\ Constant' = Constant /\ varsgc' = varsgc /\ Base' = Base
      /\ site' = site /\ excitation' = excitation
  BY KeptNumbers
<1>1. GoodCircuit' = GoodCircuit
  BY <1>0 DEF Kept, GoodCircuit, Definition
<1>2. EssentialUnits' = EssentialUnits
  BY <1>0 DEF Kept, EssentialUnits
<1>3. FaultyCircuit' = FaultyCircuit
  BY <1>0 DEF Kept, FaultyCircuit, Definition
<1>4. PropagationChain' = PropagationChain
  BY <1>0 DEF Kept, PropagationChain, Differs, Continues
<1>5. Comparator(Base)' = Comparator(Base)
  BY <1>0 DEF Kept, Comparator, Difference, LastVariable
<1>6. Excitation(Base)' = Excitation(Base)
  BY <1>0 DEF Kept, Excitation, LastVariable
<1>7. DetectionClauses(Base)' = DetectionClauses(Base)
  BY <1>3, <1>4, <1>5, <1>6 DEF DetectionClauses
<1> QED BY <1>1, <1>2, <1>7

LEMMA KeptScope ==
  ASSUME Kept
  PROVE  (Prepared' <=> Prepared) /\ (Scoped' <=> Scoped)
<1>0. /\ Constant' = Constant /\ varsgc' = varsgc /\ Base' = Base
      /\ site' = site /\ excitation' = excitation
  BY KeptNumbers
<1>1. Prepared' <=> Prepared
  BY <1>0 DEF Kept, Prepared, Reach, FaultyVariables, Position
<1>2. Support(tpo)' = Support(tpo) /\ Required(tpo)' = Required(tpo)
  BY <1>0 DEF Kept, Support, Required
<1>3. Scoped' <=> Scoped
  BY <1>0, <1>1, <1>2 DEF Kept, Scoped
<1> QED BY <1>1, <1>3

\* On the scope, the simulation gives the values of the whole circuit.
LEMMA ScopeSimulated ==
  ASSUME Scoped, NEW p, NEW n \in needed
  PROVE  Simulated(p, needed)[n] = Good(p)[n]
<1> DEFINE N == Nets(circuit)
           Computed(m) == IF circuit.type[m] = "IN" THEN m \in needed ELSE m \in needed
           fixed == [m \in {k \in N : ~ Computed(k)} |-> values[m]]
           v == Values(circuit, p, fixed)
           g == Good(p)
           S == {m \in needed : v[m] # g[m]}
<1>0. /\ WellFormed(circuit) /\ needed \subseteq N
      /\ \A m \in needed : Inputs(circuit, m) \subseteq needed
      /\ circuit.level \in [N -> Nat] /\ \A m \in N : circuit.level[m] \in Nat
  BY Scopes DEF Scoped, Prepared, WellFormed
<1>1. Simulated(p, needed) = v
  BY DEF Simulated
<1>2. \A m \in N : v[m] = IF m \in DOMAIN fixed THEN fixed[m]
                          ELSE IF circuit.type[m] = "IN" THEN p[m] ELSE Eval(circuit, v, m)
  <2> HIDE DEF fixed
  <2> QED BY <1>0, ValuesExist
<1>3. DOMAIN fixed = N \ needed
  OBVIOUS
<1>4. \A m \in N : g[m] = IF circuit.type[m] = "IN" THEN p[m] ELSE Eval(circuit, g, m)
  BY <1>0, GoodAndFaulty DEF Good
<1> HIDE DEF fixed, g, v
<1> SUFFICES ASSUME S # {} PROVE FALSE
  BY <1>1 DEF g
<1>5. PICK m \in S : \A k \in S : circuit.level[m] <= circuit.level[k]
  <2>1. S \subseteq N
    BY <1>0
  <2> HIDE DEF S
  <2> QED BY <1>0, <2>1, LowestNet
<1>6. m \in N /\ circuit.type[m] # "IN" /\ v[m] = Eval(circuit, v, m)
  BY <1>0, <1>2, <1>3, <1>4
<1>7. ASSUME NEW k \in Inputs(circuit, m) PROVE v[k] = g[k]
  <2>1. k \in needed /\ k \in N /\ circuit.level[k] < circuit.level[m]
    BY <1>0, <1>6, Edges
  <2> QED BY <1>0, <1>5, <1>6, <2>1
<1>8. Eval(circuit, v, m) = Eval(circuit, g, m)
  BY <1>0, <1>6, <1>7, EvalDepends
<1> QED BY <1>4, <1>6, <1>8

\* What holds between the steps.  The scope that the simulation is set up for
\* is the last one built whenever its number is.
Established ==
  /\ circuit \in Circuits
  /\ phase \in {"idle", "search", "scope", "good", "ready", "simulated"}
  /\ phase # "idle" => Prepared
  /\ phase \in {"search", "scope"} => clauses = {} /\ total = Base
  /\ phase \in {"scope", "good", "ready", "simulated"} => Scoped
  /\ phase = "good" =>
       \E units \in {{}, EssentialUnits} :
         clauses = IF tpo = {} THEN {{}} ELSE DetectionClauses(Base) \union units
  /\ phase \in {"ready", "simulated"} => Complete
  /\ generation \in Nat /\ scopeGeneration \in Nat /\ scopeGeneration <= generation
  /\ scopeGeneration = generation => scope = needed
  /\ phase = "simulated" => scope = needed /\ \A n \in needed : values[n] = Good(pattern)[n]

LEMMA EstablishedInit == Init => Established
<1> SUFFICES ASSUME Init PROVE Established
  OBVIOUS
<1> QED BY DEF Init, Established

LEMMA SearchTFOKeeps ==
  ASSUME Established, NEW s \in Sites(circuit), NEW v \in Bits, SearchTFO(s, v)
  PROVE  Established'
<1>1. /\ phase' = "search" /\ clauses' = {} /\ target' = [site |-> s, stuck |-> v]
      /\ tfo' = Reach(s)
      /\ varsfc' = FaultyVariables(tfo')
      /\ varprop' = ChainVariables(tfo')
      /\ total' = Constant + 2 * Cardinality(tfo')
      /\ UNCHANGED <<circuit, needed, generation, scope, scopeGeneration>>
  BY DEF SearchTFO, simulation
<1>2. WellFormed(circuit) /\ InputsListed(circuit) /\ s \in Nets(circuit)
  <2>1. circuit \in Circuits
    BY DEF Established
  <2>2. Sites(circuit) \subseteq Nets(circuit)
    BY DEF Sites
  <2> QED BY <2>1, <2>2, TestModelAssumption
<1>3. Constant' = Constant /\ varsgc' = varsgc /\ site' = s /\ target'.stuck = v
  BY <1>1 DEF Constant, varsgc, InputNets, site
<1>4. Reach(site)' = Reach(s)
  BY <1>1, <1>3 DEF Reach
<1>5. FaultyVariables(tfo)' = FaultyVariables(tfo')
  BY <1>1, <1>3 DEF FaultyVariables
<1>6. \A n \in tfo' : varprop'[n] = Constant' + 2 * Position(n, tfo')
  <2>1. tfo' \subseteq Nets(circuit)
    BY <1>1, <1>2, Reached
  <2> QED BY <1>1, <1>3, <2>1 DEF ChainVariables
<1>7. Prepared'
  <2>1. WellFormed(circuit') /\ InputsListed(circuit') /\ site' \in Nets(circuit')
          /\ target'.stuck \in Bits
    BY <1>1, <1>2, <1>3
  <2>2. tfo' = Reach(site)' /\ varsfc' = FaultyVariables(tfo)'
    BY <1>1, <1>4, <1>5
  <2> QED BY <1>6, <2>1, <2>2 DEF Prepared
<1>8. total' = Base'
  BY <1>1, <1>3 DEF Base
<1> QED BY <1>1, <1>7, <1>8 DEF Established

LEMMA NormalScopeBuildKeeps ==
  ASSUME Established, NormalScopeBuild
  PROVE  Established'
<1>1. /\ phase = "search" /\ phase' = "scope"
      /\ tpo' = Observed(circuit) \intersect tfo
      /\ detection' = Support(tpo')
      /\ needed' = Required(tpo')
      /\ generation' = generation + 1
      /\ UNCHANGED <<circuit, target, tfo, varsfc, varprop, total, clauses, scopeGeneration>>
  BY DEF NormalScopeBuild, simulation
<1>2. /\ Constant' = Constant /\ varsgc' = varsgc /\ Base' = Base
      /\ site' = site /\ excitation' = excitation
  BY <1>1 DEF Constant, varsgc, InputNets, site, excitation, Base
<1>3. Prepared /\ clauses = {} /\ total = Base
  BY <1>1 DEF Established
<1>4. Reach(site)' = Reach(site) /\ FaultyVariables(tfo)' = FaultyVariables(tfo)
  BY <1>1, <1>2 DEF Reach, FaultyVariables
<1>5. Prepared'
  BY <1>1, <1>2, <1>3, <1>4 DEF Prepared, Position
<1>6. Support(tpo)' = Support(tpo') /\ Required(tpo)' = Required(tpo')
  BY <1>1, <1>2 DEF Support, Required
<1>7. Scoped'
  BY <1>1, <1>5, <1>6 DEF Scoped
<1>8. /\ generation' \in Nat /\ scopeGeneration' \in Nat /\ scopeGeneration' <= generation'
      /\ scopeGeneration' # generation'
  BY <1>1 DEF Established
<1> QED BY <1>1, <1>2, <1>3, <1>5, <1>7, <1>8 DEF Established

LEMMA CreateConsFCKeeps ==
  ASSUME Established, CreateConsFC
  PROVE  Established'
<1>1. /\ phase = "scope" /\ phase' = "good"
      /\ IF tpo = {} THEN clauses' = clauses \union {{}}
         ELSE \E units \in {{}, EssentialUnits} :
           clauses' = clauses \union DetectionClauses(total) \union units
      /\ UNCHANGED <<circuit, generation, scope, scopeGeneration, needed, tpo>> /\ Kept
  BY DEF CreateConsFC, simulation, Kept
<1>2. Scoped /\ Prepared /\ clauses = {} /\ total = Base
  BY <1>1 DEF Established
<1>3. Scoped' /\ Prepared'
  BY <1>1, <1>2, KeptScope
<1>4. \E units \in {{}, EssentialUnits} :
        clauses' = IF tpo = {} THEN {{}} ELSE DetectionClauses(Base) \union units
  <2>1. CASE tpo = {}
    BY <1>1, <1>2, <2>1
  <2>2. CASE tpo # {}
    BY <1>1, <1>2, <2>2
  <2> QED BY <2>1, <2>2
<1>5. \E units \in {{}, EssentialUnits'} :
        clauses' = IF tpo' = {} THEN {{}} ELSE DetectionClauses(Base)' \union units
  BY <1>1, <1>4, KeptClauses
<1> QED BY <1>1, <1>3, <1>5 DEF Established

LEMMA LoadNormalDefinitionKeeps ==
  ASSUME Established, LoadNormalDefinition
  PROVE  Established'
<1>1. /\ phase = "good" /\ phase' = "ready"
      /\ clauses' = clauses \union GoodCircuit
      /\ UNCHANGED <<circuit, generation, scope, scopeGeneration, needed, tpo>> /\ Kept
  BY DEF LoadNormalDefinition, simulation, Kept
<1>2. PICK units \in {{}, EssentialUnits} :
        clauses = IF tpo = {} THEN {{}} ELSE DetectionClauses(Base) \union units
  BY <1>1 DEF Established
<1>3. Scoped /\ Prepared
  BY <1>1 DEF Established
<1>4. Scoped' /\ Prepared'
  BY <1>1, <1>3, KeptScope
<1>5. \E known \in {{}, EssentialUnits'} :
        clauses' = (IF tpo' = {} THEN {{}} ELSE DetectionClauses(Base)' \union known) \union GoodCircuit'
  BY <1>1, <1>2, KeptClauses
<1>6. Complete'
  BY <1>4, <1>5 DEF Complete
<1> QED BY <1>1, <1>4, <1>6 DEF Established

LEMMA KeptComplete ==
  ASSUME Kept, clauses' = clauses, Complete
  PROVE  Complete'
<1>1. Scoped'
  BY KeptScope DEF Complete
<1>2. PICK units \in {{}, EssentialUnits} :
        clauses = (IF tpo = {} THEN {{}} ELSE DetectionClauses(Base) \union units) \union GoodCircuit
  BY DEF Complete
<1>3. \E known \in {{}, EssentialUnits'} :
        clauses' = (IF tpo' = {} THEN {{}} ELSE DetectionClauses(Base)' \union known) \union GoodCircuit'
  BY <1>2, KeptClauses DEF Kept
<1> QED BY <1>1, <1>3 DEF Complete

LEMMA SimulateKeeps ==
  ASSUME Established, Simulate
  PROVE  Established'
<1>1. /\ phase \in {"ready", "simulated"} /\ phase' = "simulated"
      /\ scope' = ScopeFor /\ scopeGeneration' = generation
      /\ values' = Simulated(pattern', scope')
      /\ UNCHANGED <<circuit, generation, needed, clauses>> /\ Kept
  BY DEF Simulate, cnf, Kept
<1>2. Complete /\ Scoped /\ Prepared
  BY <1>1 DEF Established
<1>3. Complete' /\ Scoped' /\ Prepared'
  BY <1>1, <1>2, KeptScope, KeptComplete
<1>4. scope' = needed
  BY <1>1 DEF Established, ScopeFor
<1>5. \A n \in needed : values'[n] = Values(circuit, pattern', <<>>)[n]
  BY <1>1, <1>2, <1>4, ScopeSimulated DEF Good
<1>6. \A n \in needed' : values'[n] = Good(pattern)'[n]
  BY <1>1, <1>5 DEF Good
<1>7. generation \in Nat
  BY DEF Established
<1> QED BY <1>1, <1>3, <1>4, <1>6, <1>7 DEF Established

LEMMA ReleaseKeeps ==
  ASSUME Established, Release
  PROVE  Established'
<1>1. phase' = "idle" /\ UNCHANGED <<circuit, generation, scope, scopeGeneration, needed>>
  BY DEF Release, cnf, simulation
<1> QED BY <1>1 DEF Established

LEMMA StutterKeeps ==
  ASSUME Established, UNCHANGED vars
  PROVE  Established'
<1>1. Kept /\ UNCHANGED <<circuit, phase, clauses, total, tpo, generation, scope, scopeGeneration, needed,
                          pattern, values>>
  BY DEF vars, cnf, simulation, Kept
<1>2. /\ Prepared' <=> Prepared
      /\ Scoped' <=> Scoped
      /\ Base' = Base /\ DetectionClauses(Base)' = DetectionClauses(Base)
      /\ EssentialUnits' = EssentialUnits
      /\ Complete => Complete'
  BY <1>1, KeptScope, KeptNumbers, KeptClauses, KeptComplete
<1>3. Good(pattern)' = Good(pattern)
  BY <1>1 DEF Good
<1> QED BY <1>1, <1>2, <1>3 DEF Established

LEMMA EstablishedHolds == Spec => []Established
<1>1. ASSUME Established, [Next]_vars PROVE Established'
  <2>1. CASE \E s \in Sites(circuit), v \in Bits : SearchTFO(s, v)
    BY <1>1, <2>1, SearchTFOKeeps
  <2>2. CASE NormalScopeBuild
    BY <1>1, <2>2, NormalScopeBuildKeeps
  <2>3. CASE CreateConsFC
    BY <1>1, <2>3, CreateConsFCKeeps
  <2>4. CASE LoadNormalDefinition
    BY <1>1, <2>4, LoadNormalDefinitionKeeps
  <2>5. CASE Simulate
    BY <1>1, <2>5, SimulateKeeps
  <2>6. CASE Release
    BY <1>1, <2>6, ReleaseKeeps
  <2>7. CASE UNCHANGED vars
    BY <1>1, <2>7, StutterKeeps
  <2> QED BY <1>1, <2>1, <2>2, <2>3, <2>4, <2>5, <2>6, <2>7 DEF Next, Finished
<1> QED BY <1>1, EstablishedInit, PTL DEF Spec

-----------------------------------------------------------------------------
(* The properties *)

\* Every model of the clauses is a test of the fault, on every circuit and
\* whatever faults were handled before.
THEOREM ModelsCorrect == Spec => []EveryModelDetects
<1>1. Established => EveryModelDetects
  BY AnswersAreTests DEF Established, EveryModelDetects
<1> QED BY <1>1, EstablishedHolds, PTL

\* Every test of the fault is among the models: the scope, the chain, and the
\* values that essential assignment adds lose none.
THEOREM TestsFound == Spec => []EveryTestIsModel
<1>1. Established => EveryTestIsModel
  BY AnswersAreTests DEF Established, EveryTestIsModel
<1> QED BY <1>1, EstablishedHolds, PTL

\* The values handed to don't-care identification are the circuit's.
THEOREM SimulationCorrect == Spec => []SimulationAgrees
<1>1. Established => SimulationAgrees
  BY DEF Established, SimulationAgrees, Good
<1> QED BY <1>1, EstablishedHolds, PTL

=============================================================================
