---------------------------- MODULE FaultPartition ----------------------------
(***************************************************************************)
(* What the program sees of the union-find forest (equivalence.c): the     *)
(* root of every fault.  Two faults are in one group when they have the    *)
(* same root.                                                              *)
(***************************************************************************)
EXTENDS Integers, FiniteSets

\* The faults whose root is r.
Tree(roots, r) == {f \in DOMAIN roots : roots[f] = r}

\* MergeFaults(f, g): the root of the larger group stays one, that of f when
\* they are equal.
Joined(roots, f, g) ==
  LET smaller == Cardinality(Tree(roots, roots[f])) < Cardinality(Tree(roots, roots[g]))
      stays == IF smaller THEN roots[g] ELSE roots[f]
      goes == IF smaller THEN roots[f] ELSE roots[g]
  IN [h \in DOMAIN roots |-> IF roots[h] = goes THEN stays ELSE roots[h]]
=============================================================================
