----------------------------- MODULE FaultForest -----------------------------
(***************************************************************************)
(* The union-find forest of equivalent faults (equivalence.c).  Groups of  *)
(* faults known to be equivalent are trees of parent links; FindRoot       *)
(* climbs to the root and then links every fault of its path to it, and    *)
(* MergeFaults hangs the smaller group's root under the larger one's.      *)
(* Every turn of the two loops of FindRoot is a step.                      *)
(*                                                                         *)
(* "declared" is a history variable: the pairs merged so far.  The groups  *)
(* are the finest ones in which the two faults of every declared pair are  *)
(* together, and the properties relate the forest to them.                 *)
(***************************************************************************)
EXTENDS FaultPartition

CONSTANTS
  FaultCount,  \* two faults per net
  Pairs        \* the pairs the structure and the equivalence file give

Ids == 0 .. FaultCount - 1

ASSUME FaultCountAssumption == FaultCount \in Nat \ {0}
ASSUME PairsAssumption == Pairs \subseteq Ids \X Ids

VARIABLES
  parent,     \* parent link of each fault; a root is its own parent
  groupSize,  \* number of faults of a root's group
  declared,   \* history: the pairs merged so far
  call,       \* which FindRoot runs: none, a lone one, a merge's 1st or 2nd
  loop,       \* the loop FindRoot is in
  faultId,    \* fault_id: the fault being looked up, later being relinked
  root,       \* how far the climb has come
  first,      \* first_fault of the merge, or the fault looked up
  second,     \* second_fault of the merge
  firstRoot   \* the root of the first fault of the merge

forest == <<parent, groupSize>>
find == <<loop, faultId, root>>
forestVars == <<forest, declared, call, find, first, second, firstRoot>>

ForestInit ==
  /\ parent = [f \in Ids |-> f]
  /\ groupSize = [f \in Ids |-> 1]
  /\ declared = {}
  /\ call = "none" /\ loop = "climb"
  /\ faultId = 0 /\ root = 0 /\ first = 0 /\ second = 0 /\ firstRoot = 0

\* Enter FindRoot(f).
EnterFindRoot(f) ==
  /\ loop' = "climb"
  /\ faultId' = f
  /\ root' = f

\* A lone FindRoot, as in ChooseRepresentatives and RemoveNonrepresentatives.
LookUp(f) ==
  /\ call = "none"
  /\ call' = "only"
  /\ EnterFindRoot(f)
  /\ first' = f
  /\ UNCHANGED <<forest, declared, second, firstRoot>>

\* MergeFaults(f, g), up to the first FindRoot.
MergeFaults(f, g) ==
  /\ call = "none"
  /\ call' = "first"
  /\ EnterFindRoot(f)
  /\ first' = f
  /\ second' = g
  /\ UNCHANGED <<forest, declared, firstRoot>>

\* Broken variant of Climb: the climb takes one link at most.
ClimbOnce ==
  /\ call # "none"
  /\ loop = "climb"
  /\ IF parent[root] # root /\ root = faultId
     THEN root' = parent[root] /\ UNCHANGED loop
     ELSE loop' = "compress" /\ UNCHANGED root
  /\ UNCHANGED <<forest, declared, call, faultId, first, second, firstRoot>>

\* while (parent of root is not root): go up one link.
Climb ==
  /\ call # "none"
  /\ loop = "climb"
  /\ IF parent[root] # root
     THEN root' = parent[root] /\ UNCHANGED loop
     ELSE loop' = "compress" /\ UNCHANGED root
  /\ UNCHANGED <<forest, declared, call, faultId, first, second, firstRoot>>

\* Broken variants of Relink: fault_id is not advanced; the link is made to
\* the fault itself.
RelinkInPlace == parent' = [parent EXCEPT ![faultId] = root] /\ UNCHANGED faultId
RelinkToItself == parent' = [parent EXCEPT ![faultId] = faultId] /\ faultId' = parent[faultId]

Relink ==
  /\ parent' = [parent EXCEPT ![faultId] = root]
  /\ faultId' = parent[faultId]

\* while (fault_id is not root): link it to the root, go to its old parent.
Compress ==
  /\ call # "none"
  /\ loop = "compress"
  /\ faultId # root
  /\ Relink
  /\ UNCHANGED <<groupSize, declared, call, loop, root, first, second, firstRoot>>

Ready(which) ==
  /\ call = which
  /\ loop = "compress"
  /\ faultId = root

\* A lone FindRoot returns.
Answer ==
  /\ Ready("only")
  /\ call' = "none"
  /\ UNCHANGED <<forest, declared, find, first, second, firstRoot>>

\* The merge goes on with the second fault.
FindSecond ==
  /\ Ready("first")
  /\ call' = "second"
  /\ firstRoot' = root
  /\ EnterFindRoot(second)
  /\ UNCHANGED <<forest, declared, first, second>>

\* Broken variants of Larger and Link: the size is not looked at, or not
\* updated.
AlwaysFirst(a, b) == TRUE
LinkWithoutSize(a, b) ==
  /\ parent' = [parent EXCEPT ![b] = a]
  /\ UNCHANGED groupSize

\* Whether root a keeps its place when the groups of a and b are joined.
Larger(a, b) == groupSize[a] >= groupSize[b]

\* Hang root b under root a.
Link(a, b) ==
  /\ parent' = [parent EXCEPT ![b] = a]
  /\ groupSize' = [groupSize EXCEPT ![a] = @ + groupSize[b]]

\* Both roots are known: join the two groups unless they are one already.
Union ==
  /\ Ready("second")
  /\ call' = "none"
  /\ declared' = declared \union {<<first, second>>}
  /\ IF root = firstRoot THEN UNCHANGED forest
     ELSE IF Larger(firstRoot, root) THEN Link(firstRoot, root)
     ELSE Link(root, firstRoot)
  /\ UNCHANGED <<find, first, second, firstRoot>>

Step == Climb \/ Compress \/ Answer \/ FindSecond \/ Union

ForestNext ==
  \/ \E f \in Ids : LookUp(f)
  \/ \E pair \in Pairs : MergeFaults(pair[1], pair[2])
  \/ Step

\* The loops are sequential code: a call that has begun goes on.
ForestSpec == ForestInit /\ [][ForestNext]_forestVars /\ WF_forestVars(Step)
-----------------------------------------------------------------------------
(***************************************************************************)
(* Properties                                                              *)
(***************************************************************************)

\* The type invariant: what each variable of the forest can hold.
TypeOK ==
  /\ parent \in [Ids -> Ids]
  /\ groupSize \in [Ids -> Nat \ {0}]
  /\ declared \subseteq Ids \X Ids
  /\ call \in {"none", "only", "first", "second"}
  /\ loop \in {"climb", "compress"}
  /\ faultId \in Ids /\ root \in Ids
  /\ first \in Ids /\ second \in Ids /\ firstRoot \in Ids

IsRoot(f) == parent[f] = f

\* A set of faults that none of the pairs leaves.
Closed(pairs, S) == \A pair \in pairs : pair[1] \in S <=> pair[2] \in S

\* The faults the pairs make equivalent to f, directly or through others.
GroupIn(pairs, f) == {g \in Ids : \A S \in SUBSET Ids : f \in S /\ Closed(pairs, S) => g \in S}

Group(f) == GroupIn(declared, f)

\* The forest represents the declared groups at every moment, in the middle
\* of a compression too: a link never leaves a group and a group has one
\* root.  So two faults have the same root exactly when they have been
\* declared equivalent, in whatever order the pairs came (MergeFaults).
ForestRepresentsGroups ==
  /\ \A f \in Ids : parent[f] \in Group(f)
  /\ \A f, g \in Ids : IsRoot(f) /\ IsRoot(g) /\ g \in Group(f) => f = g

\* FindRoot answers with the root of the group of the fault it was asked
\* about, and from then on that fault is linked to it directly.
FindRootIsRight ==
  LET asked == IF call = "second" THEN second ELSE first IN
  /\ (call # "none" /\ loop = "compress") => IsRoot(root) /\ root \in Group(asked)
  /\ (call # "none" /\ Ready(call)) => parent[asked] = root
  /\ call = "second" => IsRoot(firstRoot) /\ firstRoot \in Group(first)

\* A root's group_size is the number of faults of its group, the number the
\* choice of the larger group rests on.
SizeIsGroupSize ==
  \A f \in Ids : IsRoot(f) => groupSize[f] = Cardinality(Group(f))

\* The size at least doubles along every link, so there is no cycle and both
\* loops of FindRoot, and the read-only climb of GetEquivalentFaults, end.
LinksDouble ==
  \A f \in Ids : IsRoot(f) \/ 2 * groupSize[f] <= groupSize[parent[f]]

\* 2 to the number of links that lead from a fault to its root.
TwoToDepth[f \in Ids] == IF IsRoot(f) THEN 1 ELSE 2 * TwoToDepth[parent[f]]

\* A climb is short: a fault at depth d is in a group of at least 2^d
\* faults, because the smaller group goes under the larger one.
DepthIsLogarithmic ==
  \A f \in Ids : TwoToDepth[f] <= Cardinality(Group(f))

\* The root that a climb from each fault leads to.
roots == [f \in Ids |-> CHOOSE r \in Group(f) : IsRoot(r)]

\* All that the many steps of a merge do, seen through FindRoot, is to join two
\* groups, at once and at the end; looking up a fault and relinking the path
\* change nothing (what FaultGroups takes MergeFaults for).
MergesOnly ==
  [][roots' = IF call = "second" /\ call' = "none"
              THEN Joined(roots, first, second) ELSE roots]_forestVars

\* Every call returns.
Returns == call # "none" ~> call = "none"
=============================================================================
