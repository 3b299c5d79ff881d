----------------------- MODULE FaultEquivalenceProofs -----------------------
(***************************************************************************)
(* Equivalent faults, in both models of equivalence.c.                     *)
(*                                                                         *)
(* The forest (FaultForest), for any number of faults and any pairs in any *)
(* order: it stands for exactly the declared groups, a merge does to the   *)
(* roots what Joined says, and the trees are shallow.  The argument: a     *)
(* root is strictly larger than every other fault of its group, and a link *)
(* at least doubles the size, so relinking a fault to its root keeps sizes *)
(* growing along links, and joining two roots joins exactly two groups.    *)
(*                                                                         *)
(* The groups (FaultGroups), on every circuit: the pairs that              *)
(* InitFaultEquivalence takes from the gates have the same tests, and the  *)
(* members of a group get the result of a fault with their own tests.      *)
(***************************************************************************)
EXTENDS FaultForest, FaultGroups, CircuitProofs

\* The fault the running FindRoot was asked about.
Asked == IF call = "second" THEN second ELSE first

\* A root is strictly larger than every other fault of its group.
RootsAreLargest ==
  \A f, r \in Ids : (IsRoot(r) /\ r \in Group(f) /\ f # r) => groupSize[f] < groupSize[r]

\* Where the running FindRoot is.
CallOK ==
  /\ call # "none" => /\ root \in Group(Asked)
                      /\ faultId \in Group(Asked)
                      /\ loop = "climb" => faultId = Asked
                      /\ loop = "compress" => /\ IsRoot(root)
                                              /\ faultId # Asked => parent[Asked] = root
  /\ call = "second" => IsRoot(firstRoot) /\ firstRoot \in Group(first)

ForestInv ==
  /\ TypeOK
  /\ ForestRepresentsGroups
  /\ RootsAreLargest
  /\ LinksDouble
  /\ SizeIsGroupSize
  /\ CallOK

-----------------------------------------------------------------------------
(***************************************************************************)
(* Groups                                                                  *)
(***************************************************************************)

\* The groups of a set of pairs partition the faults.
LEMMA GroupsPartition ==
  ASSUME NEW pairs \in SUBSET (Ids \X Ids), NEW f \in Ids, NEW g \in Ids
  PROVE  /\ f \in GroupIn(pairs, f)
         /\ GroupIn(pairs, f) \subseteq Ids
         /\ g \in GroupIn(pairs, f) <=> GroupIn(pairs, g) = GroupIn(pairs, f)
<1>1. f \in GroupIn(pairs, f) /\ g \in GroupIn(pairs, g) /\ GroupIn(pairs, f) \subseteq Ids
  BY DEF GroupIn
<1>2. ASSUME NEW x \in Ids, NEW y \in GroupIn(pairs, x)
      PROVE  GroupIn(pairs, y) \subseteq GroupIn(pairs, x)
  BY DEF GroupIn
<1>3. ASSUME NEW x \in Ids, NEW y \in GroupIn(pairs, x)
      PROVE  x \in GroupIn(pairs, y)
  <2> SUFFICES ASSUME NEW S \in SUBSET Ids, y \in S, Closed(pairs, S)
               PROVE  x \in S
    BY DEF GroupIn
  <2>1. Closed(pairs, Ids \ S)
    BY DEF Closed
  <2>2. x \in Ids \ S => y \in Ids \ S
    BY <2>1 DEF GroupIn
  <2> QED BY <2>2
<1>4. ASSUME g \in GroupIn(pairs, f)
      PROVE  GroupIn(pairs, g) = GroupIn(pairs, f)
  BY <1>2, <1>3, <1>4
<1> QED BY <1>1, <1>4

\* A group is closed under the pairs.
LEMMA GroupsClosed ==
  ASSUME NEW pairs \in SUBSET (Ids \X Ids), NEW f \in Ids
  PROVE  Closed(pairs, GroupIn(pairs, f))
BY DEF Closed, GroupIn

\* One more pair joins the groups of its two faults and leaves the others.
LEMMA PairJoinsGroups ==
  ASSUME NEW pairs \in SUBSET (Ids \X Ids), NEW a \in Ids, NEW b \in Ids, NEW f \in Ids
  PROVE  GroupIn(pairs \union {<<a, b>>}, f) =
           IF f \in GroupIn(pairs, a) \union GroupIn(pairs, b)
           THEN GroupIn(pairs, a) \union GroupIn(pairs, b) ELSE GroupIn(pairs, f)
<1> DEFINE J == GroupIn(pairs, a) \union GroupIn(pairs, b)
           more == pairs \union {<<a, b>>}
<1>0. /\ more \in SUBSET (Ids \X Ids) /\ J \subseteq Ids /\ a \in J /\ b \in J
      /\ f \in GroupIn(pairs, f) /\ f \in GroupIn(more, f)
  BY GroupsPartition
<1>1. Closed(more, J)
  <2>1. Closed(pairs, J)
    BY GroupsClosed DEF Closed
  <2> QED BY <1>0, <2>1 DEF Closed
<1>2. \A x \in Ids : GroupIn(pairs, x) \subseteq GroupIn(more, x)
  BY DEF GroupIn, Closed
<1>3. CASE f \in J
  <2>1. GroupIn(more, f) \subseteq J
    BY <1>0, <1>1, <1>3 DEF GroupIn
  <2>2. b \in GroupIn(more, a)
    <3>1. \A S : Closed(more, S) => (a \in S <=> b \in S)
      <4>1. <<a, b>> \in more /\ <<a, b>>[1] = a /\ <<a, b>>[2] = b
        OBVIOUS
      <4> HIDE DEF more
      <4> QED BY <4>1 DEF Closed
    <3> QED BY <3>1 DEF GroupIn
  <2>3. GroupIn(more, b) = GroupIn(more, a)
    BY <1>0, <2>2, GroupsPartition
  <2>4. f \in GroupIn(more, a)
    BY <1>2, <1>3, <2>3
  <2>5. GroupIn(more, f) = GroupIn(more, a)
    BY <1>0, <2>4, GroupsPartition
  <2>6. J \subseteq GroupIn(more, f)
    BY <1>2, <2>3, <2>5
  <2> QED BY <1>3, <2>1, <2>6
<1>4. CASE f \notin J
  <2>1. /\ a \notin GroupIn(pairs, f) /\ b \notin GroupIn(pairs, f)
    <3>1. /\ a \in GroupIn(pairs, f) => f \in GroupIn(pairs, a)
          /\ b \in GroupIn(pairs, f) => f \in GroupIn(pairs, b)
      BY GroupsPartition
    <3> QED BY <1>4, <3>1
  <2>2. Closed(more, GroupIn(pairs, f))
    BY <2>1, GroupsClosed DEF Closed
  <2>3. GroupIn(more, f) \subseteq GroupIn(pairs, f)
    <3>1. GroupIn(pairs, f) \in SUBSET Ids
      BY GroupsPartition
    <3>2. \A g \in GroupIn(more, f) : \A S \in SUBSET Ids : f \in S /\ Closed(more, S) => g \in S
      BY DEF GroupIn
    <3> HIDE DEF more
    <3> QED BY <1>0, <2>2, <3>1, <3>2
  <2> QED BY <1>2, <1>4, <2>3
<1> QED BY <1>3, <1>4

\* Groups are finite and never empty.
LEMMA GroupsFinite ==
  ASSUME NEW pairs \in SUBSET (Ids \X Ids), NEW f \in Ids
  PROVE  IsFiniteSet(GroupIn(pairs, f))
<1>1. IsFiniteSet(Ids)
  BY FS_Interval, FaultCountAssumption DEF Ids
<1> QED BY <1>1, FS_Subset, GroupsPartition
-----------------------------------------------------------------------------
(***************************************************************************)
(* Steps that leave the forest alone                                       *)
(***************************************************************************)

\* The properties of the forest depend on the forest and the pairs only.
LEMMA ForestFrame ==
  ASSUME UNCHANGED <<forest, declared>>
  PROVE  /\ ForestRepresentsGroups' = ForestRepresentsGroups
         /\ RootsAreLargest' = RootsAreLargest
         /\ LinksDouble' = LinksDouble
         /\ SizeIsGroupSize' = SizeIsGroupSize
         /\ \A f : IsRoot(f)' = IsRoot(f)
         /\ \A f : Group(f)' = Group(f)
<1>1. parent' = parent /\ groupSize' = groupSize /\ declared' = declared
  BY DEF forest
<1>2. (\A f : IsRoot(f)' = IsRoot(f)) /\ (\A f : Group(f)' = Group(f))
  BY <1>1 DEF IsRoot, Group
<1>3. ForestRepresentsGroups' = ForestRepresentsGroups
  BY <1>1, <1>2 DEF ForestRepresentsGroups
<1>4. RootsAreLargest' = RootsAreLargest
  BY <1>1, <1>2 DEF RootsAreLargest
<1>5. LinksDouble' = LinksDouble /\ SizeIsGroupSize' = SizeIsGroupSize
  BY <1>1, <1>2 DEF LinksDouble, SizeIsGroupSize
<1> QED BY <1>2, <1>3, <1>4, <1>5

\* The groups of the declared pairs partition the faults.
LEMMA DeclaredGroups ==
  ASSUME TypeOK, NEW f \in Ids, NEW g \in Ids
  PROVE  /\ f \in Group(f)
         /\ Group(f) \subseteq Ids
         /\ g \in Group(f) <=> Group(g) = Group(f)
<1>1. declared \in SUBSET (Ids \X Ids)
  BY DEF TypeOK
<1>2. f \in GroupIn(declared, f)
  BY <1>1, GroupsPartition
<1>3. GroupIn(declared, f) \subseteq Ids
  BY <1>1, GroupsPartition
<1>4. g \in GroupIn(declared, f) <=> GroupIn(declared, g) = GroupIn(declared, f)
  BY <1>1, GroupsPartition
<1> QED BY <1>2, <1>3, <1>4 DEF Group

LEMMA LookUpKeepsInv ==
  ASSUME ForestInv, NEW f \in Ids, LookUp(f)
  PROVE  ForestInv'
<1>1. /\ UNCHANGED <<forest, declared>> /\ call' = "only" /\ loop' = "climb"
      /\ faultId' = f /\ root' = f /\ first' = f /\ UNCHANGED <<second, firstRoot>>
  BY DEF LookUp, EnterFindRoot
<1>2. TypeOK'
  BY <1>1 DEF ForestInv, TypeOK, forest
<1>3. CallOK'
  <2>1. f \in Group(f)'
    BY <1>1, ForestFrame, DeclaredGroups DEF ForestInv
  <2> QED BY <1>1, <2>1 DEF CallOK, Asked
<1> QED BY <1>1, <1>2, <1>3, ForestFrame DEF ForestInv

LEMMA MergeKeepsInv ==
  ASSUME ForestInv, NEW pair \in Pairs, MergeFaults(pair[1], pair[2])
  PROVE  ForestInv'
<1> DEFINE f == pair[1]
           g == pair[2]
<1>0. f \in Ids /\ g \in Ids
  BY PairsAssumption
<1>1. /\ UNCHANGED <<forest, declared>> /\ call' = "first" /\ loop' = "climb"
      /\ faultId' = f /\ root' = f /\ first' = f /\ second' = g /\ UNCHANGED firstRoot
  BY DEF MergeFaults, EnterFindRoot
<1>2. TypeOK'
  BY <1>0, <1>1 DEF ForestInv, TypeOK, forest
<1>3. CallOK'
  <2>1. f \in Group(f)'
    BY <1>0, <1>1, ForestFrame, DeclaredGroups DEF ForestInv
  <2> QED BY <1>1, <2>1 DEF CallOK, Asked
<1> QED BY <1>1, <1>2, <1>3, ForestFrame DEF ForestInv

LEMMA ClimbKeepsInv ==
  ASSUME ForestInv, Climb
  PROVE  ForestInv'
<1>1. /\ UNCHANGED <<forest, declared, call, faultId, first, second, firstRoot>>
      /\ call # "none" /\ loop = "climb"
      /\ Asked' = Asked
  BY DEF Climb, Asked
<1>2. root \in Ids /\ Asked \in Ids /\ root \in Group(Asked) /\ parent[root] \in Ids
  BY <1>1 DEF ForestInv, TypeOK, CallOK, Asked
<1>3. CASE /\ parent[root] # root
           /\ root' = parent[root] /\ loop' = loop
  <2>1. parent[root] \in Group(root)
    BY <1>2 DEF ForestInv, ForestRepresentsGroups
  <2>2. root' \in Group(Asked)
    BY <1>2, <1>3, <2>1, DeclaredGroups DEF ForestInv
  <2>3. CallOK'
    BY <1>1, <1>3, <2>2, ForestFrame DEF CallOK, ForestInv
  <2>4. TypeOK'
    BY <1>1, <1>2, <1>3 DEF ForestInv, TypeOK, forest
  <2> QED BY <1>1, <2>3, <2>4, ForestFrame DEF ForestInv
<1>4. CASE parent[root] = root /\ loop' = "compress" /\ root' = root
  <2>1. faultId = Asked
    BY <1>1 DEF ForestInv, CallOK
  <2>2. CallOK'
    BY <1>1, <1>4, <2>1, ForestFrame DEF CallOK, ForestInv, IsRoot
  <2>3. TypeOK'
    BY <1>1, <1>4 DEF ForestInv, TypeOK, forest
  <2> QED BY <1>1, <2>2, <2>3, ForestFrame DEF ForestInv
<1> QED BY <1>3, <1>4 DEF Climb

LEMMA AnswerKeepsInv ==
  ASSUME ForestInv, Answer
  PROVE  ForestInv'
<1>1. UNCHANGED <<forest, declared, find, first, second, firstRoot>> /\ call' = "none"
  BY DEF Answer
<1>2. TypeOK' /\ CallOK'
  BY <1>1 DEF ForestInv, TypeOK, CallOK, forest, find
<1> QED BY <1>1, <1>2, ForestFrame DEF ForestInv

LEMMA FindSecondKeepsInv ==
  ASSUME ForestInv, FindSecond
  PROVE  ForestInv'
<1>1. /\ UNCHANGED <<forest, declared, first, second>> /\ call' = "second" /\ loop' = "climb"
      /\ firstRoot' = root /\ root' = second /\ faultId' = second
      /\ call = "first" /\ loop = "compress"
  BY DEF FindSecond, Ready, EnterFindRoot
<1>2. TypeOK'
  BY <1>1 DEF ForestInv, TypeOK, forest
<1>3. second \in Group(second)
  BY DeclaredGroups DEF ForestInv, TypeOK
<1>4. IsRoot(root) /\ root \in Group(first)
  BY <1>1 DEF ForestInv, CallOK, Asked
<1>5. CallOK'
  BY <1>1, <1>3, <1>4, ForestFrame DEF CallOK, Asked
<1> QED BY <1>1, <1>2, <1>5, ForestFrame DEF ForestInv
-----------------------------------------------------------------------------
(***************************************************************************)
(* Steps that change the forest                                            *)
(***************************************************************************)

\* Relinking a fault to the root of its group keeps roots, groups and sizes.
LEMMA CompressKeepsInv ==
  ASSUME ForestInv, Compress
  PROVE  ForestInv'
<1>1. /\ UNCHANGED <<groupSize, declared, call, loop, root, first, second, firstRoot>>
      /\ call # "none" /\ loop = "compress" /\ faultId # root
      /\ parent' = [parent EXCEPT ![faultId] = root]
      /\ faultId' = parent[faultId]
  BY DEF Compress, Relink
<1>2. /\ parent \in [Ids -> Ids] /\ groupSize \in [Ids -> Nat \ {0}]
      /\ faultId \in Ids /\ root \in Ids /\ Asked \in Ids
  BY DEF ForestInv, TypeOK, Asked
<1>3. TypeOK'
  BY <1>1, <1>2 DEF ForestInv, TypeOK
<1>4. (\A f : Group(f)' = Group(f)) /\ Asked' = Asked
  BY <1>1 DEF Group, Asked
<1>5. /\ IsRoot(root) /\ root \in Group(Asked) /\ faultId \in Group(Asked)
      /\ faultId # Asked => parent[Asked] = root
  BY <1>1 DEF ForestInv, CallOK
<1>6. root \in Group(faultId) /\ faultId \in Group(root)
  BY <1>2, <1>5, DeclaredGroups DEF ForestInv
<1>7. ~IsRoot(faultId)
  BY <1>1, <1>2, <1>5, <1>6 DEF ForestInv, ForestRepresentsGroups
<1>8. \A f \in Ids : IsRoot(f)' <=> IsRoot(f)
  BY <1>1, <1>2, <1>7 DEF IsRoot
<1>9. \A f \in Ids : parent'[f] = IF f = faultId THEN root ELSE parent[f]
  BY <1>1, <1>2
<1>10. ForestRepresentsGroups'
  <2>1. \A f \in Ids : parent'[f] \in Group(f)
    BY <1>6, <1>9 DEF ForestInv, ForestRepresentsGroups
  <2>2. \A f, g \in Ids : IsRoot(f)' /\ IsRoot(g)' /\ g \in Group(f) => f = g
    BY <1>8 DEF ForestInv, ForestRepresentsGroups
  <2> QED BY <1>4, <2>1, <2>2 DEF ForestRepresentsGroups
<1>11. RootsAreLargest'
  BY <1>1, <1>4, <1>8 DEF ForestInv, RootsAreLargest
<1>12. LinksDouble'
  <2>1. 2 * groupSize[faultId] <= groupSize[parent[faultId]]
    BY <1>2, <1>7 DEF ForestInv, LinksDouble
  <2>2. parent[faultId] \in Group(faultId) /\ parent[faultId] \in Ids
    BY <1>2 DEF ForestInv, ForestRepresentsGroups
  <2>3. root \in Group(parent[faultId])
    BY <1>2, <1>6, <2>2, DeclaredGroups DEF ForestInv
  <2>4. parent[faultId] = root \/ groupSize[parent[faultId]] < groupSize[root]
    BY <1>2, <1>5, <2>2, <2>3 DEF ForestInv, RootsAreLargest
  <2>5. 2 * groupSize[faultId] <= groupSize[root]
    BY <1>2, <2>1, <2>2, <2>4
  <2>6. ASSUME NEW f \in Ids, ~ IsRoot(f)' PROVE 2 * groupSize[f] <= groupSize[parent'[f]]
    <3>1. f = faultId => parent'[f] = root
      BY <1>9
    <3>2. f # faultId => parent'[f] = parent[f] /\ ~ IsRoot(f)
      BY <1>8, <1>9, <2>6
    <3>3. f # faultId => 2 * groupSize[f] <= groupSize[parent[f]]
      BY <3>2 DEF ForestInv, LinksDouble
    <3> QED BY <2>5, <3>1, <3>2, <3>3
  <2>7. groupSize' = groupSize
    BY <1>1
  <2> QED BY <2>6, <2>7 DEF LinksDouble
<1>13. SizeIsGroupSize'
  BY <1>1, <1>4, <1>8 DEF ForestInv, SizeIsGroupSize
<1>14. CallOK'
  <2>1. faultId' \in Group(Asked)
    <3>1. parent[faultId] \in Group(faultId)
      BY <1>2 DEF ForestInv, ForestRepresentsGroups
    <3> QED BY <1>1, <1>2, <1>5, <3>1, DeclaredGroups DEF ForestInv
  <2>2. parent'[root] = root /\ (faultId' # Asked => parent'[Asked] = root)
    BY <1>1, <1>2, <1>5, <1>9 DEF IsRoot
  <2>3. call = "second" => parent'[firstRoot] = firstRoot /\ firstRoot \in Group(first)
    <3>1. firstRoot \in Ids /\ (call = "second" => IsRoot(firstRoot) /\ firstRoot \in Group(first))
      BY DEF ForestInv, TypeOK, CallOK
    <3> QED BY <1>7, <1>9, <3>1 DEF IsRoot
  <2>4. IsRoot(root)' /\ (call = "second" => IsRoot(firstRoot)')
    BY <1>1, <2>2, <2>3 DEF IsRoot
  <2> QED BY <1>1, <1>4, <1>5, <2>1, <2>2, <2>3, <2>4 DEF CallOK
<1> QED BY <1>3, <1>10, <1>11, <1>12, <1>13, <1>14 DEF ForestInv

\* Linking one root under another and declaring a pair of their groups.
LEMMA LinkKeepsForest ==
  ASSUME ForestInv, NEW a \in Ids, NEW b \in Ids, IsRoot(a), IsRoot(b), a # b, Link(a, b),
         groupSize[b] <= groupSize[a],
         \A f \in Ids : Group(f)' = IF f \in Group(a) \union Group(b)
                                    THEN Group(a) \union Group(b) ELSE Group(f)
  PROVE  ForestRepresentsGroups' /\ RootsAreLargest' /\ LinksDouble' /\ SizeIsGroupSize'
<1> DEFINE J == Group(a) \union Group(b)
<1>1. /\ parent \in [Ids -> Ids] /\ groupSize \in [Ids -> Nat \ {0}]
      /\ parent' = [parent EXCEPT ![b] = a]
      /\ groupSize' = [groupSize EXCEPT ![a] = @ + groupSize[b]]
  BY DEF ForestInv, TypeOK, Link
<1>2. /\ \A f \in Ids : parent'[f] = IF f = b THEN a ELSE parent[f]
      /\ \A f \in Ids : groupSize'[f] = IF f = a THEN groupSize[a] + groupSize[b] ELSE groupSize[f]
      /\ \A f \in Ids : groupSize[f] \in Nat \ {0}
      /\ \A f \in Ids : parent[f] \in Ids
  BY <1>1
<1>3. \A f \in Ids : IsRoot(f)' <=> (IsRoot(f) /\ f # b)
  BY <1>2 DEF IsRoot
<1>4. /\ a \in Group(a) /\ b \in Group(b) /\ J \subseteq Ids
      /\ \A f, g \in Ids : g \in Group(f) <=> Group(g) = Group(f)
      /\ \A f \in Ids : f \in Group(f)
  BY DeclaredGroups DEF ForestInv
<1>5. \A r \in Ids : IsRoot(r) /\ r \in J => r = a \/ r = b
  BY <1>4 DEF ForestInv, ForestRepresentsGroups
<1>6. \A f, g \in Ids : g \in Group(f) => (g \in J <=> f \in J)
  BY <1>4
<1> HIDE DEF J
<1>7. \A f \in Ids : Group(f)' = IF f \in J THEN J ELSE Group(f)
  BY DEF J
<1>8. ForestRepresentsGroups'
  <2>1. ASSUME NEW f \in Ids PROVE parent'[f] \in Group(f)'
    <3>1. parent[f] \in Group(f)
      BY DEF ForestInv, ForestRepresentsGroups
    <3>2. a \in J /\ b \in J
      BY <1>4 DEF J
    <3> QED BY <1>2, <1>6, <1>7, <3>1, <3>2
  <2>2. ASSUME NEW f \in Ids, NEW g \in Ids, IsRoot(f)', IsRoot(g)', g \in Group(f)'
        PROVE  f = g
    <3>1. CASE f \in J
      BY <1>3, <1>5, <1>7, <2>2, <3>1
    <3>2. CASE f \notin J
      BY <1>3, <1>7, <2>2, <3>2 DEF ForestInv, ForestRepresentsGroups
    <3> QED BY <3>1, <3>2
  <2> QED BY <2>1, <2>2 DEF ForestRepresentsGroups
<1>9. RootsAreLargest'
  <2> SUFFICES ASSUME NEW f \in Ids, NEW r \in Ids, IsRoot(r)', r \in Group(f)', f # r
               PROVE  groupSize'[f] < groupSize'[r]
    BY DEF RootsAreLargest
  <2>1. IsRoot(r) /\ r # b
    BY <1>3
  <2>2. CASE f \in J
    <3>1. r = a
      BY <1>5, <1>7, <2>1, <2>2
    <3>2. CASE a \in Group(f)
      <4>1. groupSize[f] < groupSize[a]
        BY <2>1, <3>1, <3>2 DEF ForestInv, RootsAreLargest
      <4> QED BY <1>2, <3>1, <4>1
    <3>3. CASE b \in Group(f)
      <4>1. f = b \/ groupSize[f] < groupSize[b]
        BY <3>3 DEF ForestInv, RootsAreLargest
      <4> QED BY <1>2, <3>1, <4>1
    <3>4. f \in Group(a) \/ f \in Group(b)
      BY <2>2 DEF J
    <3>5. a \in Group(f) \/ b \in Group(f)
      BY <1>4, <3>4
    <3> QED BY <3>2, <3>3, <3>5
  <2>3. CASE f \notin J
    <3>1. r \in Group(f) /\ r \notin J
      BY <1>6, <1>7, <2>3
    <3>2. f # a /\ r # a
      BY <1>4, <2>3, <3>1 DEF J
    <3>3. groupSize[f] < groupSize[r]
      BY <2>1, <3>1 DEF ForestInv, RootsAreLargest
    <3> QED BY <1>2, <3>2, <3>3
  <2> QED BY <2>2, <2>3
<1>10. LinksDouble'
  <2> SUFFICES ASSUME NEW f \in Ids, ~IsRoot(f)'
               PROVE  2 * groupSize'[f] <= groupSize'[parent'[f]]
    BY DEF LinksDouble
  <2>1. CASE f = b
    BY <1>2, <2>1
  <2>2. CASE f # b
    <3>1. ~IsRoot(f) /\ f # a
      BY <1>3, <2>2
    <3>2. 2 * groupSize[f] <= groupSize[parent[f]]
      BY <3>1 DEF ForestInv, LinksDouble
    <3> QED BY <1>2, <2>2, <3>1, <3>2
  <2> QED BY <2>1, <2>2
<1>11. SizeIsGroupSize'
  <2> SUFFICES ASSUME NEW r \in Ids, IsRoot(r)'
               PROVE  groupSize'[r] = Cardinality(Group(r)')
    BY DEF SizeIsGroupSize
  <2>1. IsRoot(r) /\ r # b
    BY <1>3
  <2>2. CASE r = a
    <3>1. Group(a) \intersect Group(b) = {}
      <4> SUFFICES ASSUME NEW x \in Group(a), x \in Group(b) PROVE FALSE
        OBVIOUS
      <4>1. x \in Ids
        BY <1>4 DEF J
      <4>2. b \in Group(a)
        BY <1>4, <4>1
      <4> QED BY <4>2 DEF ForestInv, ForestRepresentsGroups
    <3>2. IsFiniteSet(Group(a)) /\ IsFiniteSet(Group(b))
      <4>1. declared \in SUBSET (Ids \X Ids)
        BY DEF ForestInv, TypeOK
      <4> QED BY <4>1, GroupsFinite DEF Group
    <3>3. Cardinality(J) = Cardinality(Group(a)) + Cardinality(Group(b))
      <4>1. Cardinality({}) = 0 /\ Cardinality(Group(a)) \in Nat /\ Cardinality(Group(b)) \in Nat
        BY <3>2, FS_EmptySet, FS_CardinalityType
      <4>2. Cardinality(J) = Cardinality(Group(a)) + Cardinality(Group(b)) - Cardinality({})
        BY <3>1, <3>2, FS_Union DEF J
      <4> QED BY <4>1, <4>2
    <3>4. groupSize[a] = Cardinality(Group(a)) /\ groupSize[b] = Cardinality(Group(b))
      BY DEF ForestInv, SizeIsGroupSize
    <3>5. Group(r)' = J
      BY <1>4, <1>7, <2>2 DEF J
    <3> QED BY <1>2, <2>2, <3>3, <3>4, <3>5
  <2>3. CASE r # a
    <3>1. r \notin J
      BY <1>5, <2>1, <2>3
    <3>2. groupSize[r] = Cardinality(Group(r))
      BY <2>1 DEF ForestInv, SizeIsGroupSize
    <3> QED BY <1>2, <1>7, <2>3, <3>1, <3>2
  <2> QED BY <2>2, <2>3
<1> QED BY <1>8, <1>9, <1>10, <1>11
\* The pair that a merge declares joins the groups of its two roots.
LEMMA UnionJoinsGroups ==
  ASSUME ForestInv, Union
  PROVE  /\ IsRoot(root) /\ root \in Group(second) /\ IsRoot(firstRoot) /\ firstRoot \in Group(first)
         /\ \A f \in Ids : Group(f)' = IF f \in Group(firstRoot) \union Group(root)
                                       THEN Group(firstRoot) \union Group(root) ELSE Group(f)
<1>1. /\ call = "second" /\ loop = "compress" /\ declared' = declared \union {<<first, second>>}
      /\ first \in Ids /\ second \in Ids /\ root \in Ids /\ firstRoot \in Ids
      /\ declared \in SUBSET (Ids \X Ids)
  BY DEF Union, Ready, ForestInv, TypeOK
<1>2. IsRoot(root) /\ root \in Group(second) /\ IsRoot(firstRoot) /\ firstRoot \in Group(first)
  BY <1>1 DEF ForestInv, CallOK, Asked
<1>3. Group(root) = Group(second) /\ Group(firstRoot) = Group(first)
  BY <1>1, <1>2, DeclaredGroups DEF ForestInv
<1>4. \A f \in Ids : GroupIn(declared \union {<<first, second>>}, f) =
        IF f \in GroupIn(declared, first) \union GroupIn(declared, second)
        THEN GroupIn(declared, first) \union GroupIn(declared, second) ELSE GroupIn(declared, f)
  <2> DEFINE Joins(d, a, b, f) ==
        GroupIn(d \union {<<a, b>>}, f) =
          IF f \in GroupIn(d, a) \union GroupIn(d, b)
          THEN GroupIn(d, a) \union GroupIn(d, b) ELSE GroupIn(d, f)
  <2>1. \A d \in SUBSET (Ids \X Ids) : \A a, b, f \in Ids : Joins(d, a, b, f)
    BY PairJoinsGroups
  <2> HIDE DEF Joins
  <2>2. \A f \in Ids : Joins(declared, first, second, f)
    BY <1>1, <2>1
  <2> QED BY <2>2 DEF Joins
<1>5. \A f \in Ids : Group(f)' = GroupIn(declared \union {<<first, second>>}, f)
  BY <1>1 DEF Group, GroupIn
<1> QED BY <1>2, <1>3, <1>4, <1>5 DEF Group

LEMMA UnionKeepsInv ==
  ASSUME ForestInv, Union
  PROVE  ForestInv'
<1>1. /\ call' = "none" /\ UNCHANGED <<find, first, second, firstRoot>>
      /\ declared' = declared \union {<<first, second>>}
  BY DEF Union
<1>2. /\ parent \in [Ids -> Ids] /\ groupSize \in [Ids -> Nat \ {0}]
      /\ declared' \subseteq Ids \X Ids /\ root \in Ids /\ firstRoot \in Ids
  BY <1>1 DEF ForestInv, TypeOK
<1>3. CallOK'
  BY <1>1 DEF CallOK
<1>4. IsRoot(root) /\ IsRoot(firstRoot)
  BY UnionJoinsGroups
<1>5. CASE root = firstRoot
  <2>1. UNCHANGED forest
    BY <1>5 DEF Union
  <2>2. \A f \in Ids : Group(f)' = Group(f)
    <3> TAKE f \in Ids
    <3>1. f \in Group(root) => Group(f) = Group(root)
      BY <1>2, DeclaredGroups DEF ForestInv
    <3> QED BY <1>5, <3>1, UnionJoinsGroups
  <2>3. parent' = parent /\ groupSize' = groupSize
    BY <2>1 DEF forest
  <2>4. TypeOK'
    BY <1>1, <1>2, <2>3 DEF ForestInv, TypeOK, find
  <2>5. \A f \in Ids : IsRoot(f)' <=> IsRoot(f)
    BY <2>3 DEF IsRoot
  <2>6. ForestRepresentsGroups'
    BY <2>2, <2>3, <2>5 DEF ForestInv, ForestRepresentsGroups
  <2>7. RootsAreLargest'
    BY <2>2, <2>3, <2>5 DEF ForestInv, RootsAreLargest
  <2>8. LinksDouble' /\ SizeIsGroupSize'
    BY <2>2, <2>3, <2>5 DEF ForestInv, LinksDouble, SizeIsGroupSize
  <2> QED BY <1>3, <2>4, <2>6, <2>7, <2>8 DEF ForestInv
<1>6. ASSUME NEW a \in Ids, NEW b \in Ids, Link(a, b), a # b,
             {a, b} = {root, firstRoot}, groupSize[b] <= groupSize[a]
      PROVE  ForestInv'
  <2>1. IsRoot(a) /\ IsRoot(b)
    BY <1>4, <1>6
  <2>2. Group(a) \union Group(b) = Group(firstRoot) \union Group(root)
    BY <1>6
  <2>3. \A f \in Ids : Group(f)' = IF f \in Group(a) \union Group(b)
                                   THEN Group(a) \union Group(b) ELSE Group(f)
    BY <2>2, UnionJoinsGroups
  <2>4. ForestRepresentsGroups' /\ RootsAreLargest' /\ LinksDouble' /\ SizeIsGroupSize'
    BY <1>6, <2>1, <2>3, LinkKeepsForest
  <2>5. parent' \in [Ids -> Ids] /\ groupSize' \in [Ids -> Nat \ {0}]
    BY <1>2, <1>6 DEF Link
  <2>6. TypeOK'
    BY <1>1, <1>2, <2>5 DEF ForestInv, TypeOK, find
  <2> QED BY <1>3, <2>4, <2>6 DEF ForestInv
<1>7. CASE root # firstRoot
  <2>1. \/ Link(firstRoot, root) /\ groupSize[root] <= groupSize[firstRoot]
        \/ Link(root, firstRoot) /\ groupSize[firstRoot] <= groupSize[root]
    <3>1. groupSize[root] \in Nat /\ groupSize[firstRoot] \in Nat
      BY <1>2
    <3> QED BY <1>7, <3>1 DEF Union, Larger
  <2> QED BY <1>2, <1>6, <1>7, <2>1
<1> QED BY <1>5, <1>7

-----------------------------------------------------------------------------
(***************************************************************************)
(* Theorems                                                                *)
(***************************************************************************)

\* With nothing declared every fault is alone.
LEMMA InitInv == ForestInit => ForestInv
<1> SUFFICES ASSUME ForestInit PROVE ForestInv
  OBVIOUS
<1>1. /\ parent = [f \in Ids |-> f] /\ groupSize = [f \in Ids |-> 1]
      /\ declared = {} /\ call = "none"
  BY DEF ForestInit
<1>2. TypeOK
  BY FaultCountAssumption DEF ForestInit, TypeOK, Ids
<1>3. \A f \in Ids : Group(f) = {f}
  <2> TAKE f \in Ids
  <2>1. Closed(declared, {f})
    BY <1>1 DEF Closed
  <2>2. \A g \in Group(f) : g \in {f}
    BY <2>1 DEF Group, GroupIn
  <2> QED BY <1>2, <2>2, DeclaredGroups
<1>4. \A f \in Ids : IsRoot(f) /\ groupSize[f] = 1
  BY <1>1 DEF IsRoot
<1>5. ForestRepresentsGroups /\ RootsAreLargest /\ LinksDouble
  BY <1>1, <1>3, <1>4 DEF ForestRepresentsGroups, RootsAreLargest, LinksDouble
<1>6. SizeIsGroupSize
  BY <1>3, <1>4, FS_Singleton DEF SizeIsGroupSize
<1>7. CallOK
  BY <1>1 DEF CallOK
<1> QED BY <1>2, <1>5, <1>6, <1>7 DEF ForestInv

\* The inductive invariant, for any number of faults and any pairs.
THEOREM ForestInvCorrect == ForestSpec => []ForestInv
<1>1. ForestInv /\ [ForestNext]_forestVars => ForestInv'
  <2> SUFFICES ASSUME ForestInv, [ForestNext]_forestVars PROVE ForestInv'
    OBVIOUS
  <2>1. CASE UNCHANGED forestVars
    <3>1. UNCHANGED <<forest, declared>> /\ UNCHANGED <<call, find, first, second, firstRoot>>
      BY <2>1 DEF forestVars
    <3>2. TypeOK'
      BY <3>1 DEF ForestInv, TypeOK, forest, find
    <3>3. Asked' = Asked /\ UNCHANGED <<loop, faultId, root, parent>>
      BY <3>1 DEF Asked, find, forest
    <3>4. CallOK'
      BY <3>1, <3>3, ForestFrame DEF ForestInv, CallOK, IsRoot
    <3> QED BY <3>1, <3>2, <3>4, ForestFrame DEF ForestInv
  <2> QED BY <2>1, LookUpKeepsInv, MergeKeepsInv, ClimbKeepsInv, CompressKeepsInv,
             AnswerKeepsInv, FindSecondKeepsInv, UnionKeepsInv DEF ForestNext, Step
<1> QED BY <1>1, InitInv, PTL DEF ForestSpec

\* Every variable of the forest keeps its type.
THEOREM TypeCorrect == ForestSpec => []TypeOK
<1>1. ForestInv => TypeOK
  BY DEF ForestInv
<1> QED BY <1>1, ForestInvCorrect, PTL

\* Two faults have the same root exactly when declared equivalent.
THEOREM GroupsCorrect == ForestSpec => []ForestRepresentsGroups
<1>1. ForestInv => ForestRepresentsGroups
  BY DEF ForestInv
<1> QED BY <1>1, ForestInvCorrect, PTL

\* FindRoot answers with the root of the right group and links to it.
THEOREM FindRootCorrect == ForestSpec => []FindRootIsRight
<1>1. ForestInv => FindRootIsRight
  <2> SUFFICES ASSUME ForestInv PROVE FindRootIsRight
    OBVIOUS
  <2>1. (call # "none" /\ loop = "compress") => IsRoot(root) /\ root \in Group(Asked)
    BY DEF ForestInv, CallOK
  <2>2. (call # "none" /\ Ready(call)) => parent[Asked] = root
    BY DEF ForestInv, CallOK, Ready, IsRoot
  <2>3. call = "second" => IsRoot(firstRoot) /\ firstRoot \in Group(first)
    BY DEF ForestInv, CallOK
  <2> QED BY <2>1, <2>2, <2>3 DEF FindRootIsRight, Asked
<1> QED BY <1>1, ForestInvCorrect, PTL

\* group_size of a root is the size of its group.
THEOREM SizeCorrect == ForestSpec => []SizeIsGroupSize
<1>1. ForestInv => SizeIsGroupSize
  BY DEF ForestInv
<1> QED BY <1>1, ForestInvCorrect, PTL

\* Sizes double along links: there is no cycle.
THEOREM LinksCorrect == ForestSpec => []LinksDouble
<1>1. ForestInv => LinksDouble
  BY DEF ForestInv
<1> QED BY <1>1, ForestInvCorrect, PTL

-----------------------------------------------------------------------------
(***************************************************************************)
(* The depth of the trees                                                  *)
(***************************************************************************)

\* The values of a function on the faults are bounded.
LEMMA SizesBounded ==
  ASSUME NEW size \in [Ids -> Nat]
  PROVE  \E bound \in Nat : \A f \in Ids : size[f] <= bound
<1> DEFINE Bounded(k) == \E bound \in Nat : \A f \in Ids : f < k => size[f] <= bound
           T == {k \in Nat : ~ Bounded(k)}
<1>1. T = {}
  <2> SUFFICES ASSUME T # {} PROVE FALSE
    OBVIOUS
  <2>1. PICK k \in T : \A j \in T : k <= j
    <3>1. T \subseteq Nat
      OBVIOUS
    <3> HIDE DEF T
    <3> QED BY <3>1, LeastNumber
  <2>2. Bounded(0)
    <3>1. 0 \in Nat /\ \A f \in Ids : f < 0 => size[f] <= 0
      BY FaultCountAssumption DEF Ids
    <3> QED BY <3>1
  <2>3. k # 0 /\ k - 1 \in Nat /\ k - 1 \notin T
    BY <2>1, <2>2
  <2>4. PICK bound \in Nat : \A f \in Ids : f < k - 1 => size[f] <= bound
    BY <2>3
  <2>5. PICK more \in Nat : bound <= more /\ (k - 1 \in Ids => size[k - 1] <= more)
    <3>1. CASE k - 1 \in Ids
      <4>1. size[k - 1] \in Nat /\ bound + size[k - 1] \in Nat
        BY <3>1
      <4>2. bound <= bound + size[k - 1] /\ size[k - 1] <= bound + size[k - 1]
        BY <4>1
      <4> QED BY <4>1, <4>2
    <3>2. CASE k - 1 \notin Ids
      BY <3>2
    <3> QED BY <3>1, <3>2
  <2>6. ASSUME NEW f \in Ids, f < k PROVE size[f] <= more
    <3>1. f \in Nat /\ size[f] \in Nat
      <4>1. f \in Nat
        BY FaultCountAssumption DEF Ids
      <4> QED BY <4>1
    <3>2. CASE f < k - 1
      <4>1. size[f] <= bound
        BY <2>4, <3>2
      <4> QED BY <2>5, <3>1, <4>1
    <3>3. CASE f = k - 1
      BY <2>5, <3>3
    <3> QED BY <2>3, <2>6, <3>1, <3>2, <3>3
  <2> QED BY <2>1, <2>6
<1>2. Bounded(FaultCount)
  BY <1>1, FaultCountAssumption
<1>3. \A f \in Ids : f < FaultCount
  BY FaultCountAssumption DEF Ids
<1> QED BY <1>2, <1>3

\* When the size grows along links, the recursion that climbs them has a solution.
LEMMA ClimbsEnd ==
  ASSUME NEW up \in [Ids -> Ids], NEW size \in [Ids -> Nat],
         \A f \in Ids : up[f] = f \/ size[f] < size[up[f]]
  PROVE  \E depth : depth = [f \in Ids |-> IF up[f] = f THEN 1 ELSE 2 * depth[up[f]]]
<1>1. PICK bound \in Nat : \A f \in Ids : size[f] <= bound
  BY SizesBounded
<1> DEFINE E(v, f) == IF up[f] = f THEN 1 ELSE 2 * v[up[f]]
           Upto(v, k) == \A f \in Ids : bound - size[f] < k => v[f] = E(v, f)
<1>2. \A f \in Ids : up[f] \in Ids /\ size[f] \in Nat /\ size[up[f]] \in Nat
  OBVIOUS
<1>3. ASSUME NEW f \in Ids, NEW v, NEW w, up[f] # f => v[up[f]] = w[up[f]]
      PROVE  E(v, f) = E(w, f)
  BY <1>3
<1> HIDE DEF E
<1>4. ASSUME NEW k \in Nat PROVE \E v : Upto(v, k)
  <2> DEFINE T == {j \in Nat : ~ \E v : Upto(v, j)}
  <2> SUFFICES ASSUME T # {} PROVE FALSE
    OBVIOUS
  <2>1. PICK j \in T : \A i \in T : j <= i
    <3>1. T \subseteq Nat
      OBVIOUS
    <3> HIDE DEF T
    <3> QED BY <3>1, LeastNumber
  <2>2. j # 0
    <3>1. \A f \in Ids : ~ (bound - size[f] < 0)
      BY <1>1, <1>2
    <3>2. Upto(<<>>, 0)
      BY <3>1
    <3> QED BY <3>2
  <2>3. j - 1 \in Nat /\ j - 1 \notin T
    BY <2>1, <2>2
  <2>4. PICK v : Upto(v, j - 1)
    BY <2>3
  <2> DEFINE w == [f \in Ids |-> E(v, f)]
  <2>5. ASSUME NEW f \in Ids, bound - size[f] < j PROVE w[f] = E(w, f)
    <3>1. ASSUME up[f] # f PROVE v[up[f]] = w[up[f]]
      <4>1. bound - size[up[f]] < j - 1
        BY <1>2, <2>3, <2>5, <3>1
      <4> QED BY <1>2, <2>4, <4>1
    <3>2. E(v, f) = E(w, f)
      <4> HIDE DEF w
      <4> QED BY <1>3, <3>1
    <3> QED BY <3>2
  <2>6. Upto(w, j)
    <3> HIDE DEF w
    <3> QED BY <2>5
  <2> QED BY <2>1, <2>6
<1>5. PICK v : Upto(v, bound + 1)
  BY <1>4
<1> DEFINE w == [f \in Ids |-> v[f]]
<1>6. ASSUME NEW f \in Ids PROVE w[f] = E(w, f)
  <2>1. bound - size[f] < bound + 1
    BY <1>1, <1>2
  <2>2. v[f] = E(v, f)
    BY <1>5, <2>1
  <2>3. up[f] # f => v[up[f]] = w[up[f]]
    BY <1>2
  <2>4. E(v, f) = E(w, f)
    <3> HIDE DEF w
    <3> QED BY <1>3, <2>3
  <2> QED BY <2>2, <2>4
<1>7. w = [f \in Ids |-> E(w, f)]
  <2>1. DOMAIN w = Ids /\ w = [f \in Ids |-> w[f]]
    OBVIOUS
  <2> HIDE DEF w
  <2> QED BY <1>6, <2>1
<1> QED BY <1>7 DEF E

\* A doubling further up the tree.
LEMMA Doubling ==
  ASSUME NEW t \in Nat, NEW s \in Nat, NEW above \in Nat, NEW c \in Nat,
         2 * s <= above, t * above <= c
  PROVE  (2 * t) * s <= c
<1>1. above - 2 * s \in Nat /\ above = 2 * s + (above - 2 * s)
  OBVIOUS
<1>2. PICK d \in Nat : above = 2 * s + d
  BY <1>1
<1>3. t * above = (2 * t) * s + t * d /\ t * d \in Nat /\ (2 * t) * s \in Nat
  BY <1>2
<1> QED BY <1>3

\* Each fault of depth d is in a group of at least 2^d faults.
THEOREM DepthCorrect == ForestSpec => []DepthIsLogarithmic
<1>1. ForestInv => DepthIsLogarithmic
  <2> SUFFICES ASSUME ForestInv PROVE DepthIsLogarithmic
    OBVIOUS
  <2>1. /\ parent \in [Ids -> Ids] /\ groupSize \in [Ids -> Nat]
        /\ \A f \in Ids : parent[f] \in Ids /\ groupSize[f] \in Nat \ {0}
    BY DEF ForestInv, TypeOK
  <2>2. \A f \in Ids : parent[f] = f \/ groupSize[f] < groupSize[parent[f]]
    BY <2>1 DEF ForestInv, LinksDouble, IsRoot
  <2>3. TwoToDepth = [f \in Ids |-> IF parent[f] = f THEN 1 ELSE 2 * TwoToDepth[parent[f]]]
    <3>1. \E depth : depth = [f \in Ids |-> IF parent[f] = f THEN 1 ELSE 2 * depth[parent[f]]]
      BY <2>1, <2>2, ClimbsEnd
    <3> QED BY <3>1 DEF TwoToDepth, IsRoot
  <2>4. \A f \in Ids : /\ parent[f] = f => TwoToDepth[f] = 1
                       /\ parent[f] # f => TwoToDepth[f] = 2 * TwoToDepth[parent[f]]
    <3> HIDE DEF TwoToDepth
    <3> QED BY <2>3
  <2>5. PICK bound \in Nat : \A f \in Ids : groupSize[f] <= bound
    BY <2>1, SizesBounded
  <2>6. \A f \in Ids : Cardinality(Group(f)) \in Nat
    <3>1. declared \in SUBSET (Ids \X Ids)
      BY DEF ForestInv, TypeOK
    <3> QED BY <3>1, GroupsFinite, FS_CardinalityType DEF Group
  <2> DEFINE Fits(f) == TwoToDepth[f] \in Nat /\ TwoToDepth[f] * groupSize[f] <= Cardinality(Group(f))
             T == {k \in Nat : \E f \in Ids : k = bound - groupSize[f] /\ ~ Fits(f)}
  <2>7. T = {}
    <3> SUFFICES ASSUME T # {} PROVE FALSE
      OBVIOUS
    <3>1. PICK k \in T : \A j \in T : k <= j
      <4>1. T \subseteq Nat
        OBVIOUS
      <4> HIDE DEF T
      <4> QED BY <4>1, LeastNumber
    <3>2. PICK f \in Ids : k = bound - groupSize[f] /\ ~ Fits(f)
      OBVIOUS
    <3>3. CASE parent[f] = f
      <4>1. groupSize[f] = Cardinality(Group(f))
        BY <3>3 DEF ForestInv, SizeIsGroupSize, IsRoot
      <4>2. TwoToDepth[f] = 1
        BY <2>4, <3>3
      <4> HIDE DEF TwoToDepth
      <4> QED BY <2>1, <3>2, <4>1, <4>2
    <3>4. CASE parent[f] # f
      <4> DEFINE g == parent[f]
      <4>1. g \in Ids /\ groupSize[f] < groupSize[g] /\ 2 * groupSize[f] <= groupSize[g]
        BY <2>1, <2>2, <3>4 DEF ForestInv, LinksDouble, IsRoot
      <4>2. bound - groupSize[g] \in Nat /\ bound - groupSize[g] < k
        BY <2>1, <2>5, <3>2, <4>1
      <4>3. Fits(g)
        BY <3>1, <4>1, <4>2
      <4>4. TwoToDepth[f] = 2 * TwoToDepth[g]
        BY <2>4, <3>4
      <4>5. Group(g) = Group(f)
        BY <2>1, DeclaredGroups DEF ForestInv, ForestRepresentsGroups
      <4> HIDE DEF TwoToDepth, g
      <4>6. (2 * TwoToDepth[g]) * groupSize[f] <= Cardinality(Group(f))
        BY <2>1, <2>6, <4>1, <4>3, <4>5, Doubling
      <4> QED BY <3>2, <4>3, <4>4, <4>6
    <3> QED BY <3>3, <3>4
  <2>8. ASSUME NEW f \in Ids PROVE TwoToDepth[f] <= Cardinality(Group(f))
    <3>1. bound - groupSize[f] \in Nat
      BY <2>1, <2>5
    <3>2. Fits(f)
      BY <2>7, <3>1
    <3> HIDE DEF TwoToDepth
    <3>3. groupSize[f] \in Nat \ {0} /\ Cardinality(Group(f)) \in Nat
      BY <2>1, <2>6
    <3>4. ASSUME NEW t \in Nat, NEW s \in Nat \ {0}, NEW c \in Nat, t * s <= c PROVE t <= c
      <4>1. s - 1 \in Nat /\ s = 1 + (s - 1)
        OBVIOUS
      <4>2. PICK d \in Nat : s = 1 + d
        BY <4>1
      <4>3. t * s = t + t * d /\ t * d \in Nat
        BY <4>2
      <4> QED BY <3>4, <4>3
    <3> QED BY <3>2, <3>3, <3>4
  <2> QED BY <2>8 DEF DepthIsLogarithmic
<1> QED BY <1>1, ForestInvCorrect, PTL


-----------------------------------------------------------------------------
(***************************************************************************)
(* What a merge does to the roots                                          *)
(***************************************************************************)

\* Every group has its root, the fault of largest size.
LEMMA RootOfGroup ==
  ASSUME ForestInv, NEW f \in Ids
  PROVE  /\ roots[f] \in Group(f) /\ IsRoot(roots[f])
         /\ \A r \in Group(f) : IsRoot(r) => r = roots[f]
<1>1. /\ groupSize \in [Ids -> Nat] /\ \A g \in Ids : parent[g] \in Ids /\ groupSize[g] \in Nat \ {0}
  BY DEF ForestInv, TypeOK
<1>2. f \in Group(f) /\ Group(f) \subseteq Ids
  BY DeclaredGroups DEF ForestInv
<1>3. PICK bound \in Nat : \A g \in Ids : groupSize[g] <= bound
  BY <1>1, SizesBounded
<1>4. \E r \in Group(f) : IsRoot(r)
  <2> DEFINE T == {bound - groupSize[g] : g \in Group(f)}
  <2>1. T \subseteq Nat /\ T # {}
    BY <1>1, <1>2, <1>3
  <2>2. PICK k \in T : \A j \in T : k <= j
    <3> HIDE DEF T
    <3> QED BY <2>1, LeastNumber
  <2>3. PICK r \in Group(f) : k = bound - groupSize[r]
    OBVIOUS
  <2>4. ASSUME ~ IsRoot(r) PROVE FALSE
    <3>1. r \in Ids /\ parent[r] \in Group(r)
      BY <1>2 DEF ForestInv, ForestRepresentsGroups
    <3>2. parent[r] \in Group(f)
      BY <3>1, DeclaredGroups DEF ForestInv
    <3>3. 2 * groupSize[r] <= groupSize[parent[r]]
      BY <2>4, <3>1 DEF ForestInv, LinksDouble
    <3>4. k <= bound - groupSize[parent[r]]
      BY <2>2, <3>2
    <3> QED BY <1>1, <2>3, <3>1, <3>3, <3>4
  <2> QED BY <2>4
<1>5. roots[f] = CHOOSE r \in Group(f) : IsRoot(r)
  BY DEF roots
<1>6. roots[f] \in Group(f) /\ IsRoot(roots[f])
  BY <1>4, <1>5
<1>7. ASSUME NEW r \in Group(f), IsRoot(r) PROVE r = roots[f]
  <2>1. r \in Ids /\ roots[f] \in Group(r)
    BY <1>2, <1>6, DeclaredGroups DEF ForestInv
  <2> QED BY <1>2, <1>6, <1>7, <2>1 DEF ForestInv, ForestRepresentsGroups
<1> QED BY <1>6, <1>7

\* The faults below a root are its group.
LEMMA TreeIsGroup ==
  ASSUME ForestInv, NEW r \in Ids, IsRoot(r)
  PROVE  roots[r] = r /\ Tree(roots, r) = Group(r)
<1>1. \A f, g \in Ids : (f \in Group(f)) /\ (g \in Group(f) <=> Group(g) = Group(f))
  BY DeclaredGroups DEF ForestInv
<1>2. Group(r) \subseteq Ids
  BY DeclaredGroups DEF ForestInv
<1>3. roots[r] = r
  BY <1>1, RootOfGroup
<1>4. ASSUME NEW f \in Ids PROVE roots[f] = r <=> f \in Group(r)
  <2>1. roots[f] = r => r \in Group(f)
    BY RootOfGroup
  <2>2. r \in Group(f) => roots[f] = r
    BY RootOfGroup
  <2> QED BY <1>1, <2>1, <2>2
<1>5. DOMAIN roots = Ids
  BY DEF roots
<1> QED BY <1>2, <1>3, <1>4, <1>5 DEF Tree

\* What a climb from each fault leads to: the one root of its group.
RootsFound ==
  \A f \in Ids : /\ roots[f] \in Group(f) /\ IsRoot(roots[f])
                 /\ \A r \in Group(f) : IsRoot(r) => r = roots[f]

LEMMA RootsAreFound == ForestInv => RootsFound
BY RootOfGroup DEF RootsFound

\* The roots stay when neither the groups change nor which faults are roots.
LEMMA RootsStay ==
  ASSUME ForestInv, ForestInv', \A f \in Ids : Group(f)' = Group(f) /\ (IsRoot(f)' <=> IsRoot(f))
  PROVE  roots' = roots
<1>1. ASSUME NEW f \in Ids PROVE roots'[f] = roots[f]
  <2>1. roots[f] \in Group(f) /\ IsRoot(roots[f]) /\ Group(f) \subseteq Ids
    BY RootOfGroup, DeclaredGroups DEF ForestInv
  <2>2. RootsFound'
    BY RootsAreFound, PTL
  <2> QED BY <2>1, <2>2 DEF RootsFound
<1>2. roots = [f \in Ids |-> roots[f]] /\ roots' = [f \in Ids |-> roots'[f]]
  BY DEF roots
<1> QED BY <1>1, <1>2

\* The last step of a merge joins the trees of its two faults.
LEMMA UnionJoins ==
  ASSUME ForestInv, ForestInv', Union
  PROVE  roots' = Joined(roots, first, second)
<1>1. /\ IsRoot(root) /\ root \in Group(second) /\ IsRoot(firstRoot) /\ firstRoot \in Group(first)
      /\ \A f \in Ids : Group(f)' = IF f \in Group(firstRoot) \union Group(root)
                                    THEN Group(firstRoot) \union Group(root) ELSE Group(f)
  BY UnionJoinsGroups
<1>2. root \in Ids /\ firstRoot \in Ids /\ first \in Ids /\ second \in Ids
  BY DEF ForestInv, TypeOK
<1>3. roots[first] = firstRoot /\ roots[second] = root
  BY <1>1, <1>2, RootOfGroup
<1>4. /\ Cardinality(Tree(roots, roots[first])) = groupSize[firstRoot]
      /\ Cardinality(Tree(roots, roots[second])) = groupSize[root]
  BY <1>1, <1>2, <1>3, TreeIsGroup DEF ForestInv, SizeIsGroupSize
<1>5. DOMAIN roots = Ids /\ roots = [f \in Ids |-> roots[f]] /\ roots' = [f \in Ids |-> roots'[f]]
  BY DEF roots
<1>6. groupSize[root] \in Nat /\ groupSize[firstRoot] \in Nat
  BY <1>2 DEF ForestInv, TypeOK
<1>7. Joined(roots, first, second) =
        IF groupSize[firstRoot] < groupSize[root]
        THEN [f \in Ids |-> IF roots[f] = firstRoot THEN root ELSE roots[f]]
        ELSE [f \in Ids |-> IF roots[f] = root THEN firstRoot ELSE roots[f]]
  BY <1>3, <1>4, <1>5 DEF Joined
<1>8. CASE root = firstRoot
  <2>1. parent' = parent
    BY <1>8 DEF Union, forest
  <2>2. \A f \in Ids : IsRoot(f)' <=> IsRoot(f)
    BY <2>1 DEF IsRoot
  <2>3. \A f \in Ids : Group(f)' = Group(f)
    <3> TAKE f \in Ids
    <3>1. f \in Group(root) => Group(f) = Group(root)
      BY <1>2, DeclaredGroups DEF ForestInv
    <3> QED BY <1>1, <1>8, <3>1
  <2>4. roots' = roots
    BY <2>2, <2>3, RootsStay
  <2>5. Joined(roots, first, second) = [f \in Ids |-> IF roots[f] = root THEN firstRoot ELSE roots[f]]
    BY <1>6, <1>7, <1>8
  <2>6. Joined(roots, first, second) = [f \in Ids |-> roots[f]]
    BY <1>8, <2>5
  <2> QED BY <1>5, <2>4, <2>6
<1>9. ASSUME NEW a \in Ids, NEW b \in Ids, a # b, Link(a, b), IsRoot(a), IsRoot(b),
             \A f \in Ids : Group(f)' = IF f \in Group(a) \union Group(b)
                                        THEN Group(a) \union Group(b) ELSE Group(f)
      PROVE  roots' = [f \in Ids |-> IF roots[f] = b THEN a ELSE roots[f]]
  <2>1. \A f \in Ids : IsRoot(f)' <=> (IsRoot(f) /\ f # b)
    BY <1>9 DEF Link, IsRoot, ForestInv, TypeOK
  <2>2. /\ \A f, g \in Ids : (f \in Group(f)) /\ (g \in Group(f) <=> Group(g) = Group(f))
        /\ \A f \in Ids : Group(f) \subseteq Ids
    BY DeclaredGroups DEF ForestInv
  <2>3. ASSUME NEW f \in Ids PROVE roots'[f] = IF roots[f] = b THEN a ELSE roots[f]
    <3>1. roots[f] \in Group(f) /\ IsRoot(roots[f]) /\ roots[f] \in Ids
      BY <2>2, RootOfGroup
    <3>2. \A r \in Group(f)' : IsRoot(r)' => r = roots'[f]
      <4>1. RootsFound'
        BY RootsAreFound, PTL
      <4> QED BY <4>1 DEF RootsFound
    <3>3. CASE roots[f] = b
      <4>1. f \in Group(b)
        BY <2>2, <3>1, <3>3
      <4>2. a \in Group(f)'
        BY <1>9, <2>2, <4>1
      <4>3. IsRoot(a)'
        BY <1>9, <2>1
      <4> QED BY <3>2, <3>3, <4>2, <4>3
    <3>4. ASSUME NEW r \in Ids, r = roots[f], r # b PROVE roots'[f] = r
      <4>1. IsRoot(r)'
        BY <2>1, <3>1, <3>4
      <4>2. f \in Group(a) \union Group(b) => r \in Group(a) \union Group(b)
        BY <2>2, <3>1, <3>4
      <4>3. r \in Group(f)'
        BY <1>9, <3>1, <3>4, <4>2
      <4> QED BY <3>2, <4>1, <4>3
    <3> QED BY <3>1, <3>3, <3>4
  <2> QED BY <1>5, <2>3
<1>10. CASE root # firstRoot /\ groupSize[firstRoot] >= groupSize[root]
  <2>1. Link(firstRoot, root)
    BY <1>10 DEF Union, Larger
  <2>2. roots' = [f \in Ids |-> IF roots[f] = root THEN firstRoot ELSE roots[f]]
    BY <1>1, <1>2, <1>9, <1>10, <2>1
  <2> QED BY <1>6, <1>7, <1>10, <2>2
<1>11. CASE root # firstRoot /\ ~ (groupSize[firstRoot] >= groupSize[root])
  <2>1. Link(root, firstRoot)
    BY <1>11 DEF Union, Larger
  <2>2. \A f \in Ids : Group(f)' = IF f \in Group(root) \union Group(firstRoot)
                                   THEN Group(root) \union Group(firstRoot) ELSE Group(f)
    BY <1>1
  <2>3. roots' = [f \in Ids |-> IF roots[f] = firstRoot THEN root ELSE roots[f]]
    BY <1>1, <1>2, <1>9, <1>11, <2>1, <2>2
  <2> QED BY <1>6, <1>7, <1>11, <2>3
<1> QED BY <1>8, <1>10, <1>11

\* FindRoot and MergeFaults implement Joined: only the end of a merge changes
\* what the roots are, and to what Joined says.
THEOREM MergesCorrect == ForestSpec => MergesOnly
<1> DEFINE Ended == call = "second" /\ call' = "none"
           A == roots' = IF call = "second" /\ call' = "none" THEN Joined(roots, first, second) ELSE roots
<1>1. ASSUME ForestInv, ForestInv', [ForestNext]_forestVars
      PROVE  A \/ UNCHANGED forestVars
  <2>1. CASE Union
    <3>1. Ended
      BY <2>1 DEF Union, Ready
    <3>2. roots' = Joined(roots, first, second)
      BY <1>1, <2>1, UnionJoins
    <3> QED BY <3>1, <3>2
  <2>2. CASE Compress
    <3>1. call' = call /\ declared' = declared /\ faultId # root /\ parent' = [parent EXCEPT ![faultId] = root]
      BY <2>2 DEF Compress, Relink
    <3>2. \A f \in Ids : Group(f)' = Group(f)
      BY <3>1 DEF Group
    <3>3. ~ IsRoot(faultId) /\ faultId \in Ids /\ parent \in [Ids -> Ids]
      <4>1. call # "none" /\ loop = "compress"
        BY <2>2 DEF Compress
      <4>2. IsRoot(root) /\ root \in Group(Asked) /\ faultId \in Group(Asked)
        BY <1>1, <4>1 DEF ForestInv, CallOK
      <4>3. root \in Ids /\ faultId \in Ids /\ Asked \in Ids /\ parent \in [Ids -> Ids]
        BY <1>1 DEF ForestInv, TypeOK, Asked
      <4>4. root \in Group(faultId)
        BY <1>1, <4>2, <4>3, DeclaredGroups DEF ForestInv
      <4> QED BY <1>1, <3>1, <4>2, <4>3, <4>4 DEF ForestInv, ForestRepresentsGroups
    <3>4. \A f \in Ids : IsRoot(f)' <=> IsRoot(f)
      BY <3>1, <3>3 DEF IsRoot
    <3>5. roots' = roots
      BY <1>1, <3>2, <3>4, RootsStay
    <3> QED BY <3>1, <3>5
  <2>3. ASSUME UNCHANGED <<forest, declared>>, ~ Ended PROVE A
    <3>1. roots' = roots
      BY <1>1, <2>3, ForestFrame, RootsStay
    <3> QED BY <2>3, <3>1
  <2>4. ASSUME NEW f \in Ids, LookUp(f) PROVE A
    BY <2>3, <2>4 DEF LookUp
  <2>5. ASSUME NEW pair \in Pairs, MergeFaults(pair[1], pair[2]) PROVE A
    BY <2>3, <2>5 DEF MergeFaults
  <2>6. CASE Climb
    BY <2>3, <2>6 DEF Climb
  <2>7. CASE Answer
    BY <2>3, <2>7 DEF Answer, Ready
  <2>8. CASE FindSecond
    BY <2>3, <2>8 DEF FindSecond, Ready
  <2> HIDE DEF A
  <2> QED BY <1>1, <2>1, <2>2, <2>4, <2>5, <2>6, <2>7, <2>8 DEF ForestNext, Step
<1> QED BY <1>1, ForestInvCorrect, PTL DEF ForestSpec, MergesOnly

-----------------------------------------------------------------------------
(* One gate: the fault a of its input x and the fault b of its output n    *)

\* With the same inputs both faults give the same values to all nets but x.
LEMMA SameEffect ==
  ASSUME NEW c, WellFormed(c), NEW n \in Nets(c), NEW x \in Inputs(c, n),
         c.type[n] \notin {"IN", "FOUT"}, ~ Shared(c, x),
         NEW a, NEW b, \A v : v[x] = a => Eval(c, v, n) = b,
         NEW p, NEW k \in Nets(c), k # x
  PROVE  Values(c, p, Stuck(x, a))[k] = Values(c, p, Stuck(n, b))[k]
<1> DEFINE f == Values(c, p, Stuck(x, a))
           h == Values(c, p, Stuck(n, b))
           S == {m \in Nets(c) : m # x /\ f[m] # h[m]}
<1>1. x \in Nets(c) /\ n \in Outputs(c, x) /\ c.level[x] < c.level[n]
  BY Edges
<1>2. /\ \A m \in Nets(c) : f[m] = IF m = x THEN a ELSE IF c.type[m] = "IN" THEN p[m] ELSE Eval(c, f, m)
      /\ \A m \in Nets(c) : h[m] = IF m = n THEN b ELSE IF c.type[m] = "IN" THEN p[m] ELSE Eval(c, h, m)
  BY GoodAndFaulty
<1> HIDE DEF f, h
<1>3. c.level \in [Nets(c) -> Nat] /\ \A m \in Nets(c) : c.level[m] \in Nat
  BY DEF WellFormed
<1>4. SUFFICES ASSUME S # {} PROVE FALSE
  BY DEF f, h
<1>5. PICK m \in S : \A i \in S : c.level[m] <= c.level[i]
  <2>1. S \subseteq Nets(c)
    OBVIOUS
  <2> HIDE DEF S
  <2> QED BY <1>3, <1>4, <2>1, LowestNet
<1>6. n # x
  BY <1>1, <1>3
<1>7. m # n
  <2>1. f[x] = a /\ f[n] = Eval(c, f, n)
    BY <1>1, <1>2, <1>6
  <2>2. f[n] = b /\ h[n] = b
    BY <1>2, <2>1
  <2> QED BY <1>5, <2>2
<1>8. c.type[m] # "IN"
  BY <1>2, <1>5, <1>7
<1>9. ASSUME NEW i \in Inputs(c, m) PROVE f[i] = h[i]
  <2>1. i \in Nets(c) /\ c.level[i] < c.level[m] /\ m \in Outputs(c, i)
    BY Edges
  <2>2. i # x
    <3>1. \A j, l \in Outputs(c, x) : j # l => c.type[j] = "FOUT" \/ Shared(c, x)
      BY <1>1 DEF WellFormed
    <3> QED BY <1>1, <1>7, <2>1, <3>1
  <2> QED BY <1>3, <1>5, <2>1, <2>2
<1>10. Eval(c, f, m) = Eval(c, h, m)
  BY <1>8, <1>9, EvalDepends
<1> QED BY <1>2, <1>5, <1>7, <1>8, <1>10

\* What both tests have in common.
LEMMA TestAsValues ==
  ASSUME NEW c, WellFormed(c), NEW s \in Nets(c), NEW u \in Bits, NEW p
  PROVE  LET g == Values(c, p, <<>>)
             f == Values(c, p, Stuck(s, u))
         IN IsTest(FaultAt(c, s, u), g, f) <=>
              /\ g \in [Nets(c) -> Bits] /\ f \in [Nets(c) -> Bits]
              /\ g[s] = 1 - u
              /\ c.first[s] # None => g[c.first[s]] = u
              /\ \E o \in Observed(c) : f[o] # g[o]
<1> DEFINE g == Values(c, p, <<>>)
           f == Values(c, p, Stuck(s, u))
<1>1. /\ \A m \in Nets(c) : g[m] = IF c.type[m] = "IN" THEN p[m] ELSE Eval(c, g, m)
      /\ \A m \in Nets(c) : f[m] = IF m = s THEN u ELSE IF c.type[m] = "IN" THEN p[m] ELSE Eval(c, f, m)
  BY GoodAndFaulty
<1> HIDE DEF f, g
<1>2. IsSimulation(FaultAt(c, s, u), g, f) <=>
        g \in [Nets(c) -> Bits] /\ f \in [Nets(c) -> Bits]
  BY <1>1 DEF IsSimulation, IsValuation, FaultAt
<1>3. IsTest(FaultAt(c, s, u), g, f) <=>
              /\ g \in [Nets(c) -> Bits] /\ f \in [Nets(c) -> Bits]
              /\ g[s] = 1 - u
              /\ c.first[s] # None => g[c.first[s]] = u
              /\ \E o \in Observed(c) : f[o] # g[o]
  BY <1>2 DEF IsTest, FaultAt
<1> QED BY <1>3 DEF f, g

\* The same inputs are tests of both.
LEMMA PairTests ==
  ASSUME NEW c, WellFormed(c), NEW n \in Nets(c), NEW x \in Inputs(c, n),
         c.type[n] \notin {"IN", "FOUT"},
         NEW a \in Bits, NEW b \in Bits,
         \A v : v[x] = a => Eval(c, v, n) = b,
         c.first[n] = None <=> c.first[x] = None,
         \A v : IsValuation(c, v, {}) /\ c.first[n] # None => (v[c.first[n]] = b <=> v[c.first[x]] = a),
         NEW p
  PROVE  IsTest(FaultAt(c, x, a), Values(c, p, <<>>), Values(c, p, Stuck(x, a)))
         <=> IsTest(FaultAt(c, n, b), Values(c, p, <<>>), Values(c, p, Stuck(n, b)))
<1> DEFINE g == Values(c, p, <<>>)
           f == Values(c, p, Stuck(x, a))
           h == Values(c, p, Stuck(n, b))
<1>1. x \in Nets(c) /\ n \in Outputs(c, x) /\ c.level[x] < c.level[n] /\ n # x
  <2>1. x \in Nets(c) /\ n \in Outputs(c, x) /\ c.level[x] < c.level[n]
    BY Edges
  <2>2. c.level[x] \in Nat /\ c.level[n] \in Nat
    BY <2>1 DEF WellFormed
  <2> QED BY <2>1, <2>2
<1>2. /\ \A m \in Nets(c) : g[m] = IF c.type[m] = "IN" THEN p[m] ELSE Eval(c, g, m)
      /\ f[x] = a /\ h[n] = b
      /\ f = [m \in Nets(c) |-> f[m]] /\ h = [m \in Nets(c) |-> h[m]]
  BY <1>1, GoodAndFaulty
<1>3. h[x] = g[x]
  BY <1>1, Unaffected
<1>4. ~ Shared(c, x) => \A m \in Nets(c) : m # x => f[m] = h[m]
  BY SameEffect
<1>5. g[n] = b => \A m \in Nets(c) : h[m] = g[m]
  BY Unaffected
<1>6. IsTest(FaultAt(c, x, a), g, f) <=>
              /\ g \in [Nets(c) -> Bits] /\ f \in [Nets(c) -> Bits]
              /\ g[x] = 1 - a
              /\ c.first[x] # None => g[c.first[x]] = a
              /\ \E o \in Observed(c) : f[o] # g[o]
  BY <1>1, TestAsValues
<1>7. IsTest(FaultAt(c, n, b), g, h) <=>
              /\ g \in [Nets(c) -> Bits] /\ h \in [Nets(c) -> Bits]
              /\ g[n] = 1 - b
              /\ c.first[n] # None => g[c.first[n]] = b
              /\ \E o \in Observed(c) : h[o] # g[o]
  BY <1>1, TestAsValues
<1> HIDE DEF f, g, h
<1>8. a \in {0, 1} /\ b \in {0, 1} /\ x # None /\ None \notin Nets(c)
  <2>1. None \notin Nets(c)
    <3>1. Nets(c) \subseteq Nat
      BY DEF WellFormed
    <3> QED BY <3>1 DEF None
  <2>2. a \in {0, 1} /\ b \in {0, 1}
    BY DEF Bits
  <2> QED BY <1>1, <2>1, <2>2
<1>9. g[n] = 1 - b => g[x] # a
  BY <1>2, <1>8
<1>10. ASSUME g \in [Nets(c) -> Bits]
       PROVE  /\ IsValuation(c, g, {})
              /\ c.first[n] # None => (g[c.first[n]] = b <=> g[c.first[x]] = a)
  <2>1. IsValuation(c, g, {})
    BY <1>2, <1>10 DEF IsValuation
  <2> QED BY <2>1
<1>11. CASE Shared(c, x)
  <2>1. c.first[x] = x /\ c.first[x] # None /\ c.first[n] # None
    BY <1>8, <1>11 DEF Shared
  <2>2. ~ (g[x] = 1 - a /\ g[x] = a)
    BY <1>8
  <2>3. ~ IsTest(FaultAt(c, x, a), g, f)
    BY <1>6, <2>1, <2>2
  <2>4. ~ IsTest(FaultAt(c, n, b), g, h)
    <3> SUFFICES ASSUME g \in [Nets(c) -> Bits], g[n] = 1 - b, g[c.first[n]] = b PROVE FALSE
      BY <1>7, <2>1
    <3>1. g[x] = a
      BY <1>10, <2>1
    <3> QED BY <1>9, <3>1
  <2> QED BY <2>3, <2>4 DEF f, g, h
<1>12. CASE ~ Shared(c, x)
  <2>1. \A o \in Observed(c) : o \in Nets(c) /\ o # x
    BY <1>1, <1>12 DEF WellFormed
  <2>2. \A o \in Observed(c) : f[o] = h[o]
    BY <1>4, <1>12, <2>1
  <2>3. (\E o \in Observed(c) : f[o] # g[o]) => g[n] # b
    BY <1>5, <2>1, <2>2
  <2>4. ASSUME g \in [Nets(c) -> Bits] PROVE f \in [Nets(c) -> Bits] <=> h \in [Nets(c) -> Bits]
    <3>1. g[x] \in Bits /\ f[x] \in Bits /\ h[x] \in Bits
      BY <1>1, <1>2, <1>3, <2>4
    <3>2. \A m \in Nets(c) : f[m] \in Bits <=> h[m] \in Bits
      BY <1>4, <1>12, <3>1
    <3> QED BY <1>2, <3>2
  <2>5. ASSUME g \in [Nets(c) -> Bits], \E o \in Observed(c) : f[o] # g[o]
        PROVE  g[n] = 1 - b /\ g[x] = 1 - a
    <3>1. g[n] \in {0, 1} /\ g[x] \in {0, 1}
      BY <1>1, <2>5 DEF Bits
    <3>2. g[n] = 1 - b
      BY <1>8, <2>3, <2>5, <3>1
    <3> QED BY <1>8, <1>9, <3>1, <3>2
  <2>6. ASSUME IsTest(FaultAt(c, x, a), g, f) PROVE IsTest(FaultAt(c, n, b), g, h)
    <3>1. /\ g \in [Nets(c) -> Bits] /\ f \in [Nets(c) -> Bits]
          /\ c.first[x] # None => g[c.first[x]] = a
          /\ \E o \in Observed(c) : f[o] # g[o]
      BY <1>6, <2>6
    <3>2. h \in [Nets(c) -> Bits] /\ g[n] = 1 - b
      BY <2>4, <2>5, <3>1
    <3>3. c.first[n] # None => g[c.first[n]] = b
      BY <1>10, <3>1
    <3>4. \E o \in Observed(c) : h[o] # g[o]
      BY <2>2, <3>1
    <3> QED BY <1>7, <3>1, <3>2, <3>3, <3>4
  <2>7. ASSUME IsTest(FaultAt(c, n, b), g, h) PROVE IsTest(FaultAt(c, x, a), g, f)
    <3>1. /\ g \in [Nets(c) -> Bits] /\ h \in [Nets(c) -> Bits]
          /\ c.first[n] # None => g[c.first[n]] = b
          /\ \E o \in Observed(c) : h[o] # g[o]
      BY <1>7, <2>7
    <3>2. \E o \in Observed(c) : f[o] # g[o]
      BY <2>2, <3>1
    <3>3. f \in [Nets(c) -> Bits] /\ g[x] = 1 - a
      BY <2>4, <2>5, <3>1, <3>2
    <3>4. c.first[x] # None => g[c.first[x]] = a
      BY <1>10, <3>1
    <3> QED BY <1>6, <3>1, <3>2, <3>3, <3>4
  <2> QED BY <2>6, <2>7 DEF f, g, h
<1> QED BY <1>11, <1>12

\* Every test comes from an input pattern.
LEMMA InTestValues ==
  ASSUME NEW c, NEW s, NEW u, NEW v
  PROVE  v \in TestValues(c, s, u) <=>
           \E p \in InputPatterns(c) :
             v = Values(c, p, <<>>) /\ IsTest(FaultAt(c, s, u), Values(c, p, <<>>), Values(c, p, Stuck(s, u)))
<1>1. ASSUME NEW t \in AllTests(c, s, u), v = t.good
      PROVE  \E p \in InputPatterns(c) :
               v = Values(c, p, <<>>) /\ IsTest(FaultAt(c, s, u), Values(c, p, <<>>), Values(c, p, Stuck(s, u)))
  BY <1>1 DEF AllTests, AllSimulations
<1>2. ASSUME NEW p \in InputPatterns(c), v = Values(c, p, <<>>),
             IsTest(FaultAt(c, s, u), Values(c, p, <<>>), Values(c, p, Stuck(s, u)))
      PROVE  \E t \in AllTests(c, s, u) : v = t.good
  <2> DEFINE t == [good |-> Values(c, p, <<>>), faulty |-> Values(c, p, Stuck(s, u))]
  <2>1. t \in AllTests(c, s, u)
    BY <1>2 DEF AllTests, AllSimulations
  <2> QED BY <1>2, <2>1
<1> QED BY <1>1, <1>2 DEF TestValues

\* The faults have the same tests.
LEMMA PairsShareTests ==
  ASSUME NEW c, WellFormed(c), NEW n \in Nets(c), NEW x \in Inputs(c, n),
         c.type[n] \notin {"IN", "FOUT"},
         NEW a \in Bits, NEW b \in Bits,
         \A v : v[x] = a => Eval(c, v, n) = b,
         c.first[n] = None <=> c.first[x] = None,
         \A v : IsValuation(c, v, {}) /\ c.first[n] # None => (v[c.first[n]] = b <=> v[c.first[x]] = a)
  PROVE  TestValues(c, x, a) = TestValues(c, n, b)
<1>1. \A p : IsTest(FaultAt(c, x, a), Values(c, p, <<>>), Values(c, p, Stuck(x, a)))
             <=> IsTest(FaultAt(c, n, b), Values(c, p, <<>>), Values(c, p, Stuck(n, b)))
  BY PairTests
<1>2. ASSUME NEW v PROVE v \in TestValues(c, x, a) <=> v \in TestValues(c, n, b)
  <2>1. v \in TestValues(c, x, a) <=>
          \E p \in InputPatterns(c) :
            v = Values(c, p, <<>>) /\ IsTest(FaultAt(c, x, a), Values(c, p, <<>>), Values(c, p, Stuck(x, a)))
    BY InTestValues
  <2>2. v \in TestValues(c, n, b) <=>
          \E p \in InputPatterns(c) :
            v = Values(c, p, <<>>) /\ IsTest(FaultAt(c, n, b), Values(c, p, <<>>), Values(c, p, Stuck(n, b)))
    BY InTestValues
  <2> QED BY <1>1, <2>1, <2>2
<1>3. \A v : v \in TestValues(c, x, a) <=> v \in TestValues(c, n, b)
  BY <1>2
<1> QED BY <1>3

-----------------------------------------------------------------------------
(* The pairs of a gate *)

\* Faults of the circuit that have the same tests.
Equivalent(f, g) == f \in Faults /\ g \in Faults /\ Tests(f) = Tests(g)

\* An input and the output of a gate that the program collapses across.
LEMMA GatePair ==
  ASSUME WellFormed(circuit), NEW n \in Nets(circuit), NEW x \in Inputs(circuit, n), Collapsible(n),
         NEW a \in Bits, NEW b \in Bits,
         circuit.type[n] \in Controllable \union {"BUF", "INV"},
         circuit.type[n] \in Controllable =>
           a = 1 - NonControlling(circuit.type[n]) /\ b = 1 - Uncontrolled(circuit.type[n]),
         circuit.type[n] = "BUF" => b = a,
         circuit.type[n] = "INV" => b = 1 - a
  PROVE  Equivalent(<<x, a>>, <<n, b>>)
<1> DEFINE c == circuit
<1>1. x \in Nets(c)
  BY Edges
<1>2. c.type[n] \notin {"IN", "FOUT"}
  BY DEF Controllable
<1>3. c.type[n] \in {"BUF", "INV"} => x = c.in[n][1]
  BY OneInput
<1>4. ASSUME NEW v, v[x] = a PROVE Eval(c, v, n) = b
  <2>1. CASE c.type[n] \in Controllable
    <3>1. NonControlling(c.type[n]) \in {0, 1}
      BY UncontrolledBit DEF Bits
    <3>2. ~ \A m \in Inputs(c, n) : v[m] = NonControlling(c.type[n])
      BY <1>4, <2>1, <3>1
    <3> QED BY <2>1, <3>2 DEF Eval, Controllable
  <2>2. CASE c.type[n] \in {"BUF", "INV"}
    BY <1>3, <1>4, <2>2 DEF Eval, Controllable
  <2> QED BY <2>1, <2>2
<1>5. CASE ~ IsTransition
  <2>1. c.first[n] = None /\ c.first[x] = None
    BY <1>1, <1>5 DEF IsTransition
  <2>2. TestValues(c, x, a) = TestValues(c, n, b)
    BY <1>2, <1>4, <2>1, PairsShareTests
  <2> QED BY <1>1, <2>2 DEF Equivalent, Tests, Faults, FaultsOf
<1>6. CASE IsTransition
  <2> DEFINE m == c.first[n]
  <2>1. /\ c.type[n] \in {"BUF", "INV"} /\ m # None /\ c.type[m] # "IN" /\ c.first[x] # None
    BY <1>3, <1>6 DEF Collapsible
  <2>2. m \in Nets(c)
    BY <2>1 DEF WellFormed
  <2>3. c.type[m] = c.type[n] /\ c.in[m] = [i \in DOMAIN c.in[n] |-> c.first[c.in[n][i]]]
    BY <2>1 DEF WellFormed
  <2>4. c.in[m][1] = c.first[x]
    <3>1. c.in[n] # <<>> /\ c.in[n] \in Seq(Nets(c))
      BY <1>2 DEF WellFormed
    <3>2. 1 \in DOMAIN c.in[n]
      BY <3>1
    <3> QED BY <1>3, <2>1, <2>3, <3>2
  <2>5. c.first[x] \in Nets(c)
    BY <1>1, <2>1 DEF WellFormed
  <2>6. ASSUME NEW v, IsValuation(c, v, {}) PROVE v[m] = b <=> v[c.first[x]] = a
    <3>1. v[m] = Eval(c, v, m) /\ v[m] \in {0, 1} /\ v[c.first[x]] \in {0, 1}
      BY <2>1, <2>2, <2>5, <2>6 DEF IsValuation, Bits
    <3>2. v[m] = IF c.type[n] = "INV" THEN 1 - v[c.first[x]] ELSE v[c.first[x]]
      BY <2>1, <2>3, <2>4, <3>1 DEF Eval, Controllable
    <3>3. a \in {0, 1} /\ (b = IF c.type[n] = "INV" THEN 1 - a ELSE a)
      BY <2>1 DEF Bits
    <3> QED BY <3>1, <3>2, <3>3
  <2>7. TestValues(c, x, a) = TestValues(c, n, b)
    BY <1>2, <1>4, <2>1, <2>6, PairsShareTests
  <2> QED BY <1>1, <2>7 DEF Equivalent, Tests, Faults, FaultsOf
<1> QED BY <1>5, <1>6

\* The pairs taken from a gate.
LEMMA GatePairsEquivalent ==
  ASSUME WellFormed(circuit), NEW n \in Nets(circuit)
  PROVE  GatePairs(n) \in Seq({pair \in Faults \X Faults : Equivalent(pair[1], pair[2])})
<1> DEFINE type == circuit.type[n]
           in == circuit.in[n]
           EquivalentPairs == {pair \in Faults \X Faults : Equivalent(pair[1], pair[2])}
<1>1. in \in Seq(Nets(circuit))
  BY DEF WellFormed
<1>2. ASSUME NEW f, NEW g, Equivalent(f, g) PROVE <<f, g>> \in EquivalentPairs
  BY <1>2 DEF Equivalent
<1>3. <<>> \in Seq(EquivalentPairs)
  OBVIOUS
<1>4. NonControlling(type) \in {0, 1} /\ Uncontrolled(type) \in {0, 1}
  BY UncontrolledBit DEF Bits
<1>5. \A i \in DOMAIN in : in[i] \in Inputs(circuit, n)
  BY DEF Inputs
<1> HIDE DEF EquivalentPairs
<1>6. CASE Collapsible(n) /\ type \in {"BUF", "INV"}
  <2> DEFINE Through(u) == IF type = "INV" THEN 1 - u ELSE u
  <2>1. in[1] \in Inputs(circuit, n)
    BY <1>6, FirstInput
  <2>2. ASSUME NEW u \in {0, 1} PROVE << <<in[1], u>>, <<n, Through(u)>> >> \in EquivalentPairs
    <3>1. Through(u) \in Bits /\ u \in Bits
      BY DEF Bits
    <3>2. Equivalent(<<in[1], u>>, <<n, Through(u)>>)
      <4> DEFINE b == Through(u)
                 x == in[1]
      <4>1. (type = "BUF" => b = u) /\ (type = "INV" => b = 1 - u) /\ b \in Bits /\ x \in Inputs(circuit, n)
        BY <1>6, <2>1, <3>1
      <4>2. type \notin Controllable /\ type \in Controllable \union {"BUF", "INV"}
        BY <1>6 DEF Controllable
      <4> HIDE DEF b, x
      <4>3. Equivalent(<<x, u>>, <<n, b>>)
        BY <1>6, <3>1, <4>1, <4>2, GatePair
      <4> QED BY <4>3 DEF b, x
    <3> QED BY <1>2, <3>2
  <2>3. GatePairs(n) = << << <<in[1], 0>>, <<n, Through(0)>> >>, << <<in[1], 1>>, <<n, Through(1)>> >> >>
    BY <1>6 DEF GatePairs, Controllable
  <2> HIDE DEF Through
  <2>4. << <<in[1], 0>>, <<n, Through(0)>> >> \in EquivalentPairs /\ << <<in[1], 1>>, <<n, Through(1)>> >> \in EquivalentPairs
    BY <2>2
  <2>5. \A a, b \in EquivalentPairs : <<a, b>> \in Seq(EquivalentPairs)
    OBVIOUS
  <2>6. GatePairs(n) \in Seq(EquivalentPairs)
    BY <2>3, <2>4, <2>5
  <2> QED BY <2>6 DEF EquivalentPairs
<1>7. CASE Collapsible(n) /\ type \in Controllable
  <2> DEFINE a == 1 - NonControlling(type)
             b == 1 - Uncontrolled(type)
  <2>1. a \in Bits /\ b \in Bits
    BY <1>4 DEF Bits
  <2>2. type # "BUF" /\ type # "INV"
    BY <1>7 DEF Controllable
  <2>3. ASSUME NEW i \in DOMAIN in PROVE << <<in[i], a>>, <<n, b>> >> \in EquivalentPairs
    <3>1. Equivalent(<<in[i], a>>, <<n, b>>)
      BY <1>5, <1>7, <2>1, <2>2, GatePair
    <3> QED BY <1>2, <3>1
  <2>4. GatePairs(n) = [i \in DOMAIN in |-> << <<in[i], a>>, <<n, b>> >>]
    BY <1>7, <2>2 DEF GatePairs
  <2> HIDE DEF a, b
  <2>5. GatePairs(n) \in [1 .. Len(in) -> EquivalentPairs] /\ Len(in) \in Nat
    <3>1. DOMAIN in = 1 .. Len(in) /\ Len(in) \in Nat
      BY <1>1
    <3> HIDE DEF in
    <3> QED BY <2>3, <2>4, <3>1
  <2>6. GatePairs(n) \in Seq(EquivalentPairs)
    BY <2>5
  <2> QED BY <2>6 DEF EquivalentPairs
<1>8. CASE ~ (Collapsible(n) /\ type \in Controllable \union {"BUF", "INV"})
  <2>1. GatePairs(n) = <<>>
    <3>1. CASE ~ Collapsible(n)
      BY <3>1 DEF GatePairs
    <3>2. CASE type \notin Controllable /\ type \notin {"BUF", "INV"}
      BY <3>2 DEF GatePairs
    <3> QED BY <1>8, <3>1, <3>2
  <2> QED BY <1>3, <2>1 DEF EquivalentPairs
<1> QED BY <1>6, <1>7, <1>8

-----------------------------------------------------------------------------
(* Groups *)

\* No two faults with different tests are in one group.
GroupsShareTests ==
  /\ rootOf \in [Faults -> Faults]
  /\ \A f, g \in Faults : rootOf[f] = rootOf[g] => Tests(f) = Tests(g)

\* What a merge does to the roots: one of the two roots takes the other's place.
LEMMA MergedRoots ==
  ASSUME GroupsShareTests, NEW f, NEW g
  PROVE  \E stays \in {rootOf[f], rootOf[g]}, goes \in {rootOf[f], rootOf[g]} :
           /\ Merged(f, g) = [h \in Faults |-> IF rootOf[h] = goes THEN stays ELSE rootOf[h]]
           /\ {stays, goes} = {rootOf[f], rootOf[g]}
<1>1. DOMAIN rootOf = Faults
  BY DEF GroupsShareTests
<1> QED BY <1>1 DEF Merged, Joined

\* The faults of a group.
LEMMA InGroup ==
  ASSUME GroupsShareTests, NEW r, NEW f
  PROVE  f \in GroupOf(r) <=> f \in Faults /\ rootOf[f] = r
BY DEF GroupsShareTests, GroupOf, Tree

LEMMA MergedGroups ==
  ASSUME GroupsShareTests, NEW f, NEW g, Equivalent(f, g)
  PROVE  /\ Merged(f, g) \in [Faults -> Faults]
         /\ \A h, k \in Faults : Merged(f, g)[h] = Merged(f, g)[k] => Tests(h) = Tests(k)
<1>1. f \in Faults /\ g \in Faults /\ Tests(f) = Tests(g)
  BY DEF Equivalent
<1>2. PICK stays \in {rootOf[f], rootOf[g]}, goes \in {rootOf[f], rootOf[g]} :
        Merged(f, g) = [h \in Faults |-> IF rootOf[h] = goes THEN stays ELSE rootOf[h]]
  BY MergedRoots
<1>3. stays \in Faults
  BY <1>1 DEF GroupsShareTests
<1>4. ASSUME NEW h \in Faults, rootOf[h] = stays \/ rootOf[h] = goes PROVE Tests(h) = Tests(f)
  BY <1>1, <1>2, <1>4 DEF GroupsShareTests
<1>5. ASSUME NEW h \in Faults, NEW k \in Faults, Merged(f, g)[h] = Merged(f, g)[k] PROVE Tests(h) = Tests(k)
  <2>1. (IF rootOf[h] = goes THEN stays ELSE rootOf[h]) = (IF rootOf[k] = goes THEN stays ELSE rootOf[k])
    BY <1>2, <1>5
  <2>2. CASE rootOf[h] = rootOf[k]
    BY <2>2 DEF GroupsShareTests
  <2>3. CASE rootOf[h] # rootOf[k]
    <3>1. (rootOf[h] = stays \/ rootOf[h] = goes) /\ (rootOf[k] = stays \/ rootOf[k] = goes)
      BY <2>1, <2>3
    <3> QED BY <1>4, <3>1
  <2> QED BY <2>2, <2>3
<1> QED BY <1>2, <1>3, <1>5 DEF GroupsShareTests

-----------------------------------------------------------------------------
(* Orders *)

\* R is a strict total order on T.
Orders(R, T) ==
  /\ \A x \in T : <<x, x>> \notin R
  /\ \A x, y, z \in T : <<x, y>> \in R /\ <<y, z>> \in R => <<x, z>> \in R
  /\ \A x, y \in T : x = y \/ <<x, y>> \in R \/ <<y, x>> \in R

Below(R, T, x) == {y \in T : <<y, x>> \in R}

\* In an ordered finite set there is an element for each number of predecessors.
LEMMA Ranks ==
  ASSUME NEW T, IsFiniteSet(T), NEW R, Orders(R, T)
  PROVE  /\ Cardinality(T) \in Nat
         /\ \A k \in 1 .. Cardinality(T) : \E x \in T : Cardinality(Below(R, T, x)) = k - 1
         /\ \A x \in T : Cardinality(Below(R, T, x)) \in 0 .. Cardinality(T) - 1
         /\ \A x, y \in T : Cardinality(Below(R, T, x)) = Cardinality(Below(R, T, y)) => x = y
<1> DEFINE N == Cardinality(T)
           rank == [x \in T |-> Cardinality(Below(R, T, x))]
<1>1. N \in Nat
  BY FS_CardinalityType
<1>2. ASSUME NEW x \in T
      PROVE  IsFiniteSet(Below(R, T, x)) /\ Cardinality(Below(R, T, x)) \in 0 .. N - 1
  <2>1. Below(R, T, x) \subseteq T \ {x}
    BY DEF Below, Orders
  <2>2. IsFiniteSet(T \ {x}) /\ Cardinality(T \ {x}) = N - 1
    BY FS_RemoveElement
  <2>3. IsFiniteSet(Below(R, T, x)) /\ Cardinality(Below(R, T, x)) <= N - 1
    BY <2>1, <2>2, FS_Subset
  <2>4. Cardinality(Below(R, T, x)) \in Nat
    BY <2>3, FS_CardinalityType
  <2> QED BY <1>1, <2>3, <2>4
<1>3. ASSUME NEW x \in T, NEW y \in T, <<x, y>> \in R
      PROVE  Cardinality(Below(R, T, x)) # Cardinality(Below(R, T, y))
  <2>1. Below(R, T, x) \union {x} \subseteq Below(R, T, y)
    BY <1>3 DEF Below, Orders
  <2>2. x \notin Below(R, T, x)
    BY DEF Below, Orders
  <2>3. IsFiniteSet(Below(R, T, x) \union {x})
        /\ Cardinality(Below(R, T, x) \union {x}) = Cardinality(Below(R, T, x)) + 1
    BY <1>2, <2>2, FS_AddElement
  <2>4. Cardinality(Below(R, T, x)) + 1 <= Cardinality(Below(R, T, y))
    BY <1>2, <2>1, <2>3, FS_Subset
  <2>5. Cardinality(Below(R, T, x)) \in Nat /\ Cardinality(Below(R, T, y)) \in Nat
    BY <1>2
  <2> QED BY <2>4, <2>5
<1>4. \A x, y \in T : Cardinality(Below(R, T, x)) = Cardinality(Below(R, T, y)) => x = y
  BY <1>3 DEF Orders
<1>5. rank \in Injection(T, 0 .. N - 1)
  <2>1. rank \in [T -> 0 .. N - 1]
    BY <1>2
  <2>2. IsInjective(rank)
    BY <1>4 DEF IsInjective
  <2> QED BY <2>1, <2>2 DEF Injection
<1>6. IsFiniteSet(0 .. N - 1) /\ Cardinality(0 .. N - 1) = N
  <2>1. IsFiniteSet(0 .. N - 1) /\ Cardinality(0 .. N - 1) = IF 0 > N - 1 THEN 0 ELSE N - 1 - 0 + 1
    BY <1>1, FS_Interval
  <2> QED BY <1>1, <2>1
<1>7. rank \in Surjection(T, 0 .. N - 1)
  <2> HIDE DEF rank
  <2> QED BY <1>5, <1>6, FS_Injection
<1>8. ASSUME NEW k \in 1 .. N PROVE \E x \in T : Cardinality(Below(R, T, x)) = k - 1
  <2>1. k - 1 \in 0 .. N - 1
    BY <1>1
  <2>2. PICK x \in T : rank[x] = k - 1
    BY <1>7, <2>1 DEF Surjection
  <2> QED BY <2>2
<1> QED BY <1>1, <1>2, <1>4, <1>8

\* An ordered finite set has a first element.
LEMMA FirstOf ==
  ASSUME NEW T, IsFiniteSet(T), T # {}, NEW R, Orders(R, T)
  PROVE  \E x \in T : \A y \in T \ {x} : <<x, y>> \in R
<1>1. Cardinality(T) \in Nat /\ Cardinality(T) # 0
  BY FS_CardinalityType, FS_EmptySet
<1>2. PICK x \in T : Cardinality(Below(R, T, x)) = 0
  <2>1. 1 \in 1 .. Cardinality(T)
    BY <1>1
  <2>2. \E x \in T : Cardinality(Below(R, T, x)) = 1 - 1
    BY <2>1, Ranks
  <2> QED BY <2>2
<1>3. Below(R, T, x) = {}
  <2>1. Below(R, T, x) \subseteq T
    BY DEF Below
  <2>2. IsFiniteSet(Below(R, T, x))
    BY <2>1, FS_Subset
  <2> QED BY <1>2, <2>2, FS_EmptySet
<1> QED BY <1>3 DEF Below, Orders

\* A finite set of numbers has a greatest one.
LEMMA GreatestNumber ==
  ASSUME NEW T, T \subseteq Nat, IsFiniteSet(T), T # {}
  PROVE  \E x \in T : \A y \in T : y <= x
<1> DEFINE R == {pair \in T \X T : pair[2] < pair[1]}
<1>1. Orders(R, T)
  <2>1. \A x, y \in T : <<x, y>> \in R <=> y < x
    OBVIOUS
  <2> HIDE DEF R
  <2> QED BY <2>1 DEF Orders
<1>2. \A x, y \in T : <<x, y>> \in R => y <= x
  OBVIOUS
<1>3. PICK x \in T : \A y \in T \ {x} : <<x, y>> \in R
  <2> HIDE DEF R
  <2> QED BY <1>1, FirstOf
<1> HIDE DEF R
<1>4. \A y \in T : y <= x
  <2>1. x \in Nat /\ T \subseteq Nat
    OBVIOUS
  <2>2. ASSUME NEW y \in T PROVE y <= x
    <3>1. CASE y = x
      BY <2>1, <3>1
    <3>2. CASE y # x
      BY <1>2, <1>3, <3>2
    <3> QED BY <3>1, <3>2
  <2> QED BY <2>2
<1> QED BY <1>4

\* The program's circuits.
LEMMA CircuitIsOK ==
  ASSUME run \in Runs
  PROVE  /\ WellFormed(circuit) /\ Nets(circuit) = 0 .. NetCount - 1 /\ NetCount \in Nat
         /\ run.bucket \in [Faults -> Nat]
         /\ IsFiniteSet(Faults) /\ SiteFaults \subseteq Faults
         /\ \A f \in Faults : f[1] \in Nets(circuit) /\ circuit.level[f[1]] \in Nat
         /\ run.fault \in BOOLEAN /\ run.equiv \in BOOLEAN
<1>1. WellFormed(circuit) /\ Nets(circuit) = 0 .. NetCount - 1 /\ run.bucket \in [Faults -> Nat]
      /\ run.fault \in BOOLEAN /\ run.equiv \in BOOLEAN
  BY FaultGroupsAssumption DEF circuit, Faults, NetCount
<1>2. IsFiniteSet(Nets(circuit)) /\ circuit.level \in [Nets(circuit) -> Nat]
  BY <1>1 DEF WellFormed
<1>3. NetCount \in Nat
  BY <1>2, FS_CardinalityType DEF NetCount
<1>4. IsFiniteSet(Faults)
  <2>1. IsFiniteSet({0, 1})
    <3>1. IsFiniteSet({0}) /\ {0, 1} = {0} \union {1}
      BY FS_Singleton
    <3> QED BY <3>1, FS_AddElement
  <2> QED BY <1>2, <2>1, FS_Product DEF Faults, FaultsOf, Bits
<1>5. SiteFaults \subseteq Faults
  BY DEF SiteFaults, Faults, FaultsOf, Sites
<1> QED BY <1>1, <1>2, <1>3, <1>4, <1>5 DEF Faults, FaultsOf

\* The order of analysis is total on the faults of the list.
LEMMA EarlierOrders ==
  ASSUME run \in Runs, list \in [Range(run.bucket) -> Seq(Faults)]
  PROVE  /\ Orders({pair \in Listed \X Listed : Earlier(pair[1], pair[2])}, Listed)
         /\ Listed \subseteq Faults /\ IsFiniteSet(Listed)
<1>1. /\ run.bucket \in [Faults -> Nat] /\ IsFiniteSet(Faults)
      /\ \A f \in Faults : circuit.level[f[1]] \in Nat
  BY CircuitIsOK
<1>2. Listed \subseteq Faults /\ IsFiniteSet(Listed)
  <2>1. Listed \subseteq Faults
    BY DEF Listed
  <2> QED BY <1>1, <2>1, FS_Subset
<1>3. ASSUME NEW f \in Listed
      PROVE  Place(f) \in Nat /\ list[run.bucket[f]][Place(f)] = f /\ run.bucket[f] \in Nat
  <2>1. f \in Faults /\ f \in Range(list[run.bucket[f]])
    BY DEF Listed
  <2>2. run.bucket[f] \in Range(run.bucket) /\ run.bucket[f] \in Nat
    BY <1>1, <2>1 DEF Range
  <2>3. list[run.bucket[f]] \in Seq(Faults)
    BY <2>2
  <2>4. PICK i \in DOMAIN list[run.bucket[f]] : list[run.bucket[f]][i] = f
    BY <2>1 DEF Range
  <2>5. Place(f) \in DOMAIN list[run.bucket[f]] /\ list[run.bucket[f]][Place(f)] = f
    BY <2>4 DEF Place
  <2>6. Place(f) \in Nat
    BY <2>3, <2>5
  <2> QED BY <2>2, <2>5, <2>6
<1> DEFINE R == {pair \in Listed \X Listed : Earlier(pair[1], pair[2])}
<1>4. \A f, g \in Listed : <<f, g>> \in R <=> Earlier(f, g)
  OBVIOUS
<1> HIDE DEF R
<1>5. \A f \in Listed : ~ Earlier(f, f)
  BY <1>1, <1>2, <1>3 DEF Earlier
<1>6. ASSUME NEW f \in Listed, NEW g \in Listed, NEW h \in Listed, Earlier(f, g), Earlier(g, h) PROVE Earlier(f, h)
  <2>1. /\ circuit.level[f[1]] \in Nat /\ circuit.level[g[1]] \in Nat /\ circuit.level[h[1]] \in Nat
        /\ run.bucket[f] \in Nat /\ run.bucket[g] \in Nat /\ run.bucket[h] \in Nat
        /\ Place(f) \in Nat /\ Place(g) \in Nat /\ Place(h) \in Nat
    BY <1>1, <1>2, <1>3
  <2> QED BY <1>6, <2>1 DEF Earlier
<1>7. ASSUME NEW f \in Listed, NEW g \in Listed, f # g PROVE Earlier(f, g) \/ Earlier(g, f)
  <2>1. /\ circuit.level[f[1]] \in Nat /\ circuit.level[g[1]] \in Nat
        /\ run.bucket[f] \in Nat /\ run.bucket[g] \in Nat
        /\ Place(f) \in Nat /\ Place(g) \in Nat
    BY <1>1, <1>2, <1>3
  <2>2. run.bucket[f] = run.bucket[g] => Place(f) # Place(g)
    BY <1>3, <1>7
  <2> QED BY <2>1, <2>2 DEF Earlier
<1>8. Orders(R, Listed)
  BY <1>4, <1>5, <1>6, <1>7 DEF Orders
<1> QED BY <1>2, <1>8 DEF R

-----------------------------------------------------------------------------
(* Sequences *)

LEMMA RangeOfSeq ==
  ASSUME NEW S, NEW s \in Seq(S)
  PROVE  Range(s) \subseteq S /\ s \in Seq(Range(s))
<1>1. DOMAIN s = 1 .. Len(s) /\ Len(s) \in Nat /\ s \in [1 .. Len(s) -> S]
  OBVIOUS
<1>2. \A i \in DOMAIN s : s[i] \in S /\ s[i] \in Range(s)
  BY <1>1 DEF Range
<1>3. Range(s) \subseteq S
  BY <1>2 DEF Range
<1>4. s \in [1 .. Len(s) -> Range(s)]
  BY <1>1, <1>2
<1>5. s \in Seq(Range(s))
  BY <1>1, <1>4
<1> QED BY <1>3, <1>5

LEMMA SeqOf ==
  ASSUME NEW S, NEW s \in Seq(S), NEW U, \A i \in DOMAIN s : s[i] \in U
  PROVE  s \in Seq(U)
<1>1. DOMAIN s = 1 .. Len(s) /\ Len(s) \in Nat /\ s \in [1 .. Len(s) -> S]
  OBVIOUS
<1>2. s \in [1 .. Len(s) -> U]
  BY <1>1
<1> QED BY <1>1, <1>2

\* A new first element.
LEMMA Prepended ==
  ASSUME NEW S, NEW s \in Seq(S), NEW f \in S
  PROVE  /\ <<f>> \o s \in Seq(S)
         /\ Range(<<f>> \o s) = {f} \union Range(s)
         /\ IsInjective(s) /\ f \notin Range(s) => IsInjective(<<f>> \o s)
<1> DEFINE t == <<f>> \o s
<1>1. /\ t \in Seq(S) /\ Len(t) = Len(s) + 1 /\ t[1] = f /\ Len(s) \in Nat
      /\ \A i \in 2 .. Len(t) : t[i] = s[i - 1]
  OBVIOUS
<1>2. DOMAIN t = 1 .. Len(s) + 1 /\ DOMAIN s = 1 .. Len(s)
  BY <1>1
<1> HIDE DEF t
<1>3. \A i \in DOMAIN s : i + 1 \in DOMAIN t /\ t[i + 1] = s[i]
  BY <1>1, <1>2
<1>4. \A i \in DOMAIN t : i = 1 \/ (i - 1 \in DOMAIN s /\ t[i] = s[i - 1])
  BY <1>1, <1>2
<1>5. 1 \in DOMAIN t
  BY <1>1, <1>2
<1>6. \A y : y \in Range(t) <=> y = f \/ y \in Range(s)
  <2>1. ASSUME NEW i \in DOMAIN t PROVE t[i] = f \/ t[i] \in Range(s)
    BY <1>1, <1>4 DEF Range
  <2>2. ASSUME NEW i \in DOMAIN s PROVE s[i] \in Range(t)
    BY <1>3 DEF Range
  <2>3. f \in Range(t)
    BY <1>1, <1>5 DEF Range
  <2> QED BY <2>1, <2>2, <2>3 DEF Range
<1>7. ASSUME IsInjective(s), f \notin Range(s) PROVE IsInjective(t)
  <2>1. \A i \in DOMAIN s : s[i] # f
    BY <1>7 DEF Range
  <2>2. ASSUME NEW i \in DOMAIN t, NEW j \in DOMAIN t, t[i] = t[j] PROVE i = j
    <3>1. CASE i = 1 /\ j = 1
      BY <3>1
    <3>2. CASE i # 1 /\ j = 1
      BY <1>1, <1>4, <2>1, <2>2, <3>2
    <3>3. CASE i = 1 /\ j # 1
      BY <1>1, <1>4, <2>1, <2>2, <3>3
    <3>4. CASE i # 1 /\ j # 1
      <4>1. s[i - 1] = s[j - 1] /\ i - 1 \in DOMAIN s /\ j - 1 \in DOMAIN s
        BY <1>4, <2>2, <3>4
      <4>2. i - 1 = j - 1
        BY <1>7, <4>1 DEF IsInjective
      <4>3. i \in Nat /\ j \in Nat
        BY <1>1, <1>2
      <4> QED BY <4>2, <4>3
    <3> QED BY <3>1, <3>2, <3>3, <3>4
  <2> QED BY <2>2 DEF IsInjective
<1> QED BY <1>1, <1>6, <1>7 DEF t

LEMMA Concatenated ==
  ASSUME NEW S, NEW s \in Seq(S), NEW t \in Seq(S)
  PROVE  Range(s) \union Range(t) \subseteq Range(s \o t)
<1>1. /\ s \o t \in Seq(S) /\ Len(s \o t) = Len(s) + Len(t) /\ Len(s) \in Nat /\ Len(t) \in Nat
      /\ \A i \in 1 .. Len(s) : (s \o t)[i] = s[i]
      /\ \A i \in 1 .. Len(t) : (s \o t)[Len(s) + i] = t[i]
  OBVIOUS
<1>2. DOMAIN s = 1 .. Len(s) /\ DOMAIN t = 1 .. Len(t) /\ DOMAIN (s \o t) = 1 .. Len(s) + Len(t)
  BY <1>1
<1>3. ASSUME NEW i \in DOMAIN s PROVE s[i] \in Range(s \o t)
  <2>1. i \in DOMAIN (s \o t) /\ (s \o t)[i] = s[i]
    BY <1>1, <1>2
  <2> QED BY <2>1 DEF Range
<1>4. ASSUME NEW i \in DOMAIN t PROVE t[i] \in Range(s \o t)
  <2>1. Len(s) + i \in DOMAIN (s \o t) /\ (s \o t)[Len(s) + i] = t[i]
    BY <1>1, <1>2
  <2> QED BY <2>1 DEF Range
<1> QED BY <1>3, <1>4 DEF Range

\* What is left when the head is taken.
LEMMA TailOf ==
  ASSUME NEW S, NEW s \in Seq(S), s # <<>>
  PROVE  /\ Head(s) \in S /\ Tail(s) \in Seq(S) /\ Head(s) \in Range(s)
         /\ Range(s) \subseteq {Head(s)} \union Range(Tail(s))
<1>1. /\ Head(s) = s[1] /\ 1 \in DOMAIN s /\ Head(s) \in S
      /\ Tail(s) \in Seq(S) /\ Len(s) \in Nat /\ DOMAIN s = 1 .. Len(s) /\ Len(Tail(s)) = Len(s) - 1
  OBVIOUS
<1>2. \A i \in 1 .. Len(s) - 1 : Tail(s)[i] = s[i + 1]
  OBVIOUS
<1>3. DOMAIN Tail(s) = 1 .. Len(s) - 1
  BY <1>1
<1>4. ASSUME NEW i \in DOMAIN s PROVE s[i] = Head(s) \/ s[i] \in Range(Tail(s))
  <2>1. CASE i = 1
    BY <1>1, <2>1
  <2>2. CASE i # 1
    <3>1. i - 1 \in DOMAIN Tail(s) /\ Tail(s)[i - 1] = s[i]
      BY <1>1, <1>2, <1>3, <2>2
    <3> QED BY <3>1 DEF Range
  <2> QED BY <2>1, <2>2
<1> QED BY <1>1, <1>4 DEF Range

-----------------------------------------------------------------------------
(* The inductive invariant *)

\* Pairs of equivalent faults that can be asked for, the second on a higher net.
Rising ==
  {pair \in SiteFaults \X SiteFaults :
     Equivalent(pair[1], pair[2]) /\ circuit.level[pair[1][1]] < circuit.level[pair[2][1]]}

\* A fault that was made superfluous has one of its group above it.
Superseded ==
  /\ untested \subseteq SiteFaults
  /\ \A f \in untested : \E g \in SiteFaults : rootOf[g] = rootOf[f] /\ circuit.level[f[1]] < circuit.level[g[1]]

\* What the loop at hand has still to do.
WorkOK ==
  /\ next \in Nat
  /\ phase = "structure" => work \in Seq(Rising)
  /\ phase = "read" => work \in Seq(IF run.fault THEN Range(run.list) ELSE SiteFaults)
  /\ phase = "pairs" => work \in Seq(IF run.equiv THEN Range(run.pairs) ELSE {})

\* Without a list of faults none is missing but those made superfluous.
ListOK ==
  /\ phase # "done" => list \in [Range(run.bucket) -> Seq(SiteFaults)]
  /\ phase = "read" /\ ~ run.fault =>
       \A f \in SiteFaults \ untested : f[1] < next => f \in Listed \/ f \in Range(work)
  /\ phase \in {"pairs", "members"} =>
       /\ requested = IF run.fault THEN Listed ELSE SiteFaults
       /\ ~ run.fault => SiteFaults \ untested \subseteq Listed

\* Every fault from number "next" on has been added to its group, once.
Added == IF phase = "members" THEN {f \in requested : FaultId(f) >= next} ELSE {}
MembersOK ==
  phase \notin {"done", "failed"} =>
    /\ members \in [Faults -> Seq(Faults)]
    /\ \A r \in Faults : IsInjective(members[r])
    /\ \A r \in Faults : \A f \in Faults : f \in Range(members[r]) <=> f \in Added /\ rootOf[f] = r
    /\ counts = [before |-> counts.before, after |-> counts.after, output |-> Cardinality(Added)]
    /\ phase = "members" => representative = ChooseRepresentatives /\ counts.after = TargetCount

Reasons ==
  \/ run.fault /\ \E i \in DOMAIN run.list : run.list[i] \notin SiteFaults \union {NoFault}
  \/ run.equiv /\ \E i \in DOMAIN run.pairs : run.pairs[i] = Invalid

GroupsInv ==
  /\ run \in Runs
  /\ phase \in {"structure", "read", "pairs", "members", "done", "failed"}
  /\ GroupsShareTests
  /\ Superseded
  /\ WorkOK
  /\ ListOK
  /\ MembersOK
  /\ phase = "failed" => Reasons
  /\ MembersShareTests
  /\ EveryRequestHasOneRow

\* The pairs of a gate that can come up.
LEMMA GatePairsRise ==
  ASSUME run \in Runs, NEW n \in Nets(circuit)
  PROVE  GatePairs(n) \in Seq(Rising)
<1> DEFINE type == circuit.type[n]
           in == circuit.in[n]
           EquivalentPairs == {pair \in Faults \X Faults : Equivalent(pair[1], pair[2])}
<1>1. WellFormed(circuit)
  BY CircuitIsOK
<1>2. GatePairs(n) \in Seq(EquivalentPairs)
  BY <1>1, GatePairsEquivalent
<1>3. in \in Seq(Nets(circuit)) /\ DOMAIN in = 1 .. Len(in)
  BY <1>1 DEF WellFormed
<1>4. \A i \in DOMAIN in : in[i] \in Inputs(circuit, n)
  BY DEF Inputs
<1>5. ASSUME NEW i \in DOMAIN GatePairs(n)
      PROVE  /\ GatePairs(n)[i][1][1] \in Inputs(circuit, n)
             /\ GatePairs(n)[i][2][1] = n
             /\ Collapsible(n)
             /\ IsTransition => GatePairs(n)[i][1][1] = in[1]
  <2>1. Collapsible(n)
    <3>1. ~ Collapsible(n) => GatePairs(n) = <<>>
      BY DEF GatePairs
    <3> QED BY <3>1
  <2>2. CASE type \in {"BUF", "INV"}
    <3> DEFINE Through(u) == IF type = "INV" THEN 1 - u ELSE u
    <3>1. GatePairs(n) = << << <<in[1], 0>>, <<n, Through(0)>> >>, << <<in[1], 1>>, <<n, Through(1)>> >> >>
      BY <2>1, <2>2 DEF GatePairs, Controllable
    <3>2. in[1] \in Inputs(circuit, n)
      BY <1>1, <2>2, FirstInput
    <3> HIDE DEF Through
    <3>3. i \in {1, 2}
      BY <3>1
    <3>4. GatePairs(n)[i][1][1] = in[1] /\ GatePairs(n)[i][2][1] = n
      BY <3>1, <3>3
    <3> QED BY <2>1, <3>2, <3>4
  <2>3. CASE type \in Controllable
    <3> DEFINE a == 1 - NonControlling(type)
               b == 1 - Uncontrolled(type)
    <3>1. GatePairs(n) = [k \in DOMAIN in |-> << <<in[k], a>>, <<n, b>> >>]
      BY <2>1, <2>3 DEF GatePairs, Controllable
    <3>2. ~ IsTransition
      BY <2>1, <2>3 DEF Collapsible, Controllable
    <3> HIDE DEF a, b
    <3>3. i \in DOMAIN in /\ GatePairs(n)[i] = << <<in[i], a>>, <<n, b>> >>
      BY <3>1
    <3> QED BY <1>4, <2>1, <3>2, <3>3
  <2>4. CASE type \notin Controllable \union {"BUF", "INV"}
    <3>1. GatePairs(n) = <<>>
      BY <2>1, <2>4 DEF GatePairs
    <3> QED BY <3>1
  <2> QED BY <2>2, <2>3, <2>4
<1>6. ASSUME NEW i \in DOMAIN GatePairs(n) PROVE GatePairs(n)[i] \in Rising
  <2> DEFINE pair == GatePairs(n)[i]
  <2>1. pair \in EquivalentPairs
    BY <1>2
  <2>2. PICK f \in Faults, g \in Faults : pair = <<f, g>>
    BY <2>1
  <2>3. Equivalent(f, g) /\ f[1] \in Inputs(circuit, n) /\ g[1] = n /\ Collapsible(n) /\ (IsTransition => f[1] = in[1])
    BY <1>5, <2>1, <2>2
  <2>4. f[1] \in Nets(circuit) /\ circuit.level[f[1]] < circuit.level[g[1]]
    BY <1>1, <2>3, Edges
  <2>5. f \in SiteFaults /\ g \in SiteFaults
    <3>1. f = <<f[1], f[2]>> /\ g = <<g[1], g[2]>> /\ f[2] \in Bits /\ g[2] \in Bits
      BY DEF Faults, FaultsOf
    <3>2. f[1] \in Sites(circuit) /\ g[1] \in Sites(circuit)
      <4>1. CASE IsTransition
        <5>1. circuit.first[f[1]] # None /\ circuit.first[g[1]] # None
          BY <2>3, <4>1 DEF Collapsible
        <5> QED BY <2>3, <2>4, <5>1 DEF Sites
      <4>2. CASE ~ IsTransition
        BY <2>3, <2>4, <4>2 DEF Sites, IsTransition
      <4> QED BY <4>1, <4>2
    <3> QED BY <3>1, <3>2 DEF SiteFaults
  <2> QED BY <2>2, <2>3, <2>4, <2>5 DEF Rising
<1> HIDE DEF EquivalentPairs
<1> QED BY <1>2, <1>6, SeqOf

-----------------------------------------------------------------------------
(* The steps *)

\* The run never changes.
LEMMA SameRun ==
  ASSUME run' = run
  PROVE  /\ circuit' = circuit /\ Faults' = Faults /\ SiteFaults' = SiteFaults /\ NetCount' = NetCount
         /\ Rising' = Rising /\ Reasons' = Reasons
         /\ \A f : Tests(f)' = Tests(f)
<1>1. circuit' = circuit
  BY DEF circuit
<1>2. Faults' = Faults /\ SiteFaults' = SiteFaults /\ NetCount' = NetCount
  BY <1>1 DEF Faults, SiteFaults, NetCount
<1>3. \A f : Tests(f)' = Tests(f)
  BY <1>1 DEF Tests
<1>4. \A f, g : Equivalent(f, g)' <=> Equivalent(f, g)
  BY <1>2, <1>3 DEF Equivalent
<1>5. Rising' = Rising
  BY <1>1, <1>2, <1>4 DEF Rising
<1>6. Reasons' = Reasons
  BY <1>2 DEF Reasons
<1> QED BY <1>1, <1>2, <1>3, <1>5, <1>6

LEMMA SameList ==
  ASSUME run' = run, list' = list
  PROVE  Listed' = Listed
BY SameRun DEF Listed

\* Before the members are added nothing is said about them.
LEMMA BeforeMembers ==
  ASSUME GroupsInv, run' = run, phase \notin {"members", "done", "failed"}, phase' \notin {"members", "done"},
         members' = members, counts' = [counts EXCEPT !.before = counts'.before],
         phase' = "failed" => Reasons
  PROVE  MembersOK' /\ MembersShareTests' /\ EveryRequestHasOneRow' /\ (phase' = "failed" => Reasons')
<1>1. Reasons' = Reasons /\ Faults' = Faults
  BY SameRun
<1>2. MembersShareTests'
  BY DEF MembersShareTests
<1>3. EveryRequestHasOneRow'
  <2>1. EveryRequestHasOneRow <=>
          /\ phase = "done" => EveryRequestHasOneRow
          /\ phase = "failed" => Reasons
    BY DEF EveryRequestHasOneRow, Reasons
  <2>2. phase' = "failed" => Reasons'
    BY <1>1
  <2> QED BY <2>2 DEF EveryRequestHasOneRow, Reasons
<1>4. MembersOK'
  <2>1. Added = {} /\ Added' = {}
    BY DEF Added
  <2>2. /\ members \in [Faults -> Seq(Faults)]
        /\ \A r \in Faults : IsInjective(members[r])
        /\ \A r \in Faults : \A f \in Faults : f \notin Range(members[r])
        /\ counts = [before |-> counts.before, after |-> counts.after, output |-> Cardinality(Added)]
    BY <2>1 DEF GroupsInv, MembersOK
  <2>3. counts' = [before |-> counts'.before, after |-> counts'.after, output |-> Cardinality(Added')]
    BY <2>1, <2>2
  <2> QED BY <1>1, <2>1, <2>2, <2>3 DEF MembersOK
<1> QED BY <1>1, <1>2, <1>3, <1>4

\* Faults that are together stay together.
LEMMA MergedJoins ==
  ASSUME GroupsShareTests, NEW f \in Faults, NEW g \in Faults
  PROVE  /\ Merged(f, g)[f] = Merged(f, g)[g]
         /\ \A h, k \in Faults : rootOf[h] = rootOf[k] => Merged(f, g)[h] = Merged(f, g)[k]
<1>1. PICK stays, goes :
        /\ Merged(f, g) = [h \in Faults |-> IF rootOf[h] = goes THEN stays ELSE rootOf[h]]
        /\ {stays, goes} = {rootOf[f], rootOf[g]}
  BY MergedRoots
<1>2. (stays = rootOf[f] /\ goes = rootOf[g]) \/ (stays = rootOf[g] /\ goes = rootOf[f])
  BY <1>1
<1> QED BY <1>1, <1>2

LEMMA InitKeeps == Init => GroupsInv
<1> SUFFICES ASSUME Init PROVE GroupsInv
  OBVIOUS
<1>1. /\ run \in Runs /\ phase \in {"structure", "read"} /\ next = 0 /\ (phase = "read" => run.fault)
      /\ rootOf = [f \in Faults |-> f] /\ untested = {} /\ list = [b \in Range(run.bucket) |-> <<>>]
      /\ members = [f \in Faults |-> <<>>] /\ counts = [before |-> 0, after |-> 0, output |-> 0]
      /\ (phase = "structure" => work = <<>>) /\ (phase = "read" => work = run.list)
  BY DEF Init
<1>2. GroupsShareTests
  BY <1>1 DEF GroupsShareTests
<1>3. Superseded
  BY <1>1 DEF Superseded
<1>4. WorkOK
  <2>1. phase = "structure" => work \in Seq(Rising)
    BY <1>1
  <2>2. run.list \in Seq(FaultsOf(circuit) \union {NoFault, Invalid})
    BY <1>1, FaultGroupsAssumption DEF circuit
  <2>3. phase = "read" => work \in Seq(Range(run.list))
    BY <1>1, <2>2, RangeOfSeq
  <2> QED BY <1>1, <2>1, <2>3 DEF WorkOK
<1>5. ListOK
  <2>1. list \in [Range(run.bucket) -> Seq(SiteFaults)]
    BY <1>1
  <2> QED BY <1>1, <2>1 DEF ListOK
<1>6. MembersOK
  <2>1. Added = {} /\ Cardinality(Added) = 0
    BY <1>1, FS_EmptySet DEF Added
  <2>2. IsInjective(<<>>) /\ Range(<<>>) = {}
    BY DEF IsInjective, Range
  <2>3. members \in [Faults -> Seq(Faults)] /\ \A r \in Faults : members[r] = <<>>
    BY <1>1
  <2> QED BY <1>1, <2>1, <2>2, <2>3 DEF MembersOK
<1>7. MembersShareTests /\ EveryRequestHasOneRow
  BY <1>1 DEF MembersShareTests, EveryRequestHasOneRow
<1> QED BY <1>1, <1>2, <1>3, <1>4, <1>5, <1>6, <1>7 DEF GroupsInv

LEMMA AddStructuralPairKeeps ==
  ASSUME GroupsInv, AddStructuralPair
  PROVE  GroupsInv'
<1>1. /\ phase = "structure" /\ work # <<>> /\ rootOf' = Merged(Head(work)[1], Head(work)[2])
      /\ untested' = untested \union {Head(work)[1]} /\ work' = Tail(work)
      /\ UNCHANGED <<run, phase, next, list, requested, representative, members, counts, order>>
  BY DEF AddStructuralPair
<1>2. /\ circuit' = circuit /\ Faults' = Faults /\ SiteFaults' = SiteFaults /\ Rising' = Rising
      /\ (\A f : Tests(f)' = Tests(f)) /\ Listed' = Listed
  BY <1>1, SameRun, SameList
<1>3. Head(work) \in Rising /\ Tail(work) \in Seq(Rising)
  BY <1>1, TailOf DEF GroupsInv, WorkOK
<1>4. PICK f \in SiteFaults, g \in SiteFaults :
        Head(work) = <<f, g>> /\ Equivalent(f, g) /\ circuit.level[f[1]] < circuit.level[g[1]]
  BY <1>3 DEF Rising
<1>5. rootOf' = Merged(f, g) /\ untested' = untested \union {f}
  BY <1>1, <1>4
<1>6. GroupsShareTests'
  BY <1>2, <1>4, <1>5, MergedGroups DEF GroupsShareTests, GroupsInv
<1>7. Superseded'
  <2>1. f \in Faults /\ g \in Faults /\ SiteFaults \subseteq Faults
    BY <1>4, CircuitIsOK DEF Equivalent, GroupsInv
  <2>2. untested' \subseteq SiteFaults'
    BY <1>2, <1>5 DEF GroupsInv, Superseded
  <2>3. ASSUME NEW h \in untested'
        PROVE  \E k \in SiteFaults : rootOf'[k] = rootOf'[h] /\ circuit.level[h[1]] < circuit.level[k[1]]
    <3>1. CASE h \in untested
      <4>1. PICK k \in SiteFaults : rootOf[k] = rootOf[h] /\ circuit.level[h[1]] < circuit.level[k[1]]
        BY <3>1 DEF GroupsInv, Superseded
      <4>2. h \in Faults /\ k \in Faults
        BY <2>1, <3>1 DEF GroupsInv, Superseded
      <4>3. rootOf'[k] = rootOf'[h]
        BY <1>5, <2>1, <4>1, <4>2, MergedJoins DEF GroupsInv
      <4> QED BY <4>1, <4>3
    <3>2. CASE h = f
      <4>1. rootOf'[g] = rootOf'[f]
        BY <1>5, <2>1, MergedJoins DEF GroupsInv
      <4> QED BY <1>4, <3>2, <4>1
    <3> QED BY <1>5, <3>1, <3>2
  <2> QED BY <1>2, <2>2, <2>3 DEF Superseded
<1>8. WorkOK'
  BY <1>1, <1>2, <1>3 DEF GroupsInv, WorkOK
<1>9. ListOK'
  BY <1>1, <1>2 DEF GroupsInv, ListOK
<1>10. MembersOK' /\ MembersShareTests' /\ EveryRequestHasOneRow' /\ (phase' = "failed" => Reasons')
  <2>1. counts' = [counts EXCEPT !.before = counts'.before]
    BY <1>1 DEF GroupsInv, MembersOK
  <2> QED BY <1>1, <2>1, BeforeMembers
<1> QED BY <1>1, <1>6, <1>7, <1>8, <1>9, <1>10 DEF GroupsInv

LEMMA NextGateKeeps ==
  ASSUME GroupsInv, NextGate
  PROVE  GroupsInv'
<1>1. /\ phase = "structure" /\ work = <<>>
      /\ UNCHANGED <<run, rootOf, untested, list, requested, representative, members, counts, order>>
  BY DEF NextGate
<1>2. \/ next < NetCount /\ work' = GatePairs(next) /\ next' = next + 1 /\ phase' = phase
      \/ phase' = "read" /\ next' = 0 /\ work' = IF run.fault THEN run.list ELSE <<>>
  BY DEF NextGate
<1>3. /\ circuit' = circuit /\ Faults' = Faults /\ SiteFaults' = SiteFaults /\ Rising' = Rising
      /\ (\A f : Tests(f)' = Tests(f)) /\ Listed' = Listed
  BY <1>1, SameRun, SameList
<1>4. GroupsShareTests' /\ Superseded'
  BY <1>1, <1>3 DEF GroupsInv, GroupsShareTests, Superseded
<1>5. WorkOK'
  <2>1. next \in Nat
    BY DEF GroupsInv, WorkOK
  <2>2. CASE next < NetCount /\ work' = GatePairs(next) /\ next' = next + 1 /\ phase' = phase
    <3>1. next \in Nets(circuit) /\ run \in Runs
      BY <2>1, <2>2, CircuitIsOK DEF GroupsInv
    <3>2. GatePairs(next) \in Seq(Rising)
      BY <3>1, GatePairsRise
    <3> QED BY <1>1, <1>3, <2>1, <2>2, <3>2 DEF WorkOK
  <2>3. CASE phase' = "read" /\ next' = 0 /\ work' = IF run.fault THEN run.list ELSE <<>>
    <3>1. run.list \in Seq(FaultsOf(circuit) \union {NoFault, Invalid})
      BY FaultGroupsAssumption DEF circuit, GroupsInv
    <3>2. run.list \in Seq(Range(run.list)) /\ <<>> \in Seq(SiteFaults)
      BY <3>1, RangeOfSeq
    <3>3. work' \in Seq(IF run'.fault THEN Range(run'.list) ELSE SiteFaults')
      BY <1>1, <1>3, <2>3, <3>2
    <3> QED BY <2>3, <3>3 DEF WorkOK
  <2> QED BY <1>2, <2>2, <2>3
<1>6. ListOK'
  <2>1. list' \in [Range(run'.bucket) -> Seq(SiteFaults')]
    BY <1>1, <1>3 DEF GroupsInv, ListOK
  <2>2. phase' = "read" => \A f \in SiteFaults \ untested : ~ (f[1] < next')
    <3>1. \A f \in SiteFaults : f[1] \in Nat
      BY CircuitIsOK DEF SiteFaults, Sites, GroupsInv
    <3>2. phase' = "read" => next' = 0
      BY <1>1, <1>2
    <3> QED BY <3>1, <3>2
  <2> QED BY <1>1, <1>2, <1>3, <2>1, <2>2 DEF ListOK
<1>7. MembersOK' /\ MembersShareTests' /\ EveryRequestHasOneRow' /\ (phase' = "failed" => Reasons')
  <2>1. counts' = [counts EXCEPT !.before = counts'.before]
    BY <1>1 DEF GroupsInv, MembersOK
  <2> QED BY <1>1, <1>2, <2>1, BeforeMembers
<1> QED BY <1>1, <1>2, <1>4, <1>5, <1>6, <1>7 DEF GroupsInv

\* The faults of a net that are generated.
LEMMA GeneratedFaults ==
  ASSUME NEW n
  PROVE  /\ Generated(n) \in Seq(SiteFaults)
         /\ \A u \in Bits : <<n, u>> \in SiteFaults \ untested => <<n, u>> \in Range(Generated(n))
<1> DEFINE zero == IF <<n, 0>> \in untested THEN <<>> ELSE << <<n, 0>> >>
           one == IF <<n, 1>> \in untested THEN <<>> ELSE << <<n, 1>> >>
<1>1. CASE n \notin Sites(circuit)
  <2>1. Generated(n) = <<>>
    BY <1>1 DEF Generated
  <2>2. \A u : <<n, u>> \notin SiteFaults
    BY <1>1 DEF SiteFaults
  <2> QED BY <2>1, <2>2
<1>2. CASE n \in Sites(circuit)
  <2>1. <<n, 0>> \in SiteFaults /\ <<n, 1>> \in SiteFaults
    BY <1>2 DEF SiteFaults, Bits
  <2>2. zero \in Seq(SiteFaults) /\ one \in Seq(SiteFaults) /\ Generated(n) = zero \o one
    BY <1>2, <2>1 DEF Generated
  <2>3. <<n, 0>> \notin untested => zero = << <<n, 0>> >>
    OBVIOUS
  <2>4. <<n, 1>> \notin untested => one = << <<n, 1>> >>
    OBVIOUS
  <2> HIDE DEF zero, one
  <2>5. zero \o one \in Seq(SiteFaults)
    BY <2>2
  <2>6. ASSUME <<n, 0>> \notin untested PROVE <<n, 0>> \in Range(zero \o one)
    <3>1. <<n, 0>> \in Range(zero)
      BY <2>3, <2>6 DEF Range
    <3> QED BY <2>2, <3>1, Concatenated
  <2>7. ASSUME <<n, 1>> \notin untested PROVE <<n, 1>> \in Range(zero \o one)
    <3>1. <<n, 1>> \in Range(one)
      BY <2>4, <2>7 DEF Range
    <3> QED BY <2>2, <3>1, Concatenated
  <2> QED BY <2>2, <2>5, <2>6, <2>7 DEF Bits
<1> QED BY <1>1, <1>2

LEMMA NextNetKeeps ==
  ASSUME GroupsInv, NextNet
  PROVE  GroupsInv'
<1>1. /\ phase = "read" /\ work = <<>> /\ ~ run.fault /\ work' = Generated(next) /\ next' = next + 1
      /\ UNCHANGED <<run, phase, rootOf, untested, list, requested, representative, members, counts, order>>
  BY DEF NextNet
<1>2. /\ circuit' = circuit /\ Faults' = Faults /\ SiteFaults' = SiteFaults /\ Rising' = Rising
      /\ (\A f : Tests(f)' = Tests(f)) /\ Listed' = Listed
  BY <1>1, SameRun, SameList
<1>3. GroupsShareTests' /\ Superseded'
  BY <1>1, <1>2 DEF GroupsInv, GroupsShareTests, Superseded
<1>4. next \in Nat /\ next' \in Nat
  BY <1>1 DEF GroupsInv, WorkOK
<1>5. /\ work' \in Seq(SiteFaults)
      /\ \A u \in Bits : <<next, u>> \in SiteFaults \ untested => <<next, u>> \in Range(work')
  BY <1>1, GeneratedFaults
<1>6. WorkOK'
  BY <1>1, <1>2, <1>4, <1>5 DEF WorkOK
<1>7. ListOK'
  <2>1. ASSUME NEW f \in SiteFaults \ untested, f[1] < next' PROVE f \in Listed \/ f \in Range(work')
    <3>1. f = <<f[1], f[2]>> /\ f[1] \in Nat /\ f[2] \in Bits
      BY CircuitIsOK DEF SiteFaults, Sites, GroupsInv
    <3>2. CASE f[1] < next
      <4>1. f \in Listed \/ f \in Range(work)
        BY <1>1, <3>2 DEF GroupsInv, ListOK
      <4>2. Range(work) = {}
        BY <1>1 DEF Range
      <4> QED BY <4>1, <4>2
    <3>3. CASE f[1] = next
      BY <1>5, <3>1, <3>3
    <3> QED BY <1>1, <1>4, <2>1, <3>1, <3>2, <3>3
  <2>2. list' \in [Range(run'.bucket) -> Seq(SiteFaults')]
    BY <1>1, <1>2 DEF GroupsInv, ListOK
  <2> QED BY <1>1, <1>2, <2>1, <2>2 DEF ListOK
<1>8. MembersOK' /\ MembersShareTests' /\ EveryRequestHasOneRow' /\ (phase' = "failed" => Reasons')
  <2>1. counts' = [counts EXCEPT !.before = counts'.before]
    BY <1>1 DEF GroupsInv, MembersOK
  <2> QED BY <1>1, <2>1, BeforeMembers
<1> QED BY <1>1, <1>3, <1>6, <1>7, <1>8 DEF GroupsInv

LEMMA ReadLineKeeps ==
  ASSUME GroupsInv, ReadLine
  PROVE  GroupsInv'
<1> DEFINE Lines == IF run.fault THEN Range(run.list) ELSE SiteFaults
<1>1. /\ phase = "read" /\ work # <<>>
      /\ UNCHANGED <<run, next, rootOf, untested, requested, representative, members, counts, order>>
  BY DEF ReadLine
<1>2. PICK f : f = Head(work)
  OBVIOUS
<1>3. \/ /\ f \in SiteFaults \union {NoFault}
         /\ list' = IF f = NoFault \/ f \in Listed THEN list
                    ELSE [list EXCEPT ![run.bucket[f]] = <<f>> \o @]
         /\ work' = Tail(work) /\ phase' = phase
      \/ f \notin SiteFaults \union {NoFault} /\ phase' = "failed" /\ list' = list /\ work' = work
  BY <1>2 DEF ReadLine
<1>4. /\ circuit' = circuit /\ Faults' = Faults /\ SiteFaults' = SiteFaults /\ Rising' = Rising
      /\ (\A g : Tests(g)' = Tests(g)) /\ Reasons' = Reasons
  BY <1>1, SameRun
<1>5. GroupsShareTests' /\ Superseded'
  BY <1>1, <1>4 DEF GroupsInv, GroupsShareTests, Superseded
<1>6. f \in Lines /\ Tail(work) \in Seq(Lines) /\ Range(work) \subseteq {f} \union Range(Tail(work))
  <2>1. work \in Seq(Lines)
    BY <1>1 DEF GroupsInv, WorkOK
  <2> HIDE DEF Lines
  <2> QED BY <1>1, <1>2, <2>1, TailOf
<1>7. WorkOK'
  BY <1>1, <1>3, <1>4, <1>6 DEF GroupsInv, WorkOK
<1>8. /\ run.bucket \in [Faults -> Nat] /\ SiteFaults \subseteq Faults
      /\ list \in [Range(run.bucket) -> Seq(SiteFaults)]
  BY <1>1, CircuitIsOK DEF GroupsInv, ListOK
<1>9. \A g \in SiteFaults : g # NoFault
  BY DEF SiteFaults, NoFault
<1>10. /\ list' \in [Range(run.bucket) -> Seq(SiteFaults)]
       /\ Listed \subseteq Listed'
       /\ f \in SiteFaults /\ phase' = phase => f \in Listed'
  <2>1. CASE list' = list
    <3>1. Listed' = Listed
      BY <1>1, <2>1, SameList
    <3>2. f \in SiteFaults /\ phase' = phase => f \in Listed
      <4>1. ASSUME f \in SiteFaults, f \notin Listed, phase' = phase PROVE FALSE
        <5>1. list' = [list EXCEPT ![run.bucket[f]] = <<f>> \o @]
          BY <1>1, <1>3, <1>9, <4>1
        <5>2. run.bucket[f] \in Range(run.bucket)
          BY <1>8, <4>1 DEF Range
        <5>3. list[run.bucket[f]] = <<f>> \o list[run.bucket[f]] /\ list[run.bucket[f]] \in Seq(SiteFaults)
          BY <1>8, <2>1, <5>1, <5>2
        <5>4. Len(list[run.bucket[f]]) = Len(list[run.bucket[f]]) + 1 /\ Len(list[run.bucket[f]]) \in Nat
          BY <4>1, <5>3
        <5> QED BY <5>4
      <4> QED BY <4>1
    <3> QED BY <1>8, <2>1, <3>1, <3>2
  <2>2. CASE f \in SiteFaults /\ list' = [list EXCEPT ![run.bucket[f]] = <<f>> \o @]
    <3>1. run.bucket[f] \in Range(run.bucket)
      BY <1>8, <2>2 DEF Range
    <3>2. list[run.bucket[f]] \in Seq(SiteFaults)
      BY <1>8, <3>1
    <3>3. /\ <<f>> \o list[run.bucket[f]] \in Seq(SiteFaults)
          /\ Range(<<f>> \o list[run.bucket[f]]) = {f} \union Range(list[run.bucket[f]])
      BY <2>2, <3>2, Prepended
    <3>4. list' \in [Range(run.bucket) -> Seq(SiteFaults)]
      BY <1>8, <2>2, <3>3
    <3>5. \A b \in Range(run.bucket) : Range(list[b]) \subseteq Range(list'[b])
      BY <1>8, <2>2, <3>3
    <3>6. f \in Range(list'[run.bucket[f]])
      BY <1>8, <2>2, <3>1, <3>3
    <3>7. \A g \in Faults : run.bucket[g] \in Range(run.bucket)
      BY <1>8 DEF Range
    <3>8. Listed' = {g \in Faults : g \in Range(list'[run.bucket[g]])}
      BY <1>1, <1>4 DEF Listed
    <3> QED BY <1>8, <2>2, <3>4, <3>5, <3>6, <3>7, <3>8 DEF Listed
  <2> QED BY <1>3, <2>1, <2>2
<1>11. ListOK'
  <2>1. ASSUME phase' = "read", ~ run.fault, NEW g \in SiteFaults \ untested, g[1] < next
        PROVE  g \in Listed' \/ g \in Range(work')
    <3>1. g \in Listed \/ g \in Range(work)
      BY <1>1, <2>1 DEF GroupsInv, ListOK
    <3>2. phase' = phase /\ work' = Tail(work)
      BY <1>3, <2>1
    <3> QED BY <1>6, <1>10, <3>1, <3>2
  <2> QED BY <1>1, <1>3, <1>4, <1>10, <2>1 DEF ListOK
<1>12. phase' = "failed" => Reasons
  <2> SUFFICES ASSUME phase' = "failed" PROVE Reasons
    OBVIOUS
  <2>1. f \notin SiteFaults \union {NoFault} /\ run.fault
    BY <1>1, <1>3, <1>6
  <2>2. f \in Range(run.list)
    BY <1>6, <2>1
  <2> QED BY <2>1, <2>2 DEF Reasons, Range
<1>13. MembersOK' /\ MembersShareTests' /\ EveryRequestHasOneRow' /\ (phase' = "failed" => Reasons')
  <2>1. counts' = [counts EXCEPT !.before = counts'.before]
    BY <1>1 DEF GroupsInv, MembersOK
  <2> QED BY <1>1, <1>3, <1>12, <2>1, BeforeMembers
<1> QED BY <1>1, <1>3, <1>5, <1>7, <1>11, <1>13 DEF GroupsInv

LEMMA RequestKeeps ==
  ASSUME GroupsInv, Request
  PROVE  GroupsInv'
<1>1. /\ phase = "read" /\ work = <<>> /\ (run.fault \/ next = NetCount)
      /\ requested' = (IF run.fault THEN Listed ELSE SiteFaults)
      /\ counts' = [counts EXCEPT !.before = TargetCount]
      /\ phase' = "pairs" /\ work' = (IF run.equiv THEN run.pairs ELSE <<>>)
      /\ UNCHANGED <<run, next, rootOf, untested, list, members, order>>
  BY DEF Request
<1>2. /\ circuit' = circuit /\ Faults' = Faults /\ SiteFaults' = SiteFaults /\ Rising' = Rising
      /\ (\A f : Tests(f)' = Tests(f)) /\ Listed' = Listed
  BY <1>1, SameRun, SameList
<1>3. GroupsShareTests' /\ Superseded'
  BY <1>1, <1>2 DEF GroupsInv, GroupsShareTests, Superseded
<1>4. WorkOK'
  <2>1. run.pairs \in Seq((Faults \X Faults) \union {NoFault, Invalid})
    BY FaultGroupsAssumption DEF circuit, Faults, GroupsInv
  <2>2. run.pairs \in Seq(Range(run.pairs)) /\ <<>> \in Seq({})
    BY <2>1, RangeOfSeq
  <2>3. work' \in Seq(IF run.equiv THEN Range(run.pairs) ELSE {})
    BY <1>1, <2>2
  <2> QED BY <1>1, <2>3 DEF GroupsInv, WorkOK
<1>5. ListOK'
  <2>1. ~ run.fault => SiteFaults \ untested \subseteq Listed
    <3> SUFFICES ASSUME ~ run.fault, NEW f \in SiteFaults \ untested PROVE f \in Listed
      OBVIOUS
    <3>1. f[1] \in 0 .. NetCount - 1 /\ NetCount \in Nat
      BY CircuitIsOK DEF SiteFaults, Sites, GroupsInv
    <3>2. f \in Listed \/ f \in Range(work)
      BY <1>1, <3>1 DEF GroupsInv, ListOK
    <3>3. Range(work) = {}
      BY <1>1 DEF Range
    <3> QED BY <3>2, <3>3
  <2> QED BY <1>1, <1>2, <2>1 DEF GroupsInv, ListOK
<1>6. MembersOK' /\ MembersShareTests' /\ EveryRequestHasOneRow' /\ (phase' = "failed" => Reasons')
  <2>1. counts' = [counts EXCEPT !.before = counts'.before]
    BY <1>1 DEF GroupsInv, MembersOK
  <2> QED BY <1>1, <2>1, BeforeMembers
<1> QED BY <1>1, <1>3, <1>4, <1>5, <1>6 DEF GroupsInv

LEMMA ReadPairKeeps ==
  ASSUME GroupsInv, ReadPair
  PROVE  GroupsInv'
<1>1. /\ phase = "pairs" /\ work # <<>>
      /\ UNCHANGED <<run, next, untested, list, requested, representative, members, counts, order>>
  BY DEF ReadPair
<1>2. PICK pair : pair = Head(work)
  OBVIOUS
<1>3. \/ /\ pair # Invalid /\ rootOf' = (IF pair = NoFault THEN rootOf ELSE Merged(pair[1], pair[2]))
         /\ work' = Tail(work) /\ phase' = phase
      \/ pair = Invalid /\ phase' = "failed" /\ rootOf' = rootOf /\ work' = work
  BY <1>2 DEF ReadPair
<1>4. /\ circuit' = circuit /\ Faults' = Faults /\ SiteFaults' = SiteFaults /\ Rising' = Rising
      /\ (\A g : Tests(g)' = Tests(g)) /\ Listed' = Listed
  BY <1>1, SameRun, SameList
<1>5. run.equiv /\ pair \in Range(run.pairs) /\ Tail(work) \in Seq(Range(run.pairs))
  <2>1. work \in Seq(IF run.equiv THEN Range(run.pairs) ELSE {})
    BY <1>1 DEF GroupsInv, WorkOK
  <2>2. pair \in (IF run.equiv THEN Range(run.pairs) ELSE {})
    BY <1>1, <1>2, <2>1, TailOf
  <2> QED BY <1>1, <2>1, <2>2, TailOf
<1>6. WorkOK'
  BY <1>1, <1>3, <1>4, <1>5 DEF GroupsInv, WorkOK
<1>7. pair = NoFault \/ pair = Invalid \/ (pair = <<pair[1], pair[2]>> /\ Equivalent(pair[1], pair[2]))
  <2>1. run.pairs \in Seq((Faults \X Faults) \union {NoFault, Invalid}) /\ run \in Runs
    BY FaultGroupsAssumption DEF circuit, Faults, GroupsInv
  <2>2. PICK i \in DOMAIN run.pairs : pair = run.pairs[i]
    BY <1>5 DEF Range
  <2>3. pair \in (Faults \X Faults) \union {NoFault, Invalid}
    BY <2>1, <2>2
  <2>4. ASSUME pair \notin {NoFault, Invalid}
        PROVE  TestValues(circuit, pair[1][1], pair[1][2]) = TestValues(circuit, pair[2][1], pair[2][2])
    BY <1>5, <2>1, <2>2, <2>4, ExternalEquivalenceAssumption DEF circuit
  <2> QED BY <2>3, <2>4 DEF Equivalent, Tests
<1>8. GroupsShareTests'
  <2>1. CASE rootOf' = rootOf
    BY <1>4, <2>1 DEF GroupsInv, GroupsShareTests
  <2>2. CASE Equivalent(pair[1], pair[2]) /\ rootOf' = Merged(pair[1], pair[2])
    BY <1>4, <2>2, MergedGroups DEF GroupsInv, GroupsShareTests
  <2> QED BY <1>3, <1>7, <2>1, <2>2
<1>9. Superseded'
  <2>1. SiteFaults \subseteq Faults /\ untested \subseteq Faults
    BY CircuitIsOK DEF GroupsInv, Superseded
  <2>2. \A h, k \in Faults : rootOf[h] = rootOf[k] => rootOf'[h] = rootOf'[k]
    <3>1. CASE rootOf' = rootOf
      BY <3>1
    <3>2. CASE Equivalent(pair[1], pair[2]) /\ rootOf' = Merged(pair[1], pair[2])
      BY <3>2, MergedJoins DEF Equivalent, GroupsInv
    <3> QED BY <1>3, <1>7, <3>1, <3>2
  <2>3. untested' = untested
    BY <1>1
  <2>4. ASSUME NEW h \in untested
        PROVE  \E k \in SiteFaults : rootOf'[k] = rootOf'[h] /\ circuit.level[h[1]] < circuit.level[k[1]]
    <3>1. PICK k \in SiteFaults : rootOf[k] = rootOf[h] /\ circuit.level[h[1]] < circuit.level[k[1]]
      BY DEF GroupsInv, Superseded
    <3> QED BY <2>1, <2>2, <3>1
  <2> QED BY <1>4, <2>3, <2>4 DEF GroupsInv, Superseded
<1>10. ListOK'
  BY <1>1, <1>3, <1>4 DEF GroupsInv, ListOK
<1>11. phase' = "failed" => Reasons
  <2>1. phase' = "failed" => pair = Invalid
    BY <1>1, <1>3
  <2> QED BY <1>5, <2>1 DEF Reasons, Range
<1>12. MembersOK' /\ MembersShareTests' /\ EveryRequestHasOneRow' /\ (phase' = "failed" => Reasons')
  <2>1. counts' = [counts EXCEPT !.before = counts'.before]
    BY <1>1 DEF GroupsInv, MembersOK
  <2> QED BY <1>1, <1>3, <1>11, <2>1, BeforeMembers
<1> QED BY <1>1, <1>3, <1>6, <1>8, <1>9, <1>10, <1>12 DEF GroupsInv

\* What a choice of representatives rests on.
LEMMA SameChoice ==
  ASSUME run' = run, list' = list, rootOf' = rootOf
  PROVE  ChooseRepresentatives' = ChooseRepresentatives /\ TargetCount' = TargetCount
BY DEF ChooseRepresentatives, TargetCount, Chosen, Earlier, Place, Listed, GroupOf, Tree, Faults, circuit

LEMMA ChooseAgainKeeps ==
  ASSUME GroupsInv, ChooseAgain
  PROVE  GroupsInv'
<1>1. /\ phase = "pairs" /\ work = <<>> /\ representative' = ChooseRepresentatives
      /\ counts' = [counts EXCEPT !.after = TargetCount] /\ phase' = "members" /\ next' = 2 * NetCount
      /\ UNCHANGED <<run, work, rootOf, untested, list, requested, members, order>>
  BY DEF ChooseAgain
<1>2. /\ circuit' = circuit /\ Faults' = Faults /\ SiteFaults' = SiteFaults /\ Rising' = Rising
      /\ (\A f : Tests(f)' = Tests(f)) /\ Listed' = Listed
  BY <1>1, SameRun, SameList
<1>3. GroupsShareTests' /\ Superseded'
  BY <1>1, <1>2 DEF GroupsInv, GroupsShareTests, Superseded
<1>4. NetCount \in Nat
  BY CircuitIsOK DEF GroupsInv
<1>5. WorkOK'
  BY <1>1, <1>4 DEF WorkOK
<1>6. ListOK'
  BY <1>1, <1>2 DEF GroupsInv, ListOK
<1>7. requested' \subseteq Faults
  <2>1. SiteFaults \subseteq Faults /\ Listed \subseteq Faults
    BY CircuitIsOK DEF GroupsInv, Listed
  <2> QED BY <1>1, <2>1 DEF GroupsInv, ListOK
<1>8. MembersOK'
  <2>1. \A f \in Faults : FaultId(f) < next'
    <3>1. \A f \in Faults : f[1] \in 0 .. NetCount - 1 /\ f[2] \in {0, 1}
      BY CircuitIsOK DEF GroupsInv, Faults, FaultsOf, Bits
    <3> QED BY <1>1, <1>4, <3>1 DEF FaultId
  <2>2. Added = {} /\ Added' = {}
    <3>1. Added' = {f \in requested' : FaultId(f) >= next'}
      BY <1>1 DEF Added, FaultId
    <3>2. \A f \in Faults : FaultId(f) \in Int /\ next' \in Int
      BY <1>1, <1>4, CircuitIsOK DEF GroupsInv, Faults, FaultsOf, Bits, FaultId
    <3>3. Added' = {}
      BY <1>7, <2>1, <3>1, <3>2
    <3> QED BY <1>1, <3>3 DEF Added
  <2>3. /\ members \in [Faults -> Seq(Faults)]
        /\ \A r \in Faults : IsInjective(members[r])
        /\ \A r \in Faults : \A f \in Faults : f \notin Range(members[r])
        /\ counts = [before |-> counts.before, after |-> counts.after, output |-> Cardinality(Added)]
    BY <1>1, <2>2 DEF GroupsInv, MembersOK
  <2>4. /\ counts' = [before |-> counts'.before, after |-> counts'.after, output |-> Cardinality(Added')]
        /\ counts'.after = TargetCount
    BY <1>1, <2>2, <2>3
  <2>5. ChooseRepresentatives' = ChooseRepresentatives /\ TargetCount' = TargetCount
    BY <1>1, SameChoice
  <2> QED BY <1>1, <1>2, <2>2, <2>3, <2>4, <2>5 DEF MembersOK
<1>9. MembersShareTests' /\ EveryRequestHasOneRow'
  BY <1>1 DEF MembersShareTests, EveryRequestHasOneRow
<1> QED BY <1>1, <1>3, <1>5, <1>6, <1>8, <1>9 DEF GroupsInv

\* A group with listed faults is represented by the first of them.
LEMMA ChosenFault ==
  ASSUME run \in Runs, list \in [Range(run.bucket) -> Seq(SiteFaults)], NEW r, Listed \intersect GroupOf(r) # {}
  PROVE  /\ Chosen(r) \in Listed \intersect GroupOf(r) /\ Chosen(r) # NoFault
<1> DEFINE R == {pair \in Listed \X Listed : Earlier(pair[1], pair[2])}
           T == Listed \intersect GroupOf(r)
<1>1. SiteFaults \subseteq Faults /\ NoFault \notin Faults
  BY CircuitIsOK DEF Faults, FaultsOf, NoFault
<1>2. list \in [Range(run.bucket) -> Seq(Faults)]
  <2>1. Seq(SiteFaults) \subseteq Seq(Faults)
    BY <1>1
  <2> QED BY <2>1
<1>3. Orders(R, Listed) /\ Listed \subseteq Faults /\ IsFiniteSet(Listed)
  BY <1>2, EarlierOrders
<1>4. \A f, g \in Listed : <<f, g>> \in R <=> Earlier(f, g)
  OBVIOUS
<1> HIDE DEF R
<1>5. Orders(R, T) /\ IsFiniteSet(T)
  <2>1. Orders(R, T)
    BY <1>3 DEF Orders
  <2>2. IsFiniteSet(T)
    BY <1>3, FS_Subset
  <2> QED BY <2>1, <2>2
<1>6. \E f \in T : \A g \in T \ {f} : Earlier(f, g)
  <2>1. PICK f \in T : \A g \in T \ {f} : <<f, g>> \in R
    <3> HIDE DEF T
    <3>1. T # {}
      BY DEF T
    <3> QED BY <1>5, <3>1, FirstOf
  <2> QED BY <1>4, <2>1
<1>7. Chosen(r) = CHOOSE f \in T : \A g \in T \ {f} : Earlier(f, g)
  BY DEF Chosen
<1>8. Chosen(r) \in T
  BY <1>6, <1>7
<1> QED BY <1>1, <1>3, <1>8

\* Every group with a fault to write has a listed one.
LEMMA RequestedIsListed ==
  ASSUME GroupsInv, phase = "members", NEW f \in requested
  PROVE  f \in SiteFaults /\ \E g \in Listed : rootOf[g] = rootOf[f]
<1>1. /\ list \in [Range(run.bucket) -> Seq(SiteFaults)]
      /\ requested = (IF run.fault THEN Listed ELSE SiteFaults)
      /\ ~ run.fault => SiteFaults \ untested \subseteq Listed
  BY DEF GroupsInv, ListOK
<1>2. /\ run.bucket \in [Faults -> Nat] /\ IsFiniteSet(Faults) /\ SiteFaults \subseteq Faults
      /\ \A g \in Faults : circuit.level[g[1]] \in Nat
  BY CircuitIsOK DEF GroupsInv
<1>3. Listed \subseteq SiteFaults
  <2>1. \A g \in Faults : list[run.bucket[g]] \in Seq(SiteFaults)
    BY <1>1, <1>2 DEF Range
  <2>2. \A g \in Faults : Range(list[run.bucket[g]]) \subseteq SiteFaults
    BY <2>1, RangeOfSeq
  <2> QED BY <2>2 DEF Listed
<1>4. f \in SiteFaults
  BY <1>1, <1>3
<1>5. CASE run.fault
  BY <1>1, <1>4, <1>5
<1>6. CASE ~ run.fault
  <2> DEFINE T == {g \in SiteFaults : rootOf[g] = rootOf[f]}
             levels == {circuit.level[g[1]] : g \in T}
  <2>1. IsFiniteSet(levels) /\ levels # {} /\ levels \subseteq Nat
    <3>1. IsFiniteSet(T) /\ f \in T
      <4>1. T \subseteq Faults
        BY <1>2
      <4>2. IsFiniteSet(T)
        BY <1>2, <4>1, FS_Subset
      <4> QED BY <1>4, <4>2
    <3>2. IsFiniteSet(levels)
      <4> DEFINE level == [g \in T |-> circuit.level[g[1]]]
      <4>1. level \in Surjection(T, levels)
        BY DEF Surjection
      <4> HIDE DEF T, level, levels
      <4> QED BY <3>1, <4>1, FS_Surjection
    <3>3. circuit.level[f[1]] \in levels
      BY <3>1
    <3>4. levels \subseteq Nat
      BY <1>2
    <3> QED BY <3>2, <3>3, <3>4
  <2>2. PICK top \in levels : \A l \in levels : l <= top
    <3> HIDE DEF levels
    <3> QED BY <2>1, GreatestNumber
  <2>3. PICK g \in T : circuit.level[g[1]] = top
    OBVIOUS
  <2>4. g \notin untested
    <3> SUFFICES ASSUME g \in untested PROVE FALSE
      OBVIOUS
    <3>1. PICK h \in SiteFaults : rootOf[h] = rootOf[g] /\ circuit.level[g[1]] < circuit.level[h[1]]
      BY DEF GroupsInv, Superseded
    <3>2. circuit.level[h[1]] \in levels
      BY <3>1
    <3>3. circuit.level[h[1]] <= top /\ circuit.level[h[1]] \in Nat /\ top \in Nat
      BY <2>1, <2>2, <3>2
    <3> QED BY <2>3, <3>1, <3>3
  <2>5. g \in Listed
    BY <1>1, <1>6, <2>4
  <2> QED BY <1>4, <2>5
<1> QED BY <1>5, <1>6

LEMMA AddMemberKeeps ==
  ASSUME GroupsInv, AddMember
  PROVE  GroupsInv'
<1>1. /\ phase = "members" /\ next > 0
      /\ UNCHANGED <<run, work, rootOf, untested, list, requested, representative, order>>
  BY DEF AddMember
<1>2. PICK f : f = <<(next - 1) \div 2, (next - 1) % 2>>
  OBVIOUS
<1>3. \/ f \notin requested /\ next' = next - 1 /\ UNCHANGED <<phase, members, counts>>
      \/ f \in requested /\ representative[rootOf[f]] = NoFault
      \/ /\ f \in requested
         /\ members' = [members EXCEPT ![rootOf[f]] = <<f>> \o @]
         /\ counts' = [counts EXCEPT !.output = @ + 1]
         /\ next' = next - 1 /\ phase' = phase
  BY <1>2 DEF AddMember
<1>4. /\ circuit' = circuit /\ Faults' = Faults /\ SiteFaults' = SiteFaults /\ Rising' = Rising
      /\ (\A g : Tests(g)' = Tests(g)) /\ Listed' = Listed
      /\ ChooseRepresentatives' = ChooseRepresentatives /\ TargetCount' = TargetCount
  BY <1>1, SameRun, SameList, SameChoice
<1>5. /\ next \in Nat /\ next - 1 \in Nat /\ rootOf \in [Faults -> Faults]
      /\ run \in Runs /\ list \in [Range(run.bucket) -> Seq(SiteFaults)]
  BY <1>1 DEF GroupsInv, WorkOK, ListOK, GroupsShareTests
<1>6. \A g \in Faults : g = <<g[1], g[2]>> /\ g[1] \in Nat /\ g[2] \in {0, 1} /\ FaultId(g) \in Nat
  BY <1>5, CircuitIsOK DEF Faults, FaultsOf, Bits, FaultId
<1>7. FaultId(f) = next - 1 /\ \A g \in Faults : FaultId(g) = next - 1 => g = f
  <2>1. \A k \in Nat : k \div 2 \in Nat /\ k % 2 \in {0, 1} /\ 2 * (k \div 2) + (k % 2) = k
    OBVIOUS
  <2>2. PICK half \in Nat, rest \in {0, 1} : f = <<half, rest>> /\ 2 * half + rest = next - 1
    BY <1>2, <1>5, <2>1
  <2>3. FaultId(f) = next - 1
    BY <2>2 DEF FaultId
  <2>4. ASSUME NEW g \in Faults, FaultId(g) = next - 1 PROVE g = f
    <3>1. g[1] \in Nat /\ g[2] \in {0, 1} /\ 2 * g[1] + g[2] = 2 * half + rest /\ g = <<g[1], g[2]>>
      BY <1>6, <2>2, <2>4 DEF FaultId
    <3>2. g[1] = half /\ g[2] = rest
      BY <3>1
    <3> QED BY <2>2, <3>1, <3>2
  <2> QED BY <2>3, <2>4
<1>8. requested \subseteq SiteFaults /\ SiteFaults \subseteq Faults /\ IsFiniteSet(requested)
  <2>1. requested \subseteq SiteFaults
    BY <1>1, RequestedIsListed
  <2>2. SiteFaults \subseteq Faults /\ IsFiniteSet(Faults)
    BY <1>5, CircuitIsOK
  <2>3. IsFiniteSet(requested)
    BY <2>1, <2>2, FS_Subset
  <2> QED BY <2>1, <2>2, <2>3
<1>9. f \in requested => representative[rootOf[f]] # NoFault
  <2> SUFFICES ASSUME f \in requested PROVE representative[rootOf[f]] # NoFault
    OBVIOUS
  <2>1. PICK g \in Listed : rootOf[g] = rootOf[f]
    BY <1>1, RequestedIsListed
  <2>2. Listed \intersect GroupOf(rootOf[f]) # {}
    BY <1>1, <2>1, InGroup DEF Listed, GroupsInv
  <2>3. Chosen(rootOf[f]) # NoFault
    BY <1>5, <2>2, ChosenFault
  <2>4. representative = ChooseRepresentatives /\ rootOf[f] \in Faults
    BY <1>1, <1>5, <1>8 DEF GroupsInv, MembersOK
  <2> QED BY <2>3, <2>4 DEF ChooseRepresentatives
<1>10. phase' = phase /\ next' = next - 1
  BY <1>3, <1>9
<1>11. GroupsShareTests' /\ Superseded'
  BY <1>1, <1>4 DEF GroupsInv, GroupsShareTests, Superseded
<1>12. WorkOK' /\ ListOK'
  <2>1. WorkOK'
    BY <1>1, <1>4, <1>5, <1>10 DEF WorkOK
  <2>2. ListOK'
    BY <1>1, <1>4, <1>10 DEF GroupsInv, ListOK
  <2> QED BY <2>1, <2>2
<1>13. Added' = IF f \in requested THEN Added \union {f} ELSE Added
  <2>1. Added = {g \in requested : FaultId(g) >= next} /\ Added' = {g \in requested : FaultId(g) >= next - 1}
    BY <1>1, <1>10 DEF Added, FaultId
  <2>2. \A g \in requested : FaultId(g) \in Nat /\ (FaultId(g) >= next - 1 <=> FaultId(g) >= next \/ g = f)
    BY <1>5, <1>6, <1>7, <1>8
  <2> QED BY <2>1, <2>2
<1>14. f \notin Added /\ IsFiniteSet(Added)
  <2>1. Added \subseteq requested /\ \A g \in Added : FaultId(g) >= next
    BY <1>1 DEF Added
  <2>2. IsFiniteSet(Added)
    BY <1>8, <2>1, FS_Subset
  <2> QED BY <1>5, <1>7, <2>1, <2>2
<1>15. /\ members \in [Faults -> Seq(Faults)]
       /\ \A r \in Faults : IsInjective(members[r])
       /\ \A r \in Faults : \A g \in Faults : g \in Range(members[r]) <=> g \in Added /\ rootOf[g] = r
       /\ counts = [before |-> counts.before, after |-> counts.after, output |-> Cardinality(Added)]
       /\ representative = ChooseRepresentatives /\ counts.after = TargetCount
  BY <1>1 DEF GroupsInv, MembersOK
<1>16. MembersOK'
  <2>1. CASE f \notin requested
    <3>1. UNCHANGED <<phase, members, counts>> /\ Added' = Added
      BY <1>3, <1>13, <2>1
    <3> QED BY <1>1, <1>4, <1>15, <3>1 DEF MembersOK
  <2>2. CASE f \in requested
    <3>1. members' = [members EXCEPT ![rootOf[f]] = <<f>> \o @] /\ counts' = [counts EXCEPT !.output = @ + 1]
      BY <1>3, <1>9, <2>2
    <3>2. f \in Faults /\ rootOf[f] \in Faults /\ members[rootOf[f]] \in Seq(Faults) /\ f \notin Range(members[rootOf[f]])
      BY <1>5, <1>8, <1>14, <1>15, <2>2
    <3>3. /\ <<f>> \o members[rootOf[f]] \in Seq(Faults)
          /\ Range(<<f>> \o members[rootOf[f]]) = {f} \union Range(members[rootOf[f]])
          /\ IsInjective(<<f>> \o members[rootOf[f]])
      BY <1>15, <3>2, Prepended
    <3>4. members' \in [Faults -> Seq(Faults)] /\ \A r \in Faults : IsInjective(members'[r])
      BY <1>15, <3>1, <3>2, <3>3
    <3>5. \A r \in Faults : \A g \in Faults : g \in Range(members'[r]) <=> g \in Added' /\ rootOf[g] = r
      <4> SUFFICES ASSUME NEW r \in Faults, NEW g \in Faults
                   PROVE  g \in Range(members'[r]) <=> g \in Added' /\ rootOf[g] = r
        OBVIOUS
      <4>1. CASE r = rootOf[f]
        <5>1. members'[r] = <<f>> \o members[r]
          BY <1>15, <3>1, <4>1
        <5> QED BY <1>13, <1>15, <2>2, <3>3, <4>1, <5>1
      <4>2. CASE r # rootOf[f]
        <5>1. members'[r] = members[r]
          BY <1>15, <3>1, <4>2
        <5> QED BY <1>13, <1>15, <2>2, <4>2, <5>1
      <4> QED BY <4>1, <4>2
    <3>6. Cardinality(Added') = Cardinality(Added) + 1
      BY <1>13, <1>14, <2>2, FS_AddElement
    <3>7. /\ counts' = [before |-> counts'.before, after |-> counts'.after, output |-> Cardinality(Added')]
          /\ counts'.after = counts.after
      BY <1>15, <3>1, <3>6
    <3> QED BY <1>1, <1>4, <1>10, <1>15, <3>4, <3>5, <3>7 DEF MembersOK
  <2> QED BY <2>1, <2>2
<1>17. MembersShareTests' /\ EveryRequestHasOneRow'
  BY <1>1, <1>10 DEF MembersShareTests, EveryRequestHasOneRow
<1> QED BY <1>1, <1>5, <1>10, <1>11, <1>12, <1>16, <1>17 DEF GroupsInv

\* The last step: what is analysed, and in which order.
LEMMA TargetsOfGroups ==
  ASSUME GroupsInv, phase = "members", next = 0,
         NEW T, T = {f \in Listed : Kept(f)}
  PROVE  /\ IsFiniteSet(T) /\ T \subseteq Listed /\ T \subseteq requested /\ requested \subseteq Faults /\ IsFiniteSet(requested)
         /\ \A f, g \in T : rootOf[f] = rootOf[g] => f = g
         /\ \A f \in requested : \E g \in T : rootOf[g] = rootOf[f]
         /\ Cardinality(T) = TargetCount
<1>1. /\ list \in [Range(run.bucket) -> Seq(SiteFaults)]
      /\ requested = (IF run.fault THEN Listed ELSE SiteFaults)
      /\ representative = ChooseRepresentatives /\ rootOf \in [Faults -> Faults]
      /\ run \in Runs
  BY DEF GroupsInv, ListOK, MembersOK, GroupsShareTests
<1>2. /\ run.bucket \in [Faults -> Nat] /\ IsFiniteSet(Faults) /\ SiteFaults \subseteq Faults
  BY <1>1, CircuitIsOK
<1>3. Listed \subseteq SiteFaults
  <2>1. \A g \in Faults : list[run.bucket[g]] \in Seq(SiteFaults)
    BY <1>1, <1>2 DEF Range
  <2>2. \A g \in Faults : Range(list[run.bucket[g]]) \subseteq SiteFaults
    BY <2>1, RangeOfSeq
  <2> QED BY <2>2 DEF Listed
<1>4. T \subseteq Listed /\ T \subseteq requested /\ requested \subseteq Faults
  BY <1>1, <1>2, <1>3
<1>5. IsFiniteSet(T) /\ IsFiniteSet(requested)
  <2>1. T \subseteq Faults
    BY <1>4
  <2> QED BY <1>2, <1>4, <2>1, FS_Subset
<1>6. \A f \in T : f = Chosen(rootOf[f]) /\ rootOf[f] \in Faults
  BY <1>1, <1>4 DEF Kept, ChooseRepresentatives
<1>7. ASSUME NEW r \in Faults, Listed \intersect GroupOf(r) # {}
      PROVE  Chosen(r) \in T /\ rootOf[Chosen(r)] = r /\ Chosen(r) # NoFault
  <2>1. Chosen(r) \in Listed \intersect GroupOf(r) /\ Chosen(r) # NoFault
    BY <1>1, <1>7, ChosenFault
  <2>2. rootOf[Chosen(r)] = r
    BY <2>1, InGroup DEF GroupsInv
  <2>3. Kept(Chosen(r))
    BY <1>1, <1>7, <2>2 DEF Kept, ChooseRepresentatives
  <2> QED BY <2>1, <2>2, <2>3
<1>8. ASSUME NEW f \in requested PROVE \E g \in T : rootOf[g] = rootOf[f]
  <2>1. PICK g \in Listed : rootOf[g] = rootOf[f]
    BY RequestedIsListed
  <2>2. g \in GroupOf(rootOf[f]) /\ rootOf[f] \in Faults
    BY <1>1, <1>4, <2>1, InGroup DEF Listed, GroupsInv
  <2> QED BY <1>7, <2>1, <2>2
<1>9. Cardinality(T) = TargetCount
  <2> DEFINE U == {r \in Faults : Chosen(r) # NoFault}
             rootIn == [f \in T |-> rootOf[f]]
  <2>1. ASSUME NEW f \in T PROVE rootOf[f] \in U
    <3>1. f \in Listed \intersect GroupOf(rootOf[f]) /\ rootOf[f] \in Faults
      BY <1>1, <1>4, <1>6, InGroup DEF GroupsInv
    <3> QED BY <1>7, <3>1
  <2>2. ASSUME NEW r \in U PROVE \E f \in T : rootOf[f] = r
    <3>1. Listed \intersect GroupOf(r) # {}
      BY DEF Chosen
    <3> QED BY <1>7, <3>1
  <2>3. rootIn \in [T -> U]
    BY <2>1
  <2>4. \A r \in U : \E f \in T : rootIn[f] = r
    BY <2>2
  <2>5. \A f, g \in T : rootIn[f] = rootIn[g] => f = g
    BY <1>6
  <2> HIDE DEF rootIn, U
  <2>6. rootIn \in Bijection(T, U)
    <3>1. rootIn \in Injection(T, U)
      BY <2>3, <2>5 DEF Injection, IsInjective
    <3>2. rootIn \in Surjection(T, U)
      BY <2>3, <2>4 DEF Surjection
    <3> QED BY <3>1, <3>2 DEF Bijection
  <2>7. Cardinality(U) = Cardinality(T)
    BY <1>5, <2>6, FS_Bijection DEF ExistsBijection
  <2> QED BY <2>7 DEF U, TargetCount
<1> QED BY <1>4, <1>5, <1>6, <1>8, <1>9

OrderOf(T) == [k \in 1 .. Cardinality(T) |-> CHOOSE f \in T : Cardinality({g \in T : Earlier(g, f)}) = k - 1]

LEMMA OrderOfTargets ==
  ASSUME GroupsInv, phase = "members", NEW T, IsFiniteSet(T), T \subseteq Listed
  PROVE  /\ OrderOf(T) \in Seq(T) /\ Len(OrderOf(T)) = Cardinality(T) /\ Cardinality(T) \in Nat
         /\ DOMAIN OrderOf(T) = 1 .. Cardinality(T)
         /\ Range(OrderOf(T)) = T
         /\ \A i, j \in DOMAIN OrderOf(T) : OrderOf(T)[i] = OrderOf(T)[j] => i = j
<1> DEFINE R == {pair \in Listed \X Listed : Earlier(pair[1], pair[2])}
           N == Cardinality(T)
           o == OrderOf(T)
<1>1. list \in [Range(run.bucket) -> Seq(SiteFaults)] /\ run \in Runs
  BY DEF GroupsInv, ListOK
<1>2. Orders(R, Listed)
  <2>1. SiteFaults \subseteq Faults
    BY <1>1, CircuitIsOK
  <2>2. Seq(SiteFaults) \subseteq Seq(Faults)
    BY <2>1
  <2>3. list \in [Range(run.bucket) -> Seq(Faults)]
    BY <1>1, <2>2
  <2> QED BY <1>1, <2>3, EarlierOrders
<1>3. \A f, g \in Listed : <<f, g>> \in R <=> Earlier(f, g)
  OBVIOUS
<1> HIDE DEF R
<1>4. Orders(R, T)
  BY <1>2 DEF Orders
<1>5. /\ N \in Nat
      /\ \A k \in 1 .. N : \E x \in T : Cardinality(Below(R, T, x)) = k - 1
      /\ \A x \in T : Cardinality(Below(R, T, x)) \in 0 .. N - 1
      /\ \A x, y \in T : Cardinality(Below(R, T, x)) = Cardinality(Below(R, T, y)) => x = y
  BY <1>4, Ranks
<1>6. \A f \in T : Below(R, T, f) = {g \in T : Earlier(g, f)}
  BY <1>3 DEF Below
<1>7. ASSUME NEW k \in 1 .. N PROVE o[k] \in T /\ Cardinality(Below(R, T, o[k])) = k - 1
  <2>1. o[k] = CHOOSE f \in T : Cardinality({g \in T : Earlier(g, f)}) = k - 1
    BY DEF OrderOf
  <2>2. \E f \in T : Cardinality({g \in T : Earlier(g, f)}) = k - 1
    BY <1>5, <1>6
  <2>3. o[k] \in T /\ Cardinality({g \in T : Earlier(g, o[k])}) = k - 1
    BY <2>1, <2>2
  <2> QED BY <1>6, <2>3
<1>8. DOMAIN o = 1 .. N
  BY DEF OrderOf
<1>9. o \in [1 .. N -> T]
  BY <1>7 DEF OrderOf
<1>10. o \in Seq(T) /\ Len(o) = N
  <2> HIDE DEF N
  <2> QED BY <1>5, <1>9
<1>11. \A i, j \in DOMAIN o : o[i] = o[j] => i = j
  <2> SUFFICES ASSUME NEW i \in 1 .. N, NEW j \in 1 .. N, o[i] = o[j] PROVE i = j
    BY <1>8
  <2>1. i - 1 = j - 1
    BY <1>7
  <2> QED BY <1>5, <2>1
<1>12. Range(o) = T
  <2>1. ASSUME NEW t \in T PROVE \E i \in DOMAIN o : o[i] = t
    <3> DEFINE i == Cardinality(Below(R, T, t)) + 1
    <3>1. i \in 1 .. N /\ Cardinality(Below(R, T, t)) = i - 1
      BY <1>5
    <3>2. o[i] = t
      BY <1>5, <1>7, <3>1
    <3> QED BY <1>8, <3>1, <3>2
  <2>2. \A i \in DOMAIN o : o[i] \in T
    BY <1>7, <1>8
  <2>3. \A t : t \in Range(o) <=> t \in T
    BY <2>1, <2>2 DEF Range
  <2> QED BY <2>3
<1> QED BY <1>5, <1>8, <1>10, <1>11, <1>12

LEMMA FinishKeeps ==
  ASSUME GroupsInv, Finish
  PROVE  GroupsInv'
<1> DEFINE T == {f \in Listed : Kept(f)}
           Rows(f) == members[rootOf[f]]
<1>1. /\ phase = "members" /\ next = 0 /\ phase' = "done"
      /\ order' = OrderOf(T)
      /\ UNCHANGED <<run, next, work, rootOf, untested, requested, representative, members, counts>>
  BY DEF Finish, OrderOf
<1>2. /\ circuit' = circuit /\ Faults' = Faults /\ SiteFaults' = SiteFaults /\ Rising' = Rising
      /\ (\A f : Tests(f)' = Tests(f))
  BY <1>1, SameRun
<1>3. GroupsShareTests' /\ Superseded'
  BY <1>1, <1>2 DEF GroupsInv, GroupsShareTests, Superseded
<1>4. WorkOK' /\ ListOK' /\ MembersOK'
  BY <1>1 DEF GroupsInv, WorkOK, ListOK, MembersOK
<1>5. /\ IsFiniteSet(T) /\ T \subseteq Listed /\ T \subseteq requested /\ requested \subseteq Faults /\ IsFiniteSet(requested)
      /\ \A f, g \in T : rootOf[f] = rootOf[g] => f = g
      /\ \A f \in requested : \E g \in T : rootOf[g] = rootOf[f]
      /\ Cardinality(T) = TargetCount
  BY <1>1, TargetsOfGroups
<1>6. /\ order' \in Seq(T) /\ Len(order') = Cardinality(T) /\ Cardinality(T) \in Nat
      /\ DOMAIN order' = 1 .. Cardinality(T)
      /\ Range(order') = T
      /\ \A i, j \in DOMAIN order' : order'[i] = order'[j] => i = j
  <2> HIDE DEF T
  <2> QED BY <1>1, <1>5, OrderOfTargets
<1>7. Added = requested
  <2>1. \A f \in Faults : FaultId(f) \in Nat
    BY CircuitIsOK DEF GroupsInv, Faults, FaultsOf, Bits, FaultId
  <2> QED BY <1>1, <1>5, <2>1 DEF Added
<1>8. /\ rootOf \in [Faults -> Faults]
      /\ \A r \in Faults : IsInjective(members[r]) /\ members[r] \in Seq(Faults)
      /\ \A r \in Faults : \A f \in Faults : f \in Range(members[r]) <=> f \in requested /\ rootOf[f] = r
      /\ counts.output = Cardinality(requested) /\ counts.after = TargetCount
  BY <1>1, <1>7 DEF GroupsInv, MembersOK, GroupsShareTests
<1> HIDE DEF T
<1>10. ASSUME NEW i \in DOMAIN order'
       PROVE  /\ order'[i] \in T /\ IsInjective(Rows(order'[i]))
              /\ Range(Rows(order'[i])) = {f \in requested : rootOf[f] = rootOf[order'[i]]}
  <2>1. order'[i] \in T
    BY <1>6
  <2>2. rootOf[order'[i]] \in Faults
    BY <1>5, <1>8, <2>1
  <2>4. Range(members[rootOf[order'[i]]]) \subseteq Faults
    BY <1>8, <2>2, RangeOfSeq
  <2>5. \A f : f \in Range(members[rootOf[order'[i]]]) <=> f \in requested /\ rootOf[f] = rootOf[order'[i]]
    BY <1>5, <1>8, <2>2, <2>4
  <2> QED BY <1>8, <2>1, <2>2, <2>5
<1> HIDE DEF Rows
<1>11. \A i \in DOMAIN order' : \A f \in Range(Rows(order'[i])) : Tests(f) = Tests(order'[i])
  <2>1. \A f, g \in Faults : rootOf[f] = rootOf[g] => Tests(f) = Tests(g)
    BY DEF GroupsInv, GroupsShareTests
  <2> QED BY <1>5, <1>10, <2>1
<1>12. MembersShareTests'
  <2>1. members' = members /\ rootOf' = rootOf /\ circuit' = circuit
    BY <1>1, <1>2
  <2> QED BY <1>11, <2>1 DEF MembersShareTests, GetEquivalentFaults, Tests, Rows
<1>13. \A f \in requested : \E i \in DOMAIN order' : f \in Range(Rows(order'[i]))
  <2> SUFFICES ASSUME NEW f \in requested PROVE \E i \in DOMAIN order' : f \in Range(Rows(order'[i]))
    OBVIOUS
  <2>1. PICK g \in T : rootOf[g] = rootOf[f]
    BY <1>5
  <2>2. PICK i \in DOMAIN order' : order'[i] = g
    BY <1>6 DEF Range
  <2> QED BY <1>10, <2>1, <2>2
<1>14. ASSUME NEW i \in DOMAIN order', NEW j \in DOMAIN order', i # j
       PROVE  Range(Rows(order'[i])) \intersect Range(Rows(order'[j])) = {}
  <2>1. rootOf[order'[i]] # rootOf[order'[j]]
    BY <1>5, <1>6, <1>10, <1>14
  <2> QED BY <1>10, <2>1
<1>15. \A i \in DOMAIN order' : Range(Rows(order'[i])) \subseteq requested /\ order'[i] \in Range(Rows(order'[i]))
  BY <1>5, <1>10
<1>16. numinit' = Len(order')
  BY <1>1, <1>5, <1>6, <1>8 DEF numinit
<1>17. numequiv' = Cardinality(requested \ Range(order'))
  <2>1. Cardinality(requested \ T) = Cardinality(requested) - Cardinality(requested \intersect T)
    BY <1>5, FS_Difference
  <2>2. requested \intersect T = T
    BY <1>5
  <2> QED BY <1>1, <1>5, <1>6, <1>8, <2>1, <2>2 DEF numequiv
<1>18. EveryRequestHasOneRow'
  <2>1. \A i \in DOMAIN order' : IsInjective(Rows(order'[i]))
    BY <1>10
  <2>2. requested' = requested /\ members' = members /\ rootOf' = rootOf /\ phase' = "done"
    BY <1>1
  <2> QED BY <1>13, <1>14, <1>15, <1>16, <1>17, <2>1, <2>2 DEF EveryRequestHasOneRow, GetEquivalentFaults, Rows
<1> QED BY <1>1, <1>3, <1>4, <1>12, <1>18 DEF GroupsInv

LEMMA StutterKeeps ==
  ASSUME GroupsInv, UNCHANGED vars
  PROVE  GroupsInv'
<1>1. UNCHANGED <<run, phase, next, work, rootOf, untested, list, requested, representative, members, counts, order>>
  BY DEF vars
<1>2. /\ circuit' = circuit /\ Faults' = Faults /\ SiteFaults' = SiteFaults /\ Rising' = Rising /\ Reasons' = Reasons
      /\ (\A f : Tests(f)' = Tests(f)) /\ Listed' = Listed
      /\ ChooseRepresentatives' = ChooseRepresentatives /\ TargetCount' = TargetCount
  BY <1>1, SameRun, SameList, SameChoice
<1>3. GroupsShareTests' /\ Superseded' /\ WorkOK' /\ ListOK'
  BY <1>1, <1>2 DEF GroupsInv, GroupsShareTests, Superseded, WorkOK, ListOK
<1>4. MembersOK'
  <2>1. Added' = Added
    BY <1>1 DEF Added, FaultId
  <2> QED BY <1>1, <1>2, <2>1 DEF GroupsInv, MembersOK
<1>5. MembersShareTests'
  BY <1>1, <1>2 DEF GroupsInv, MembersShareTests, GetEquivalentFaults, Tests
<1>6. EveryRequestHasOneRow'
  BY <1>1, <1>2 DEF GroupsInv, EveryRequestHasOneRow, GetEquivalentFaults, numinit, numequiv
<1> QED BY <1>1, <1>2, <1>3, <1>4, <1>5, <1>6 DEF GroupsInv

LEMMA GroupsInvHolds == Spec => []GroupsInv
<1>1. GroupsInv /\ [Next]_vars => GroupsInv'
  <2> SUFFICES ASSUME GroupsInv, [Next]_vars PROVE GroupsInv'
    OBVIOUS
  <2>1. CASE UNCHANGED vars
    BY <2>1, StutterKeeps
  <2>2. CASE Next
    BY <2>2, AddStructuralPairKeeps, NextGateKeeps, NextNetKeeps, ReadLineKeeps, RequestKeeps, ReadPairKeeps,
       ChooseAgainKeeps, AddMemberKeeps, FinishKeeps, StutterKeeps DEF Next, Returned
  <2> QED BY <2>1, <2>2
<1> QED BY <1>1, InitKeeps, PTL DEF Spec

\* A probability is never copied to a fault that it is not the probability of
\* (ApplyFaultEquivalence, GetEquivalentFaults), on any circuit, with any list of
\* faults, any hash, and any file of pairs that tells the truth.
THEOREM MembersCorrect == Spec => []MembersShareTests
<1>1. GroupsInv => MembersShareTests
  BY DEF GroupsInv
<1> QED BY <1>1, GroupsInvHolds, PTL

\* No fault that was asked for is left without a row or gets two, the report's
\* numbers are right, and the list fails on a bad line only (ReadFaults).
THEOREM RowsCorrect == Spec => []EveryRequestHasOneRow
<1>1. GroupsInv => EveryRequestHasOneRow
  BY DEF GroupsInv
<1> QED BY <1>1, GroupsInvHolds, PTL
=============================================================================
