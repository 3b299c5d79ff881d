----------------------------- MODULE FaultGroups -----------------------------
(***************************************************************************)
(* The fault list and its groups of equivalent faults (fault_list.c,       *)
(* equivalence.c, target_fault.c): from the circuit, the faults asked for  *)
(* and the pairs declared equivalent, to the faults that are analysed, in  *)
(* their order, and the rows that share each result.  FindRoot stands for  *)
(* the forest of FaultForest, which answers with the root of a group.      *)
(*                                                                         *)
(* One result is written for every member of a group: a fault in the wrong *)
(* group gets another fault's probability, one in none gets no row.        *)
(***************************************************************************)
EXTENDS Circuit, FaultPartition, Functions

NoFault == <<>>       \* also a blank line or a comment
Invalid == <<None>>   \* a line that names no fault, or that cannot be parsed

\* Runs to consider: [circuit, fault, list, equiv, pairs, bucket].  fault and
\* equiv say whether -fault and -equiv are given, list and pairs are the lines
\* of those files, bucket is the hash of each fault's line.
CONSTANT Runs

FaultsOf(c) == Nets(c) \X Bits

ASSUME FaultGroupsAssumption ==
  \A run \in Runs :
    LET c == run.circuit IN
    /\ WellFormed(c)
    /\ Nets(c) = 0 .. Cardinality(Nets(c)) - 1
    /\ run.fault \in BOOLEAN /\ run.equiv \in BOOLEAN
    /\ run.list \in Seq(FaultsOf(c) \union {NoFault, Invalid})
    /\ run.pairs \in Seq((FaultsOf(c) \X FaultsOf(c)) \union {NoFault, Invalid})
    /\ run.bucket \in [FaultsOf(c) -> Nat]

\* What a file of pairs promises: each pair has the same tests.
ASSUME ExternalEquivalenceAssumption ==
  \A run \in Runs : run.equiv =>
    \A i \in DOMAIN run.pairs :
      LET pair == run.pairs[i] IN
      \/ pair \in {NoFault, Invalid}
      \/ TestValues(run.circuit, pair[1][1], pair[1][2]) = TestValues(run.circuit, pair[2][1], pair[2][2])

VARIABLES
  run,        \* the circuit and the options: never changes
  phase,      \* "structure", "read", "pairs", "members", "done", or "failed"
  next, work, \* the loop at hand: its counter, and what is left of its input
  rootOf,     \* FindRoot of each fault
  untested,   \* faults whose test_sa0 or test_sa1 is NO
  list,       \* the buckets of readdata.fault.list
  requested,  \* output_requested
  representative, members,  \* of the group of a root
  counts,     \* targets_before_external, targets_after_external, output_faults
  order       \* target_order

vars == <<run, phase, next, work, rootOf, untested, list, requested, representative, members,
          counts, order>>

circuit == run.circuit
Faults == FaultsOf(circuit)
NetCount == Cardinality(Nets(circuit))
FaultId(f) == 2 * f[1] + f[2]

\* The faults there are: of the second frame, for transition faults.
SiteFaults == Sites(circuit) \X Bits
IsTransition == \E n \in Nets(circuit) : circuit.first[n] # None

\* Structural analysis is skipped for a list of faults alone.
Init ==
  /\ run \in Runs
  /\ phase = IF run.fault /\ ~run.equiv THEN "read" ELSE "structure"
  /\ next = 0
  /\ work = IF run.fault /\ ~run.equiv THEN run.list ELSE <<>>
  /\ rootOf = [f \in Faults |-> f]
  /\ untested = {}
  /\ list = [b \in Range(run.bucket) |-> <<>>]
  /\ requested = {}
  /\ representative = [f \in Faults |-> NoFault]
  /\ members = [f \in Faults |-> <<>>]
  /\ counts = [before |-> 0, after |-> 0, output |-> 0]
  /\ order = <<>>

-----------------------------------------------------------------------------
(* InitFaultEquivalence *)

\* MergeFaults
GroupOf(r) == Tree(rootOf, r)
Merged(f, g) == Joined(rootOf, f, g)

\* Mutant: a flip-flop of the second frame is taken for a buffer.
AcrossFlipFlops(n) == IsTransition => circuit.type[n] \in {"BUF", "INV"} /\ circuit.first[n] # None

\* Transition faults are collapsed through buffers and inverters only, and not
\* across the flip-flops, where the frames meet.
Collapsible(n) ==
  IsTransition =>
    /\ circuit.type[n] \in {"BUF", "INV"}
    /\ circuit.first[n] # None
    /\ circuit.type[circuit.first[n]] # "IN"
    /\ circuit.first[circuit.in[n][1]] # None

\* The pairs <<input fault, output fault>> of the gate that drives n.
GatePairs(n) ==
  LET type == circuit.type[n]
      in == circuit.in[n]
      Through(u) == IF type = "INV" THEN 1 - u ELSE u
  IN IF ~Collapsible(n) THEN <<>>
     ELSE CASE type \in {"BUF", "INV"} ->
                 << << <<in[1], 0>>, <<n, Through(0)>> >>, << <<in[1], 1>>, <<n, Through(1)>> >> >>
            [] type \in Controllable ->
                 [i \in DOMAIN in |-> << <<in[i], 1 - NonControlling(type)>>, <<n, 1 - Uncontrolled(type)>> >>]
            [] OTHER -> <<>>

AddStructuralPair ==
  /\ phase = "structure"
  /\ work # <<>>
  /\ rootOf' = Merged(Head(work)[1], Head(work)[2])
  /\ untested' = untested \union {Head(work)[1]}
  /\ work' = Tail(work)
  /\ UNCHANGED <<run, phase, next, list, requested, representative, members, counts, order>>

NextGate ==
  /\ phase = "structure"
  /\ work = <<>>
  /\ IF next < NetCount
     THEN /\ work' = GatePairs(next)
          /\ next' = next + 1
          /\ UNCHANGED phase
     ELSE /\ phase' = "read"
          /\ next' = 0
          /\ work' = IF run.fault THEN run.list ELSE <<>>
  /\ UNCHANGED <<run, rootOf, untested, list, requested, representative, members, counts, order>>

-----------------------------------------------------------------------------
(* ReadFault *)

\* The faults of net n that no structural pair has made superfluous.
Generated(n) ==
  IF n \notin Sites(circuit) THEN <<>>
  ELSE (IF <<n, 0>> \in untested THEN <<>> ELSE << <<n, 0>> >>)
       \o (IF <<n, 1>> \in untested THEN <<>> ELSE << <<n, 1>> >>)

Listed == {f \in Faults : f \in Range(list[run.bucket[f]])}

\* Without a list of faults, all are generated that are left to analyse.
NextNet ==
  /\ phase = "read"
  /\ work = <<>>
  /\ ~run.fault
  /\ next < NetCount
  /\ work' = Generated(next)
  /\ next' = next + 1
  /\ UNCHANGED <<run, phase, rootOf, untested, list, requested, representative, members, counts, order>>

\* CreateFaultList: a new fault goes to the head of its bucket, once.
ReadLine ==
  /\ phase = "read"
  /\ work # <<>>
  /\ LET f == Head(work) IN
     IF f \in SiteFaults \union {NoFault}
     THEN /\ list' = IF f = NoFault \/ f \in Listed THEN list
                     ELSE [list EXCEPT ![run.bucket[f]] = <<f>> \o @]
          /\ work' = Tail(work)
          /\ UNCHANGED phase
     ELSE phase' = "failed" /\ UNCHANGED <<list, work>>
  /\ UNCHANGED <<run, next, rootOf, untested, requested, representative, members, counts, order>>

-----------------------------------------------------------------------------
(* FinalizeFaultEquivalence *)

\* InitTargetOrder: by level, then as the hash table is walked.
Place(f) == CHOOSE i \in DOMAIN list[run.bucket[f]] : list[run.bucket[f]][i] = f
Earlier(f, g) ==
  \/ circuit.level[f[1]] < circuit.level[g[1]]
  \/ /\ circuit.level[f[1]] = circuit.level[g[1]]
     /\ \/ run.bucket[f] < run.bucket[g]
        \/ run.bucket[f] = run.bucket[g] /\ Place(f) < Place(g)

\* ChooseRepresentatives: of the listed faults of a group, the first in that order.
Chosen(r) ==
  IF Listed \intersect GroupOf(r) = {} THEN NoFault
  ELSE CHOOSE f \in Listed \intersect GroupOf(r) : \A g \in (Listed \intersect GroupOf(r)) \ {f} : Earlier(f, g)
ChooseRepresentatives == [r \in Faults |-> Chosen(r)]
TargetCount == Cardinality({r \in Faults : Chosen(r) # NoFault})

\* A list of faults limits the rows to its own.
Request ==
  /\ phase = "read"
  /\ work = <<>>
  /\ run.fault \/ next = NetCount
  /\ requested' = IF run.fault THEN Listed ELSE SiteFaults
  /\ representative' = ChooseRepresentatives
  /\ counts' = [counts EXCEPT !.before = TargetCount]
  /\ phase' = "pairs"
  /\ work' = IF run.equiv THEN run.pairs ELSE <<>>
  /\ UNCHANGED <<run, next, rootOf, untested, list, members, order>>

\* ReadExternalEquivalences
ReadPair ==
  /\ phase = "pairs"
  /\ work # <<>>
  /\ LET pair == Head(work) IN
     IF pair # Invalid
     THEN /\ rootOf' = IF pair = NoFault THEN rootOf ELSE Merged(pair[1], pair[2])
          /\ work' = Tail(work)
          /\ UNCHANGED phase
     ELSE phase' = "failed" /\ UNCHANGED <<rootOf, work>>
  /\ UNCHANGED <<run, next, untested, list, requested, representative, members, counts, order>>

ChooseAgain ==
  /\ phase = "pairs"
  /\ work = <<>>
  /\ representative' = ChooseRepresentatives
  /\ counts' = [counts EXCEPT !.after = TargetCount]
  /\ phase' = "members"
  /\ next' = 2 * NetCount
  /\ UNCHANGED <<run, work, rootOf, untested, list, requested, members, order>>

\* From the last fault to the first, each to the head of its group's members.
AddMember ==
  /\ phase = "members"
  /\ next > 0
  /\ LET f == <<(next - 1) \div 2, (next - 1) % 2>> IN
     IF f \notin requested
     THEN next' = next - 1 /\ UNCHANGED <<phase, members, counts>>
     ELSE IF representative[rootOf[f]] = NoFault
     THEN phase' = "failed" /\ UNCHANGED <<next, members, counts>>
     ELSE /\ members' = [members EXCEPT ![rootOf[f]] = <<f>> \o @]
          /\ counts' = [counts EXCEPT !.output = @ + 1]
          /\ next' = next - 1
          /\ UNCHANGED phase
  /\ UNCHANGED <<run, work, rootOf, untested, list, requested, representative, order>>

\* Some fault of every group, kept in the list, is its representative.
Kept(f) == f = representative[rootOf[f]]

\* RemoveNonrepresentatives, and InitTargetOrder on what is left.
Finish ==
  LET targets == {f \in Listed : Kept(f)} IN
  /\ phase = "members"
  /\ next = 0
  /\ list' = [b \in DOMAIN list |-> SelectSeq(list[b], Kept)]
  /\ order' = [k \in 1 .. Cardinality(targets) |->
                 CHOOSE f \in targets : Cardinality({g \in targets : Earlier(g, f)}) = k - 1]
  /\ phase' = "done"
  /\ UNCHANGED <<run, next, work, rootOf, untested, requested, representative, members, counts>>

Returned == phase \in {"done", "failed"} /\ UNCHANGED vars

Next ==
  \/ AddStructuralPair \/ NextGate
  \/ NextNet \/ ReadLine
  \/ Request \/ ReadPair \/ ChooseAgain \/ AddMember \/ Finish
  \/ Returned

Spec == Init /\ [][Next]_vars

-----------------------------------------------------------------------------
MembersOfFault(f) == members[f]   \* mutant: the climb to the root is left out

\* The rows that share the result of target f.
GetEquivalentFaults(f) == members[rootOf[f]]

\* The numbers of the report: faults analysed, and rows that follow another fault.
numinit == counts.after
numequiv == counts.output - counts.after

-----------------------------------------------------------------------------
(* Properties *)

Tests(f) == TestValues(circuit, f[1], f[2])

\* The faults that share a row's result have the same tests: a probability is
\* never copied to a fault that it is not the probability of.
MembersShareTests ==
  phase = "done" =>
    \A i \in DOMAIN order : \A f \in Range(GetEquivalentFaults(order[i])) : Tests(f) = Tests(order[i])

\* Every fault asked for gets exactly one row, its target among them, and the
\* numbers of the report count these rows; only a line of a file can make the
\* list fail, never a group whose faults were all left out.
EveryRequestHasOneRow ==
  /\ phase = "done" =>
       /\ \A f \in requested :
            \E i \in DOMAIN order : f \in Range(GetEquivalentFaults(order[i]))
       /\ \A i, j \in DOMAIN order : i # j =>
            Range(GetEquivalentFaults(order[i])) \intersect Range(GetEquivalentFaults(order[j])) = {}
       /\ \A i \in DOMAIN order :
            /\ IsInjective(GetEquivalentFaults(order[i]))
            /\ Range(GetEquivalentFaults(order[i])) \subseteq requested
            /\ order[i] \in Range(GetEquivalentFaults(order[i]))
       /\ numinit = Len(order)
       /\ numequiv = Cardinality(requested \ Range(order))
  /\ phase = "failed" =>
       \/ run.fault /\ \E i \in DOMAIN run.list : run.list[i] \notin SiteFaults \union {NoFault}
       \/ run.equiv /\ \E i \in DOMAIN run.pairs : run.pairs[i] = Invalid
=============================================================================
