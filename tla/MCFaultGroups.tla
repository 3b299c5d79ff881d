---------------------------- MODULE MCFaultGroups ----------------------------
(* FaultGroups for sample circuits, lists of faults and files of pairs.     *)
EXTENDS FaultGroups, SampleCircuits

\* Faults with the same tests that structure does not show: neighbours in an
\* order of the faults, so that chains of pairs join larger groups.
SameTests(c) ==
  LET tested == {[fault |-> f, tests |-> TestValues(c, f[1], f[2])] : f \in FaultsOf(c)}
  IN {<<x.fault, y.fault>> : <<x, y>> \in
        {z \in tested \X tested : 2 * z[1].fault[1] + z[1].fault[2] < 2 * z[2].fault[1] + z[2].fault[2]
                                 /\ z[1].tests = z[2].tests}}

\* Two hashes: one bucket, and three.
Buckets(c) == { [f \in FaultsOf(c) |-> 0], [f \in FaultsOf(c) |-> (5 * f[1] + f[2]) % 3] }

\* Lists: some faults, twice or in another order, blank lines, and a bad line.
Lists == { << <<7, 1>>, NoFault, <<0, 0>>, <<3, 1>>, <<7, 1>>, <<4, 0>>, <<5, 0>>, <<0, 0>> >>,
           << <<6, 1>>, <<2, 0>>, Invalid, <<1, 0>> >>,
           <<>> }

Run(c, bucket, fault, lines, equiv, pairs) ==
  [circuit |-> c, bucket |-> bucket, fault |-> fault, list |-> lines, equiv |-> equiv, pairs |-> pairs]

\* With pairs: none, all, all in the opposite order, and a bad line among them.
PairFiles(c) ==
  LET pairs == FoldSet(LAMBDA p, s : Append(s, p), <<>>, SameTests(c))
  IN { <<>>, pairs, Reverse([i \in DOMAIN pairs |-> <<pairs[i][2], pairs[i][1]>>]),
       SubSeq(pairs, 1, 2) \o <<NoFault, Invalid>> }

StuckAtRuns(c) ==
  { Run(c, b, FALSE, <<>>, FALSE, <<>>) : b \in Buckets(c) }
  \union { Run(c, b, TRUE, l, FALSE, <<>>) : b \in Buckets(c), l \in Lists }
  \union { Run(c, b, FALSE, <<>>, TRUE, p) : b \in Buckets(c), p \in PairFiles(c) }
  \union { Run(c, b, TRUE, l, TRUE, p) : b \in Buckets(c), l \in Lists, p \in PairFiles(c) }

\* -equiv is refused for transition faults.
TransitionRuns(c) ==
  {Run(c, b, FALSE, <<>>, FALSE, <<>>) : b \in Buckets(c)}
  \union {Run(c, b, TRUE, << <<4, 1>>, <<7, 0>>, <<4, 1>>, <<n, 0>> >>, FALSE, <<>>) : b \in Buckets(c), n \in Nets(c)}

MCRuns ==
  StuckAtRuns(StuckAt(Reconvergent)) \union StuckAtRuns(StuckAt(EarlyOutput)) \union StuckAtRuns(StuckAt(Diamond))
  \union StuckAtRuns(StuckAt(Chain)) \union StuckAtRuns(StuckAt(Branches))
  \union TransitionRuns(Transition(Sequential)) \union TransitionRuns(Transition(Shift))
=============================================================================
