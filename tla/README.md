# TLA+ models of FDP Gen

FDP Gen computes, for every target fault of a gate-level circuit, the probability that a
uniformly random input pattern detects it. For one fault it asks a SAT solver for a
detecting pattern, widens the pattern to a cube by don't-care identification (XID), blocks
the cube, and repeats; the BDD of the union of the cubes gives the probability. Faults are
independent, so a pool of worker processes can share them. Equivalent faults are analysed
once. The results go to a CSV file and, with `-cube`, to a directory of cube files.

This directory holds the specifications of that program, the TLC configurations that check
them on small instances, and the proofs that TLAPS checks for every instance. Paths below
are relative to the repository's `src/` (the program's sources) unless they start with
`docs/` or `tests/`.

## 1. The system

| Component | Sources | State | Operations | Interacts with |
|---|---|---|---|---|
| Worker pool | `fdp/worker_pool.c` | per worker: pid, socket, fault at hand; results that arrived; next fault to hand out and to write; cancellation flag | fork, hand out, poll, receive a reply (header, row, cube text), write ready results, stop, terminate, reap | forks the analysis of one fault; writes the CSV and the cube files |
| Analysis of one fault | `fdp/analysis.c`, `fdp/cube_set.c`, `fdp/bdd/probability.c` | solver clauses, cubes so far, limit flag, result row | build the CNF, solve, widen, block, count, emit | solver (external), XID, BDD (external) |
| Analysis run | `fdp/analysis.c`, `fault/target_fault.c` | CSV stream, success flag | open, prepare, loop over the faults in target order, close | everything below `main` |
| Cube directory | `io/cube_text.c` | marker file, cube files | check the marker, clear, rewrite the marker, write a cube file | the run, serial or parallel |
| Fault equivalence | `fault/equivalence.c` | union-find forest, representatives, member lists | merge (structural and external pairs), find, choose, finalise | fault list, CSV rows |
| Fault list | `fault/fault_list.c`, `fault/hash.c` | buckets of fault nodes, net hash | generate or read, create without duplicates, search | equivalence, target order |
| XID | `fdp/xid/*.c` | three-valued good and faulty values, implication queues | simulate, imply forward and backward, justify, propagate | analysis of one fault |
| Test generation model | `fdp/cnf/*.c` | clauses, scope of the fault | good circuit, faulty circuit, propagation chain, comparator, scope | solver |
| Essential assignment | `fdp/cnf/essential_assignment.c` | assigned values, two queues | unique sensitisation, implications | test generation model |
| Netlist, frame expansion | `netlist/*.c`, `fdp/context.c` | nets, gates, fan-out branches, levels | parse, connect, expand to two frames | everything |
| Coverage estimation | `coverage/*.c` | expected coverage per pattern count | read the CSV, accumulate | the CSV only |
| Command line, reports | `cli/options.c`, `io/*.c`, `main.c` | options, which file holds what | read arguments and settings files, check, run the stages, report | every stage |

What is hard, and where it is looked at:

* **Interleaving.** Workers finish in any order while the parent is still handing out,
  writing or stopping (`FaultPool`).
* **Processes and files.** `fork` copies stdio buffers and socket ends; a reply is several
  reads; a read ends only when nobody holds the other end (`FaultPool`).
* **Failure.** Every call may fail; workers die; SIGINT and SIGTERM arrive at any point;
  the parent may be killed (`FaultPool`), as may a serial run that is in the middle of
  clearing or writing the cube directory (`AnalysisRun`).
* **Agreement of two translations.** The blocking clause and the BDD read the same cube
  string separately, and the limit and the last answer race (`CubeEnumeration`).
* **Sequences of calls.** Union and find in any order on one forest (`FaultForest`); fault
  after fault on the same global arrays (`TestModel`).
* **Algorithms with subtle conditions.** Essential assignment and XID must not exclude or
  admit a pattern wrongly, and faults that share a result must have the same tests
  (`EssentialAssignment`, `TestModel`, `Xid`, `FaultGroups`).
* **Counts made in one pass and used in another.** Array sizes, net numbers and edges
  between the frames of the netlist (`NetlistBuild`).
* **Settings and files that depend on each other.** Options in any order and from two
  places, output names derived from others (`Options`), rows of one stage read by the next
  one and accumulated over pattern counts (`Coverage`).

`PROJECT.json` lists each hazard at its line with the properties that watch it.

## 2. Modules

| Module | Models | Lines of code it follows |
|---|---|---|
| `Targets` | the ordered target faults, the lines of the CSV | `target_fault.c` |
| `FaultReport` | abstract: what a run promises about its output | `analysis.c` 145-222 |
| `FaultPool` | the worker pool, parent and children, sockets, signals | `worker_pool.c` |
| `AnalysisRun` | the serial run and the cube directory over several runs | `analysis.c` 145-222, `cube_text.c` 30-187 |
| `CubeEnumeration` | the analysis of one fault | `analysis.c` 40-134, `probability.c`, `cube_text.c` 189-200 |
| `FaultPartition` | what a merge does to the root of every fault | `equivalence.c` 44-58 |
| `FaultForest` | union-find | `equivalence.c` 25-58, 110-131 |
| `Circuit` | circuits and the values of their nets | `netlist.h`, `normal_scope_values.c` 61-104 |
| `Netlist` | from a design to a circuit: branches, frames, levels | `netlist.c` 479-613, 797-936, `expand_tdf.c`, `context.c` 47-69 |
| `NetlistBuild` | the same, one pin after the other | as above, `main.c` 20-49 |
| `EssentialAssignment` | the values given to the solver before it searches | `essential_assignment.c` |
| `TestModel` | the clauses whose models are the tests of a fault, and the simulation of a model | `fdp/cnf/*.c` but `essential_assignment.c` |
| `Xid` | don't-care identification, one queue turn a step | `fdp/xid/*.c` |
| `FaultGroups` | pairs, fault list, representatives, members, target order | `equivalence.c`, `fault_list.c`, `target_fault.c` |
| `Options` | the options of the command line and of settings files | `options.c`, `coverage_options.c` |
| `Coverage` | the stages of `main`, the rows of the CSV, the coverage report | `main.c`, `fault_csv.c`, `report.c`, `coverage.c`, `coverage_model.c` |
| `SampleCircuits` | the circuits that instances use | - |
| `CircuitProofs` | lemmas about circuits that several proofs rest on | - |
| `AnalysisProofs` | the theorems of `AnalysisRun`, `Coverage` and `CubeEnumeration` | - |
| `FaultEquivalenceProofs` | the theorems of `FaultForest` and `FaultGroups` | - |
| `NetlistProofs` | the theorems of `NetlistBuild` | - |
| `...Proofs` | the theorems of the module they are named after | - |
| `MC...` | instances for TLC | - |

`FaultPool` and `AnalysisRun` both implement `FaultReport` (as the property
`ImplementsReport`), so whatever the number of workers the output is one the serial loop
could have produced. `CubeEnumeration` is what a worker, or the serial loop, does between
taking a fault and having its row; the pool sees only whether its cube text is empty
(`Saved`), the run likewise (`due`).

### FaultPool

The parent's `pc` is its place in `FaultPoolRun`: start a worker, assign its first fault,
collect (check, poll, scan the reported sockets, receive the header, receive the text,
write the row, write the cube file, assign the next fault), send the stop requests or
terminate, close each socket, wait for each pid, finish, close the CSV. `proc[w]` is what
worker `w` is doing. A socket is the queue of message parts in each direction and the set
of processes that hold each end: `fork` copies every open end, a child closes the ones it
inherited, and a process gives all of them up when it dies. `cancelled` is the flag of the
signal handler in the parent and `flagged` the copies in the children.

The text of a result is the fault it belongs to, so a reply paired with another fault's
text would show. `csvBuffer` is the parent's stdio buffer, `copy[w]` the one a child
inherits; `fflush` before `fork` keeps it empty. Which faults have cube text is the
constant `Saved`. Left out: the sum of the statistics, the progress line, and stdio's own
early flush (the order property is over file and buffer together). A signal between the
test of the flag and the blocking call is the step `Signal` at the blocking point without
`InterruptCall`.

### AnalysisRun

One run is: open the CSV and write the header, prepare, then with `-cube` check the
marker, read the entries one by one (refusing an unmanaged directory, removing reserved
names from a managed one), empty the marker, write it, and then for each fault the row and
the cube file. Any call may fail (`Fail`, and the failure branches of `WriteMarker`,
`WriteRow`, `WriteCube`, `Close`); `Kill` ends the process between any two steps. The next
run starts with the directory as it was left. A file is abstracted to the number of the
run that wrote it; run 0 is whatever was there first. How much of the CSV has left the
stdio buffer is settled only when the process ends (`LosingLines`). An `fopen` of the CSV
that fails ends the process before anything is touched and is left out.

An observation that is not a property: between `fopen(marker, "w")` and `fclose` the
marker is empty, so a kill there leaves a directory that every later run refuses, and that
has to be removed by hand. This is safe, and the documents do not promise otherwise.

### CubeEnumeration

`detecting` is the set of patterns that detect the fault. The solver answers with any
pattern of it that satisfies every blocking clause, or unknown; XID answers with any cube
that contains the pattern and only detecting patterns (its contract), or fails. Blocking
clause (`BlockingClause`, `Satisfies`) and cube of the BDD (`Digit`, `Covers`) are
separate translations of the cube, as in the code. The density is the number of covered
patterns, over `2^n`.

### FaultForest

`FindRoot` and `MergeFaults` in any sequence, each turn of their loops a step. The history
variable `declared` records the pairs merged; the groups are the least sets closed under
them, independently of the forest. `roots` is what a caller can see: the root a climb would
lead to. `MergesOnly` says that it changes only when a merge ends, and then by `Joined`, the
definition of `FaultPartition` that `FaultGroups` uses for `MergeFaults`; so `FaultGroups`,
where a merge is part of one step, stands on the forest.

### Circuit, Netlist and NetlistBuild

A circuit is a record of functions on its nets, as `NLIST` is an array of structures.
`Netlist` is a library: what connecting one pin does (`ConnectPin`: a direct edge, or a
`FOUT` branch behind a net with several uses, and once a branch for the output port), what
the expansion to two frames makes of a circuit with flip-flops (`Expanded`), and the
levels. `NetlistBuild` runs it in steps, since what the arrays must hold depends on how far
the connection has come; the array sizes are reserved from counts made before
(`OutCount`, `AllocatedNets`). That the result observes what the design computes is stated
against `Cycle`, a direct evaluation of the design that knows nothing of branches, frames
or net numbers. The parser of the text format and its hash of names are left out: a design
is what they deliver (`IsDesign`). Two drivers of one net and a driven input the parser refuses
(`analyze_asyntax_error`); that every net has a driver or is an input, that a port is declared
once, and that only flip-flops close a loop, it takes on trust, and so does the model. A design with no flip-flop goes the way of `-saf`, one with flip-flops
that of `-tdf`; `main.c` refuses the other two combinations.

### EssentialAssignment

`frontier` is the queue of the walk (`que2`), `visited` what has left it, `value` the values
assigned, `pending` the queue of implications. The walk takes a net of the lowest level;
which one of several, and the order of the second queue, are left open, so the results
hold for any sorting. `Cases` are faults of circuits with their tests; a test is a pair of
valuations, good and faulty, that differ at an observed net (`IsTest`, the condition the
comparator clauses state).

### TestModel

One worker builds the clauses for one fault after the other (`SearchTFO`, `NormalScopeBuild`,
`CreateConsFC`, `LoadNormalDefinition`), and each step works on global arrays that still hold
the previous fault: flags, variable numbers, the two scopes, the tables of the simulation
and the counter that says they are out of date. Literals are signed integers and the
comparator finds its variables by subtraction, as in the code; only which of the new numbers
a net gets is left to the order of the nets instead of the depth-first search. The clauses of
all gates are one operator (`GateClauses`), since good and faulty gates have the same ones
over different variables. The solver is external: `Models` is the set of all assignments to
the variables of the clauses that satisfy every clause, found by giving values to one variable
after the other and dropping what already falsifies a clause (that nothing else is dropped is
`ModelsFound`). Nothing is left out of the numbering: `varsgc`, `varsfc`, `varprop` and the
comparator's variables overlap or do not as in the code. Essential assignment
enters by its contract, which `EssentialAssignment` establishes (theorem `EssentialCorrect`): the clauses get all values
common to every test, or none; any set between is between these two in the models it allows.

### Xid

`InlineXID` on one fault and one model: `Simulate` is a turn of the event-driven simulation,
`BeginFilling` fixes the detecting net, the site and the excitation, and `ForwardImp`,
`BackwardImp`, `FollowPath` or `ReachSite`, and `Justify` are a turn of each of its queues, in
the order of precedence of `Xfilling`. `three` holds the required values of both circuits, X
for "no requirement". The order in which one gate's inputs enter a queue, and which of two
nets of one level is taken, are left open. `Demand` is where the code hides the site's faulty
value from backward implication; `Fixed` is where it pins it before anything can derive it.

A case comes with the scope of the fault (`normal_scope.c`): a set of nets closed under
inputs that holds the site, the excitation and an observed net where the model shows the
fault. `SimulationFindsDetection` therefore also says that `InlineXID` never refuses a model.

### FaultGroups

From options and files to the targets: `AddStructuralPair` and `NextGate` (the pairs each
gate gives, and the flags of the faults they make superfluous), `NextNet` or `ReadLine` (the
fault list, generated or read), `Request`, `ReadPair`, `ChooseAgain` (external pairs, and the
second choice of representatives), `AddMember`, `Finish` (the members of each group, what is
left in the list, and the target order). `rootOf` is the answer of `FindRoot`; that merging
and looking up do to it what `Joined` says is the theorem `MergesCorrect`. A line of a file is a fault, a pair, nothing (blank or comment), or
invalid; the hash of a fault's line is a constant, any function. What a file of pairs says is
taken to be true (`ExternalEquivalenceAssumption`): the program cannot check it and the
documents ask for it.

### Options and Coverage

`Options` reads arguments and the lines of a settings file one by one, later ones over earlier
ones, then checks them together (`Consistent`, `ReportApart`). `Coverage` runs the stages of
`main` on the result, each of which may fail before or in the middle of writing its file;
`written` says what each name holds, so that an output written over another shows. The
rows are what `WriteFaultResult` prints, the group's other faults without cubes, and the
report is computed from these rows alone, by the two recurrences of `coverage_model.c`. Paths
are sequences of name parts because one is derived from another; two spellings of one file,
and an output inside the directory of `-cube`, are beyond the code's check and the model's.

`argv` keeps the command line, so that `ReportIsTrue` can compare the counts of the report with
those asked for, whatever became of them on the way. For the chances it starts from
`detecting`, the number of patterns that really detect a fault. Without replacement the report
is the exact mean of the chances that follow from it. With replacement it is the exact mean for
the densities as the CSV rounds them, and therefore within `np` half units of their last digit
of the mean for the densities themselves; both are stated.

Two limits of the program show in these properties.

* Reading the CSV may fail (`LoseRows` between two rows, `TearRow` within one; an error, once
  there, is taken to last). `AccumulateFaults` takes every negative result of `getline` for the
  end of the file (`coverage.c` 95, no `ferror`), so the report is written and the run may
  succeed although rows are missing; `docs/calc_f.md` speaks of all rows of the CSV.
  `ReportIsTrue` is therefore about the rows read, and claims no chance when one of them was
  cut short.
* The code compares `-cube` with `-fdp` and `-log` (`options.c` 137) and the report with all
  three (`coverage_options.c` 144), but not `-log` with `-fdp`. When they are the same file and
  there is no `-calc_f`, the log replaces the rows and the program exits 0; with `-calc_f` the
  log is not a CSV and the run fails. `SuccessKeepsOutputs` excepts the rows, and only them, in
  exactly this case.

### How the modules fit together

`NetlistBuild` says that the circuit is well formed (`BuildsWellFormed`), which every module
on circuits assumes. `EssentialAssignment` says that the added values are sound, `TestModel`
that the models are then exactly the tests, `Xid` that the cube made from a test holds only
tests, and `CubeEnumeration` takes the tests (`detecting`) as what the solver answers from
and such cubes as what XID answers. `FaultPool` and `AnalysisRun` take the target order of
`FaultGroups` as given and what `CubeEnumeration` returns as a result; `FaultGroups` says that
the result of a target may stand for its group. `Coverage` takes rows as `CubeEnumeration`
leaves them: all detecting patterns found, or at least one and the row marked incomplete.

## 3. Runs

| Run | Instance | What it shows |
|---|---|---|
| `pool_safety` | 4 faults, 3 workers, all failures, socket of 2 parts (980 k states) | order of the CSV, no fault analysed twice, replies paired rightly, success means complete, only own pids signalled, everyone reaped |
| `pool_progress` | 3 faults, 2 workers, all failures | implements `FaultReport`; always returns; orphans exit |
| `pool_clean` | 4 faults, 3 workers, no failures | a run with nothing going wrong succeeds |
| `analysis_run` | 2 faults, one further reserved name, one user file, 3 runs, every initial directory | files match the marker, user files kept, success is whole, implements `FaultReport` |
| `enumeration` | 2 inputs, all 16 faults, limits 0-3, caps none, 1, 3 | a complete row is exact, an incomplete one a lower bound, each cube adds a pattern, saved cubes match, it ends |
| `netlist_build` | 4.3 k designs: 2-3 modules, 1-2 inputs, any arrangement (31 k states) | arrays suffice, the circuit is well formed, it observes what the design's clock cycles compute |
| `essential_assignment` | all faults of four circuits (4.3 k states) | every assigned value holds in every test, no implication is missed, both loops end |
| `test_model` | every pair of faults in sequence on three circuits (19 k states) | the models are exactly the tests, and the simulation shows the model's values |
| `xid` | every test of every fault of six circuits, all orders within a level and a gate (8.8 k states) | the cube holds the model and only tests, the simulation finds the detecting net, no two demands contradict each other |
| `fault_groups` | seven circuits, with and without `-fault` and `-equiv`, two hashes, lists and pairs in several orders and with bad lines (13 k states) | a group's faults have the same tests, every fault asked for gets exactly one row |
| `coverage` | 4 patterns, rows in steps of 1/7, up to 2 groups of up to 2 faults, 156 command lines (1.8 M states) | the report has the counts asked for and is the mean chance of detection, or a lower bound; a successful run has its outputs |
| `fault_forest` | 5 faults, 6 pairs in every order | roots and groups are right, depth is logarithmic, callers see the merges and nothing else, calls end |

Why the bounds are enough. *Pool*: three workers and four faults give a worker that is
reused, one that waits for an earlier fault while holding a later result, and one that is
never given a second fault; two parts per socket make a worker block in the middle of a
reply. A failure of each kind can hit at each step. *Run*: three runs are an interrupted
one, one that repairs, and one that depends on the repair; two faults give a due and a
not-due cube file in every combination. *Enumeration*: with two inputs every function is a
possible fault; a limit of 3 is below, at and above the number of cubes. *Forest*: five
faults are the least that make a tree of depth two which compression can relink.
*Netlist*: two gates and a flip-flop reach every kind of edge (input, gate or flip-flop to
gate, flip-flop or port, with and without a branch, within a frame and across).
*Test model*: a number, flag or table left over can only come from the fault before, so two
faults in a row in every combination are enough.
*Essential assignment*: the circuits are chosen for reconvergence in a controllable gate and
in an exclusive or, a path that ends at an output before the rest goes on, a chain of gates
that every test passes with side inputs of one source, and an expanded sequential circuit.
*XID*: the same circuits and one with two branches into one gate: side inputs that are
stems of the path, gates with several candidates for a controlling value, and both frames.
*Fault groups*: buffers, inverters, both controlling values, several inputs, branches, and
two circuits with flip-flops, one of them a shift register, whose frames meet in a buffer; the
pairs of a file are chosen among all faults with equal tests, so chains of them join groups.
*Coverage*: four patterns and counts up to 6 reach a draw of all patterns and beyond; counts
given unsorted, twice, and as 0, in two lists of which the second must replace the first, and
in a settings file, which may be empty; with a scale of 7 densities are rounded up and down, so
that a count of patterns rounded down instead of to the nearest would be wrong; each option that
changes what another one means is given with it. The bounds that `RoundDetectingPatterns` sets
to its result (`coverage_model.c` 105-106) never bind: the program's own rows, with 11 digits
that are exact for 0 and 1, cannot reach them, only a CSV changed by hand could.

**Fairness.** Safety and refinement need none. In the pool, each step of the parent and of
each child is weakly fair: these are sequential processes the kernel schedules. Failures,
signals and kills are never fair, they may just happen. A blocking call that has nothing
to return is not enabled, so weak fairness never assumes that a peer answers. In the
enumeration and the forest the steps of the only process are weakly fair; the solver is
assumed to answer (SAT, UNSAT or unknown).

`CHECK_DEADLOCK` is never switched off: each specification has an explicit step for "the
program has ended".

## 4. Proofs

Each theorem holds for all values of the constants under the named assumptions (numbers
are naturals, `Saved` and the names of files are what their comments say). The pattern is
the same throughout: an inductive invariant, one lemma per part of it with a step per
action, then the properties as corollaries.

* `FaultPoolProofs`: type correctness, every safety invariant of the pool, and that the
  pool implements `FaultReport`. `OutputInOrder` is not inductive: a child that closes its
  inherited stream writes its copy of the buffer, so the invariant says that buffers are
  empty from the flush until the last fork and that every copy is empty. Success needs
  what each stage of the shutdown has established (everything handed out, completed,
  written, and for each worker already waited for, a normal exit).
  `PidsAreOurs` and `AllReaped` follow from `ReapInv`: the pids on record are exactly those of
  the processes forked and not waited for, and the loop of waits leaves none behind.
  `AnalysedOnce` and `ReplyMatchesTask` follow from `HandOutInv`, about one worker, its socket
  and its task: tasks are distinct and handed out, what a worker has in hand is its task and
  not done, at most one fault is on its way to it, and the parts of a reply the parent has
  read, those in the socket and those the worker still has to send never exceed one reply
  while the parent serves, so that accepting a reply leaves nothing of it behind.
* `AnalysisProofs`, first part (`AnalysisRun`): `FilesMatchMarker`, `SuccessIsWhole`, `UserFilesKept`, and that the
  run implements `FaultReport`. The invariant follows the three phases: nothing of this
  run is in the files yet; the entries still to be read bound the old files that are left;
  the reserved names that exist are exactly the cube files due by now.
* `AnalysisProofs`, second part (`Coverage`): `SuccessKeepsOutputs`, with the exception it
  states, for every sequence of arguments and lines of settings and every failure. Once the options have passed their check
  the paths are apart (`PathsApart`: the only name the program makes up itself is compared with
  the others after it was made), all but those of the log and the CSV, and each stage that succeeds
  adds its output to those of the stages before, which no later path touches (`OutputsInv`).
  When `-log` names the CSV, `-calc_f` finds no rows there and the run fails.
* `AnalysisProofs`, third part (`CubeEnumeration`): `CompleteIsExact`, `IncompleteIsLowerBound`, `EachCubeIsNew`,
  `SavedCubesMatchRow`. The key fact is that the models left are the detecting patterns
  outside the cubes (a cube's clause is satisfied exactly by the patterns it does not
  cover), so UNSAT means that the cubes cover everything.
* `FaultEquivalenceProofs`, first part (`FaultForest`): `ForestRepresentsGroups`,
  `FindRootIsRight`, `DepthIsLogarithmic`, `MergesOnly`, and `SizeIsGroupSize` and `LinksDouble`
  (only proved: no run repeats them). The invariant says that a root is recorded with a
  strictly larger size than every other member of its tree, that links stay inside a declared
  group and that members of a group agree on the root. For the depth it also says that the
  size at least doubles along every link. Compression keeps this, because it only moves a
  fault to a root that has at least the size of the old parent, and a merge because the
  smaller root goes under the larger, whose size grows by its own. Sizes bounded by the number
  of faults then bound 2 to the depth. `MergesOnly` compares `roots` before and after each
  kind of step; for the last step of a merge the declared groups of the two faults become one
  (`GroupIn` of the larger set of pairs), and the tie at equal sizes goes the same way as in
  `Joined`.
* `EssentialAssignmentProofs`: `EssentialHolds`, for any fault of any well-formed circuit.
  In a test, let D be the nets whose good and faulty values differ. A net of D other than
  the site has an input in D (its gate would agree otherwise), so a net of D of lowest
  level among those not yet visited has a visited input and is on the frontier; while no
  visited net leads nowhere, an observed net of D is still ahead. If the frontier is a
  single net it is therefore in D, its unreached inputs are not, and a controllable gate
  whose output differs has the non-controlling value on every input that does not. The
  implications preserve soundness because the test is a valuation. "Lowest level" is the
  least number principle, derived in `CircuitProofs` (`LeastNumber`) from the well-foundedness of strict
  subsets of a finite set. `ImplicationsClosed` (theorem `ClosedCorrect`) needs the queue
  (`QueueInv`): while the walk goes on every net with a value is queued; afterwards a rule that
  would still give a net a value has an input that is queued, and a net that is not queued has
  passed its value back; so when the queue is empty no rule is left.
* `CircuitProofs` holds what these and the next two share: that values follow from inputs
  (a net of lowest level among those that differ would have no cause to), that the recursive
  function of `Values` is well defined on every circuit whose levels increase along edges
  (`ValuesExist`, `GoodAndFaulty`), what a fault leaves alone (`Unaffected`), and the least and
  lowest elements of sets.
* `XidProofs`: `CubeDetects`, `SimulationFindsDetection`, `RequiredAgreesWithModel`, for any
  fault and model on any well-formed circuit. While simulating, only a net with an event may
  disagree with its inputs, and none of these is below a net already computed, so once in the
  order of levels is enough. While filling, the invariant says that
  every required value is the model's, that the site and the detecting net stay fixed, and
  that no requirement is lost (`Justified`): each required value is held by its inputs, or its
  net is in a queue that will make it so, or it is the site's faulty value. At the end the
  queues are empty, so in any circuit with these inputs the required values follow level by
  level, in the good and the faulty circuit, up to the detecting net. Order plays no part in
  the argument, so the theorem covers every sorting the code might use.
* `FaultEquivalenceProofs`, second part (`FaultGroups`): `MembersShareTests` and `EveryRequestHasOneRow`, for any well-formed
  circuit, hash, list of faults and truthful file of pairs. One gate first: with the input at
  the value that decides its output, the circuit with the fault on the input and the one with
  the fault on the output have the same values everywhere but at that input, which nothing
  else reads and where nothing is observed (`SameEffect`); so the same inputs test both, and in
  two frames the excitations agree too (`GatePair`). The groups then keep the same tests
  (`GroupsShareTests`) through every merge. That no group loses all its faults is because a
  superfluous fault has one of its group at a higher level (`Superseded`), so the highest one
  is never superfluous. The order is a bijection because `CompareTarget` is a strict total
  order on the list (`EarlierOrders`, `Ranks`).
* `TestModelProofs`: `EveryModelDetects`, `EveryTestIsModel`, `SimulationAgrees`, for every
  well-formed circuit whose inputs are listed once, every fault, and any faults before it.
  - *State.* `Established` says, phase by phase, what the global arrays hold: the flags and
    numbers are those of the fault at hand and of no earlier one, the scopes are the closures
    of the observed nets, the clauses are exactly the parts the code adds, and the tables of the
    simulation belong to the scope whenever the counter says so. It is the inductive invariant,
    with one lemma per action.
  - *Variables.* `Position` is a bijection onto 1 .. the number of nets, so good, faulty, chain
    and comparator variables of different nets are different numbers, the comparator finds its
    difference variables by subtraction, and the only variables two nets or circuits share are
    those of nets the fault cannot reach.
  - *Clauses.* For each type of gate, an assignment satisfies the clauses of `GateClauses`
    exactly when the output variable has the value `Eval` computes (the lemmas on gates). The
    solver's search finds exactly the satisfying assignments (`ModelsFound`).
  - *Soundness.* In a model, values of the good variables on the scope and of the faulty ones on
    the detection scope agree with the simulation of the model's inputs, by lowest level where
    they would not; the comparator's last literal makes an observed net differ, and the unit
    clauses excite the fault.
  - *Completeness.* A test gives every variable a value: simulated ones to good and faulty
    nets, the comparator's by the nets that differ, and the chain's by the largest set of
    differing nets each of which is observed or leads to another one of the set (`ActiveNets`).
    The site is in it: an observed net that differs is, and a lowest net of the set other than
    the site has an input that differs and could be added.
    Every clause then holds, those of `EssentialUnits` too.

* `NetlistProofs`: `ArraysSuffice`, `BuildsWellFormed` and `ObservesDesign`, for every design
  (`IsDesign`), with or without flip-flops.
  - *Connecting.* `Assembled(d, c, D, P)` describes the circuit `c` when exactly the pins `D` are
    connected and exactly the output ports `P` have moved to a branch: each connected pin is fed
    by its source or by a branch of its own, each branch leads to one place, and a net has as many
    outputs as it has uses in `D` and `P`. Connecting the next pin adds it to `D` and, at the first
    pin of a net that is also a port, the port to `P` (`ConnectKeeps`); so `BuildInv` is inductive.
    The uses counted beforehand bound those so far, which is `ArraysSuffice`; at the end they are
    all of them, which makes the bounds exact.
  - *Well-formed.* With all pins connected the circuit is `Joined`: both ends of every edge agree,
    and the ranks of the design extend to the branches. Ranks that rise along edges are all that
    the recursive definition of the levels needs to exist and to rise itself. For two frames the
    numbers of the copies are shown to be a bijection (`CopiesApart`), then the edges copy by copy
    (`TwoFrames`); the rank of a copy is its rank in the design, the second frame above the first.
  - *Observing.* The values of the design's cycle, carried over to the branches (`Carried`), solve
    the equations of the finished circuit, and these have one solution (`OneFrameValues`,
    `FirstFrameValues`, `SecondFrameValues`), so they are its values; for the second frame the
    state is the one the first captures.

The theorems about circuits assume `WellFormed` (`TestModelProofs` also `InputsListed`, that
`pi` lists the inputs, each once). For the circuits the program builds this is itself the theorem
`EveryBuildWellFormed`; in their modules, where circuits are data, it is an assumption, as is in
`FaultGroups` that the file of pairs is truthful. TLC evaluates these assumptions on every
instance.

Facts about recursive definitions (values, closures, depth, the solver's search) are proved
without an induction theorem: the function defined by recursion on a level or a set is shown to
exist (`CircuitProofs` builds it from the functions on the nets below a level), and a property
of all of it by looking at a least counterexample (`LeastNumber`).

Two definitions were changed by what a proof needed. `Expanded` was written with a `CASE` whose
guards overlap, which leaves its value open; as an `IF` it takes the branch the code takes.
`ObservesDesign` had the values of the cycles inside it; as operators of their own (`Cycle`,
`Captured`) they can be reasoned about.

Only model-checked: `ReportIsTrue`, whose proof is an induction over the number of patterns and
over the rows, with fractions reduced by a recursive `Gcd`, sums by folds, and binomial
coefficients; and everything under fairness (`Returns`, `OrphansExit`, `CleanRunSucceeds`,
`Terminates`), which TLAPS cannot prove.

## 5. Plan

Everything planned at the start is modelled, and every safety property of the runs is a theorem
but `ReportIsTrue`, which is left: that the two recurrences of `coverage_model.c` compute the mean
chances for every count.

## 6. Not modelled

* Text: the parser of the netlist format and its hash of names, splitting of lines in fault and
  pair files, wording and layout of the log, of error messages and of the progress line. Where
  a text can be bad, the models take "a line that cannot be read" as one more input.
* Numbers: GMP floats are exact fractions in `Coverage`; the density of `CubeEnumeration` is a
  count of patterns. Rounding to the digits of the CSV is modelled (`Scale`).
* The inside of the SAT solver, of the BDD package and of GMP; memory inside a process,
  including the allocation wrappers, whose failure ends the process.
* The capacity of XID's queues (`xid_adapter.c` 20): a queue holds as many nets as the circuit
  has. In every run the longest one stays below half of that, and overflow would end the
  process with a message; small circuits say nothing about the margin on large ones.
* A kill between emptying and rewriting the marker (`cube_text.c` 130) is modelled, but no
  property forbids what follows, see AnalysisRun.
* `scripts/run.sh`, `CMakeLists.txt` and the tests, which hold no state of the program.

`PROJECT.json` gives the status per component.
