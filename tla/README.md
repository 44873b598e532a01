# TLA+ models and proofs for VLSI-CAD

The repository is a collection of small EDA programs: a technology mapper and a
tautology checker (`src/`), a static timer and an RC-tree delay calculator
(`exercise2-prop/`, `exercise1-rc/`), a sequence-pair floorplanner and the frame
of a partitioner (`hw2_pnr/`), and two test scripts (`unittest/`). This
directory holds TLA+ modules for them, the TLC configurations that check the
modules on small instances, and TLAPS proofs of what holds for every input.
Paths below are relative to the repository's root, which `PROJECT.json` calls
`src/`.

## Inventory

All programs are sequential: one thread, no persistent state, no messages.
What makes them hard is state shared by pointer, recursion with memo tables over
a DAG, the order in which nodes are visited, values computed at one time and
used at another, a parser that backtracks, and arithmetic at its limits.

| Component | State | Operations | Hard part | What makes it correct |
|---|---|---|---|---|
| `Blif2DAGReader` (`src/techmap_main.cpp` 11-87) | `name2node_`, `model_node_`, `leaves_`, the nodes' sources, covers and fan-out counts | `on_model`, `on_input`, `on_output`, `on_gate`, called by the external parser | order of the calls, names that clash, nodes nothing drives | the signals' functions are those of the file; fan-out counts the uses by gates |
| Mapper, `DFS` and `transferState` (89-371, `techmap_node.*`) | two `DpState` references per node, the heap of `DpState` objects, the call stack | one call of `DFS` per node, with five kinds of node | placeholders visible while callees run, states shared and rebound, covers that absorb other gates, costs that double per level | each state computes its node or its complement |
| Mapper, `main` and `DpStateTraveler` (373-485) | call stack of `travel`, `visited` flags, the text | header, `travel`, end | shared states, names, unmapped inputs | the text read back is the circuit that was read; one driver per net, before its use |
| Tautology checker (`sop*`, `bdd*`, `tautology_main.cpp`) | cubes, BDD nodes, visited flags, call stack of `OR` | parse, one BDD per cube, `OR`, `travelBDD` | shared nodes, short cubes, empty files | the answer equals `groundTruth` |
| Timer (`exercise2-prop/src`) | name table, edges, arrival times, slacks | `read_delay`, `read_clock_at`, `compute_slack` | topological order by counters, inputs declared twice or never | arrival times are extreme path sums, slacks the worst pairs |
| RC tree (`exercise1-rc/src`) | nodes, directed edges, five figures per node | `read`, four recursive passes | parallel edges and circles | first and second moments of the network |
| Sequence pair (`hw2_pnr/sequencepair/src`) | constraint edges, in-degrees, positions | `construct`, `floorplan` | worklist order: a max-heap where a topological order is needed | no two modules overlap; positions are longest paths |
| Partitioner (`hw2_pnr/partition`) | file name, hypergraph | command line, `parse_input`, `run` (empty), `print_result` | errors ignored, numbers cut by hand, `blockNodeNum` never filled | the name follows its flag; the hypergraph's two tables agree |
| clipp (`hw2_pnr/partition/thirdparty`) | the walk over the groups, missing parameters, mappings | combining parameters, parsing, executing actions | undo, blocking parameters, alternatives, repeatable groups | the errors reported are those of the grammar |
| `equivalence_test.py` | representative per file `pa` | merging by pairs | order of the pairs, undecided pairs | the classes of the solver's relation |
| Stopwatch (`src/utils/stopwatch.hpp`) | laps | `start`, `lap`, `elapsed`, `elapsed_lap` | unsigned bound | laps add up |

The reader hands the DAG to `DFS` through `model_node_` and `leaves_`; `DFS`
leaves its result in the nodes' `dp_state` and returns the model's `DpState`,
from which `main` prints. The partitioner's `main` takes its file name from the
actions clipp executes. The other programs are independent of each other; the
test scripts run the mapper and an external solver as processes.

## Modules

| Module | Models | Remarks |
|---|---|---|
| `Cells` | library cells, one-row covers, the switch of `transferState`, `isAOI21/12/22` | constant level |
| `Netlist` | what the reader hands to the mapper: `WellFormed`, `Uses` | constant level; promised by `BlifReader`, assumed by `TechMap` |
| `BlifReader` | `Blif2DAGReader` | the parser that calls it is external |
| `TechMap` | `DFS`, `transferState`, `releaseState`, `update` | the state machine of the dynamic programming |
| `Emitter` | `main` after `DFS`, `DpStateTraveler::travel` | EXTENDS `TechMap`, so a behaviour runs from the call of `DFS` to `.end` |
| `MappedCircuit` | nothing of the code: what the mapper promises | implemented by `Emitter` (`PrintsWhatItRead`, `PrintsInTheEnd`) |
| `Tautology` | `parseFromFile`, `genFromSop`, `OR`, `travelBDD`, `main`; `groundTruth` as the judge | |
| `Timer` | `read_delay`, `read_clock_at`, `compute_slack` | |
| `RcTree` | `Rct::read` and the four passes of `update_rc_timing` | |
| `SequencePair` | `ConstraintGraph::construct` and `floorplan` | |
| `EquivalenceClasses` | `equivalence_test.py` | the solver is external |
| `CliGroup`, `CliTraverser`, `CliParser` | clipp: parameters and groups; the depth-first walk; parser and result | one layer each |
| `Partition` | `main`, `parse_input`, `HyperGraph`, `print_result` | EXTENDS `CliParser`: the composition of both |
| `MCNetlists`, `MCEmitter`, `MCBlifReader`, `MCTautology`, `MCTimer`, `MCRcTree`, `MCSequencePair`, `MCEquivalenceClasses`, `MCPartition` | the families of inputs for TLC | |
| `TechMapProofs`, `EmitterProofs` | theorems about the mapper: the recursion and what it leaves on the heap; the printing | `EmitterProofs` EXTENDS `TechMapProofs` |
| `BlifReaderProofs`, `SequencePairProofs`, `EquivalenceClassesProofs`, `TimerProofs`, `RcTreeProofs`, `TautologyProofs` | theorems about the other components | |

### BlifReader

`file` is the file as the parser sees it: `decls`, the declarations in order,
and for every signal that a `.names` block drives the signals it `reads` and its
one `row`. What the signals compute (`fn`) and an order of the blocks (`rank`) are
for the specification only. `name2node`, `leaves` and `model` are the members of
`Blif2DAGReader`; `nodes` is the memory, a node being its place in the sequence.

Each callback is one action. The parser is modelled by the order of its calls:
declarations as in the file (`Reports`), then each block once the signals it
reads are known (`Reportable`), in every order that allows. `pos` and `read` are
how far it has come. `Return` is `read_blif` returning.

`LegalFile` is what BLIF and the assertions of `on_gate` ask of a file.
`DistinctNames` is what the reader needs besides: every input and output is
declared once, and no signal between blocks has the model's name. Files without
it are legal. `reader_feedthrough` shows what becomes of one that has an output
among its inputs. When a signal between two blocks is called like the model,
`on_gate` (line 41) finds the model's own node under its name, and the gate's
inputs become outputs of the netlist.

`ReadsTheFile` says that the result is what `TechMap` takes for granted,
`Netlist!WellFormed` with the functions of the file. `BlifReader` and `TechMap`
are not run as one state machine: `DFS` is called when `read_blif` has
returned, and all that passes between them is that netlist.

### TechMap

`dag` is what the reader left: `leaf` (the inputs), `src` (sources, the
model's being the outputs), `gate` (the one cover row), and, for the
specification only, `fn` (what each node computes) and `rank` (an order showing
that there is no cycle). `dp[n][v]` is `Node::dp_state`, a reference; `heap` is
the memory, indexed by `Id = <<node, pass, kind>>`: the code allocates at most
one object of each kind in each pass of a node, so the triple serves as address.
`stack` is the call stack of `DFS`.

A call of `DFS` is split where the code can be observed half-way, at the calls
it makes itself. `Enter` is lines 281-297 (memo test, placeholders, the frame);
the `Finish...` actions are the rest of each branch, taken when every source has
been mapped. In a branch all recursive calls into nodes without states happen
before anything else is assigned (the switch of `transferState` maps both
sources, and an absorbed gate's sources are mapped by then), so nothing is lost
by computing the rest in one step. `Enter` keeps the order of the calls: the
first source without states.

A `DpState` has a field `fn` the code does not have: the function it drives,
computed from its sons when it is built and never afterwards. `NetworkConsistent`
checks that it stays what the cell drives from its sons *as they are later*,
which is what a reader of the printed netlist will see.

Costs are `long double`, depths `int64_t`. `CostMax` stands for the largest long
double, `HalfUlp` for the distance at which a sum rounds to infinity, `DepthMax`
for the largest int64_t; depths wrap. Rounding of sums below the maximum is left
out: it can change which of two nearly equal covers wins, and no property
depends on that.

A name is a pair of a node and the suffix or prefix the code adds. Distinct
pairs can be equal strings when a signal of the user's is called like a
generated name; that hazard is listed and not modelled.

### Emitter

`frames` is the call stack of `travel`: the state and the index of its next son.
The bottom frame is `main`'s own loop over the outputs. `visited` is the flag of
the `DpState` objects. `SkipSon` is a call that returns at once, `TravelSon` one
that descends, `PrintBlock` prints the block and returns. `Crash` is the read of
an input's name through a null `DpState` (line 466).

`Carried` reads the printed blocks back by name, in order, knowing nothing of
the heap: block by block (`Read`) it collects the names that carry a 1 under an
input assignment. `PrintedCircuit` is what the outputs compute. `PrintsWhatItRead` is the
refinement of `MappedCircuit`: at the end, in one step, the printed circuit is
the circuit that was read; before, nothing has been promised.

### Tautology

`file` is the text as lines of words. `BeginLine`, `ReadWord` and `EndLine` are
the two loops of `parseFromFile`; a word it does not support is dropped but
counted, so `vars_num` can exceed the length of the first cube as well as that of
others. `genFromSop` (`BeginTerm` to `EndTerm`) builds a cube's BDD from the last
variable up; `ThrowShort` is the exception of `term.at`. `heap` holds the nodes;
the field `fn` is what a node computes, fixed when it is made, and exists for the
properties. `stack` is the call stack of `OR`: a frame holds the caller's array
(after erasing FALSE leaves, the places left of it), the variable chosen and,
once known, the true son. `Split` makes the first of the two recursive calls,
`OtherBranch` the second, `Join` allocates the result. `todo` is what is left of
`travelBDD`'s recursion: `&&` makes a call that returns false end all the calls
before it, so the first FALSE leaf is the answer (`FindFalse`).

`groundTruth`, which `main` no longer calls, is not a step: it is the definition
`GroundTruth` that `AnswersGroundTruth` compares the answer with.

### Timer

`file` is the pair of input files, as sequences of lines. `name2id` is a
bijection, so names serve as node ids. Reading takes one action per line; `Seed`,
`Pop`, `Relax`, `SetupSlack` and `HoldSlack` are one round each of the loops of
`compute_slack`. Times are integers and the largest double is `Far`, which a
delay does not move; the rounding of doubles, and of the floats the delays pass
through, is left out. `clock_period` starts as any member of `Garbage`.

`Ordinary` files give every input one `at` line and have no edge into an input.
The properties about times are about those; `TypeOK` and `Ends` are about all.

### RcTree

Each net's figures (`load`, `delay`, `ldelay`, `beta`, `impulse`) are one
function per field. The four recursive passes differ in what they do on the way
down and up, so one call stack serves them all and `pass` says which is running;
`Frame` keeps the node, its parent and the numbers of the edges left, which are taken
in order. `MaxDepth` is the machine's stack: `Exhaust` is the recursion that a circle
of resistors never ends. `CallsStayInTree` says that nothing else exhausts a stack
with room for the nodes the root reaches. Any sequence of nets is a file
(`RcTreeAssumption`). What a network is (`Reached`, `IsTree`, `Behind`, `Moment`) is
defined of the record `read` builds, without the variables.
`MomentsOfTrees` compares the figures with the moments of the network, each a sum
over the resistors that lie before a node (`Moment`), which knows nothing of the
recursion.

### SequencePair

`problem` is what `parser` read, `right` and `above` the out-edges `construct`
adds, `que` the priority queue, a bag of pairs of a distance and a module, for
equal pairs can be in it. A step takes the greatest pair (`Greatest`, the order of
`std::pair`) and does one round of the loop: `SkipVisited` and
`PlaceHorizontally` are the two ways through lines 40-48, `PlaceVertically` is
lines 59-66, where `visited` is set and never read.

`TouchesLeft` and `RestsOnBelow` are what the passes do achieve: no module floats,
it touches one that must be left of it or below it. `Apart`, that no two modules
overlap, they do not.

### EquivalenceClasses

`listing` is the directory in the order `os.listdir` yields it, a file being the
number in its name and a circuit, which is its function. Two files of one number
are one key. The solver's verdict is external (`Verdicts`): circuits that differ
are never called equivalent, and a pair of equal circuits may be left undecided unless
`complete`. Its failure (`RaiseProcessError`) and a name without a number
(`RaiseValueError`) end the script.

### CliGroup, CliTraverser, CliParser

The partitioner reads its command line with clipp, a header of 7,000 lines; the
part a command line passes through is modelled. `CliGroup` has the parameters,
the operators that combine them (`And`, `Or`, `Comma`, for `&`, `|` and `,`, with
the flattening and merging they do) and the steps of the depth-first walk. A place
in the walk is the sequence of pairs of a group and a child's number.
`CliTraverser` adds the memory of the walk: the last match, the scopes to return
to, blocking. `CliParser` adds the parser object (the missing candidates, the
mappings with their errors, the splitting of joined arguments) and
`parsing_result`, which executes the actions.

An argument is the sequence of its pieces: a flag or a text. A flag is one piece,
and no flag begins another. Joinable groups, greedy parameters, custom matchers,
event handlers and documentation strings are left out; nothing in the repository
uses them. Parsing one argument is one action, for it ends before anything can be
observed; within it the code's backtracking is a recursive operator per function.

The model of the three modules has been compared with the compiled header on 16,132
command lines of interfaces like those of `MCPartition`: the results were identical.

`ErrorsFollowGrammar` judges the errors by what an interface means: the command
lines it generates. `NothingDropped` says that every argument is mapped or
reported. Neither holds of every interface that can be built. Two things seen
with the compiled header, kept out of the interfaces that are checked:

* `(option("-v"), repeatable(required("-p") & value))` given `-p -v -v`: arguments
  are dropped without a mapping and without an error;
* required members of a repeatable group can be reported missing although every
  round has them, and an optional sequence inside alternatives counts as required.

### Partition

`Partition` is the whole program: `Parse` is clipp's parsing, then `main` opens the
file named by the last executed action (`Given`), whatever clipp reported.
`ReadHeader` is the extraction of the two numbers: a word that is no number leaves 0,
the end of the text, an unopened file or a stream that has failed leaves the garbage
that was there (`Extracted`). `ReadNet` is one line of `parse_input`, a digit, a blank
or another character at a time; a number is put into the net and into its node in two
places, at a blank (`EndNumber`) and at the end of the line (`EndLine`), and both
are modelled, so that they could disagree. A number out of range is undefined behaviour, and so is
`print_result`, always: it reads `blockNodeNum[0]`, which `run` (an empty TODO)
never fills. Header lines with more than two numbers are left out.

## Runs

| Run | Instance | Question |
|---|---|---|
| `reader_ordinary` | files with two inputs, two blocks (constants, buffers, inverters, two-input rows) and one or two outputs, declarations and blocks in every order, the model called like an output or not | the file's netlist is handed on, fan-out counts, no stale nodes |
| `reader_feedthrough` | an input that is an output | violation, below |
| `mapper_two_inputs` | every netlist of one or two gates over two inputs, any covers and wiring, and chains of three gates with shared and absorbed nodes, from `DFS` to `.end` or the crash | equivalence, consistency of the heap, no half-built sons, each node mapped once, drivers and their order, when `main` crashes, which gates are swallowed, the promise |
| `mapper_joined` | two gates over four inputs joined by a third, all 512 choices of covers | equivalence when AOI21, AOI12 and AOI22 compete, the report is true |
| `mapper_ends` | two gates, the first also an output | `DFS` returns and the program ends having printed the circuit it read |
| `tautology` | up to three cubes over two variables, two and four over three, and files with short, long, empty and unreadable cubes | ordered BDDs, every call of `OR`, the answer, who crashes, the end |
| `timer` | four places for edges, each empty, fast or slow, and a cycle, an edge into an input or a parallel edge; four timing files | times final when taken, extreme path sums, worst slacks, the end |
| `rc_tree` | every tree of four nodes, each resistor listed three ways, followed by a second net of seven kinds | moments of trees, the stack stays within a tree, the end |
| `sequence_pair_squares` | every sequence pair of four squares of size 1 or 3 | no floating module in either pass, both passes end |
| `sequence_pair_overlap` | three squares | violation, below |
| `equivalence_classes` | up to three files with any numbers and circuits, four equivalent ones in every order, a name without a number | the sets are the classes; nothing that differs is mixed |
| `partition` | `main` with every command line of up to three arguments and 90 texts, and seven other interfaces with up to four arguments | clipp's errors are the grammar's, nothing dropped, the name follows its flag, the tables agree |

Bounds.

* Reader: the callbacks look up and add single names; two blocks, one reading the
  other or not, one or both outputs, show every order of definition, declaration
  and use that the parser allows.
* Mapper: a cover sees its gate and the gates directly below it, at most seven
  nodes with the four inputs of AOI22; with a shared node above or below, three
  gates in a chain show every case the code distinguishes (`num_fan_out` 0, 1 and
  more, leaf or not, number of sources). All covers are enumerated, and `fn`
  compares all input assignments, so equivalence is decided exactly. `CostMax =
  1000` is not reached in these runs; that the mapping is right up to the first
  overflow is proved for every limit.
* Tautology: with three variables and four cubes `OR` recurses three levels deep,
  with arrays that lose and keep members, a first variable that only some of them
  test, and results that share nodes.
* Timer: two inputs and two nodes behind them give reconvergence, a node that a
  missing time never reaches and a cycle behind it; two delays per edge that differ
  in both extremes tell paths apart.
* RC tree: four nodes are all the shapes of a chain, a star and a mixture; the
  second net adds a branch, a circle, a parallel edge or another root to the first.
  `MaxDepth = 8` is twice the nodes, so only a circle reaches it.
* Floorplanner: the two passes read different sizes of a module and do not meet,
  so squares show all that rectangles do; with four modules a module has up to
  three predecessors and is reached along paths of different lengths.
* Equivalence classes: with four files a representative can be replaced twice.
* Partition: four arguments suffice to leave a group, come back to it, be blocked
  and repeat a flag. `MaxUninitialized = 2` bounds what an uninitialized int holds
  (nodes and nets); larger values repeat the same loop.

The inputs are all initial states, so no symmetry is declared. Deadlock is checked
in every run but `partition`; the only states without a step of the program are
those in which it has returned, crashed or ended (`Returned`, `Stopped`, `Return`,
`Written`). `Partition` has no such action: the program stops in "undefined", where
the language says nothing of what follows, or, with another interface than
`main`'s, when clipp has parsed.

Fairness. The programs are sequential: as long as a step of `DFS`, `floorplan`,
`compute_slack` or `main` is possible, the processor takes it. That is weak fairness
of the next-state relation, and nothing more is assumed.

## What the runs found

Two runs expect a violation:

* `reader_feedthrough`: `on_output` makes a new node for an output that is an
  input as well. Nothing drives that node, so the mapper takes it for a constant.
* `sequence_pair_overlap`: three modules in a row are enough for two of them to
  get the same x. The max-heap hands out the farthest entry first, so a module
  is fixed before all its predecessors are; the vertical pass moves a module
  with every entry, but the last need not be the largest. The comment at
  `ConstraintGraph.cc` 21 also has the vertical edges the other way round (B
  below A) than lines 22-23 and the pass use them, so the floorplan is the mirror
  image of the one the comment describes.

Other properties are stated the way they are because the code does less than one
might expect:

* An input that no output depends on is never mapped, and `main` reads its name
  through null: `CrashesOnUnusedInput` says exactly when.
* `doc/hw1.md` 86 says a gate inside an AOI cell has fan-out 1, so that nothing is
  printed twice. Fan-out does not show every use (`AbsorbedOnlyIfRead` says which
  there are). An output counts as none, so an output can be absorbed, and is printed
  as well. The two states of a gate choose apart, so that one absorbs a gate and the
  other reads it. And in a chain q, p, m of which p and m are outputs, p's block
  absorbs q, m's block absorbs p and reads q: q is printed although it is no output.
* When a cost passes the largest long double the placeholder is never replaced,
  and `travel` prints it as a block of type `[UNKNOWN CELL TYPE]`. A chain of about
  16,400 gates that use the previous gate twice is enough.
  `EquivalentStates` holds up to there.
* `doc/hw1.md` 81 (two INVs never meet in the solution) is not true of the code:
  line 367 makes the inverted state an INV on `ori_state` always, and that may
  itself be an INV. The circuit is right, one cell larger.
* An output that no block drives stays a gate without sources whose covers are 0,
  and is silently the constant 0; `LegalFile` excludes it.
* `doc/hw1.md` 18 calls a circuit whose output is constantly false a tautology and
  looks for a path to a true leaf; `travelBDD` and `groundTruth` answer Yes when the
  output is constantly true.
* A short cube, or a file without cubes, terminates the tautology checker
  (`CrashesOnBadFiles`).
* An input with two `at` lines is propagated twice, and counts down the nodes behind
  it twice: one of them can be taken before all that leads to it. `NeverRevised`,
  `ArrivalsAreExtremes` and `SlackIsWorst` are about ordinary files; of the others only
  `Ends` is checked.
* If the solver gives up on a pair, a file can be missing from all sets that
  `equivalence_test.py` prints (`NeverMixed` says what remains).

## Proofs

No proof rests on more than the named assumptions of the constants. The temporal
theorems are `Spec => []P` or `Spec => [][A]_vars`; each comes from an inductive
invariant `IInv` with one lemma per action.

### BlifReaderProofs

For every set of legal files of any size with `DistinctNames` (`FilesAssumption`,
`NoNodeAssumption`) and every order of calls:

    ReaderInvariance   Spec => []IInv
    ReaderTypeCorrect  Spec => []TypeOK
    ReaderNoStaleNode  Spec => []NoStaleNode
    ReaderCorrect      Spec => []ReadsTheFile
    ReaderCounts       Spec => []FanOutCounts

`ReadsTheFile` speaks of the end only. Its `IInv` says what holds on the way:
a name stands for the node that bears it, the model's apart (`NamesMatch`); the
first nodes are the declarations' in the order of the file, the others belong to
blocks already read (`DeclNodes`); `leaves` and the model's sources are the
inputs and outputs so far, in order (`InOrder`); a signal whose block has been
read has a node, and so had those the block reads (`KnownNodes`); a node has its
block's sources and row once that has been read, and none before (`Blocks`).
`DistinctNames` is used where a block's name is looked up: the node found is
then that of the output declared so, never the model's, and no later
declaration takes a name from a node. At the end every block has been read, so
sources and rows are the file's, and the file's `rank` orders the nodes.

`ReaderCounts` is about the counters that decide at mapping time whether a gate may
be absorbed. A use of a node is a pair of a gate and one of its places. A declaration
adds a node that nobody uses, a block adds its own places, and since its node had no
sources before, these are new.

`ReaderCorrect` and `NetlistsAssumption` of `TechMap` meet in
`Netlist!WellFormed`: `MappingCorrect` holds of every netlist the reader delivers.

### TechMapProofs

`BaseCoverCorrect` (the switch of `transferState` is right for the eight covers and
both passes) and `AOI21Unique`, `AOI12Unique`, `AOI22Unique` (at most one choice of
inverted inputs matches, so the model's choice is the code's loop) are about the
cells alone. For every set of well-formed netlists of any finite size and all limits
(`ConstantsAssumption`, `NetlistsAssumption`):

    Invariance      Spec => []IInv
    TypeCorrect     Spec => []TypeOK
    NoHalfBuilt     Spec => []NoHalfBuiltSons
    MappingCorrect  Spec => []EquivalentStates

`EquivalentStates` is not inductive. Why it holds: when a gate is finished its
sources have been finished, so their states are right (induction along the DAG,
which is what the order of calls provides), and a cover computes the gate from
right states (`BaseCoverCorrect`, the definition of the AOI tests). That needs
to be said of a state in the middle of the recursion. `IInv` is the conjunction
of `TypeOK`, `NoHalfBuiltSons`, `EquivalentStates` and

* `StackDescends`: the nodes on the stack have states and descend strictly in
  `rank`, so no node is on it twice, and a source that has states when its user
  runs is not on the stack: its call has returned;
* `SourcesFinished`: the sources of a finished node are finished, so an absorbed
  gate's sources have states when `transferState` looks through the gate;
* `Untouched`: a node whose call has not returned has nothing in the heap but its
  two placeholders, so whatever its own call allocates is new.

The lemmas of the gates share `FinishPreserves`, which reduces the step to what
the new states of one node are. `FinishBinary` needs that whichever of five
candidates `Winner` selects is either correct or the placeholder, and that the
placeholder is selected only when no candidate's cost is below `CostMax`.

In the same module, about the heap and under the same assumptions:

    HeapInvariance          Spec => []HeapInv
    MappedOnceHolds         Spec => MappedOnce
    NetworkStaysConsistent  Spec => []NetworkConsistent

`HeapInv` adds to `IInv` what a finished node has on the heap, as a function of the
node alone:

* `Shape`: which address holds which cell over which sons, for each kind of node and,
  for a gate, for each of the covers that may have won;
* `Named`: a state has the name its place gives it, or the node's own name if it is
  the output's first state;
* `UpToDate`: calling `update` once more would change nothing, so cost, depth and
  `fn` are those of the sons as they are now.

A step keeps this because it writes its own node's addresses only (`FinishWritesOwn`)
and the sons of a finished state belong to finished nodes, or to the node itself. The
exception is the renaming of outputs when the model's call ends, and a name takes no
part in `update`. `NetworkConsistent` follows from `UpToDate`; it is not inductive by
itself, as it does not say what is shared with whom.

### EmitterProofs

    MainMaps              MainSpec => Spec
    PrintInvariance       MainSpec => []PrintInv
    NetsAreDriven         MainSpec => []DrivenBeforeUse
    CrashesExplained      MainSpec => []CrashesOnUnusedInput
    BlocksHaveCells       MainSpec => [](Overflowed \/ EmitterTypeOK)
    DriversAreUnique      MainSpec => [](Saturated \/ UniqueDrivers)
    SwallowedGates        MainSpec => [](Saturated \/ AbsorbedOnlyIfRead)
    MapperKeepsItsPromise MainSpec /\ []~Saturated => PrintsWhatItRead
    ReportHolds           MainSpec => [](OutOfRange \/ ReportIsTrue)

`Overflowed` is that a placeholder was left in place, `Saturated` that the cost of a
state with a cell has reached the largest long double; the first implies the second
(`OverflowSaturates`). Both exist: see below the chain of 16,400 gates. Beyond that
limit costs no longer compare, one pass may take the cover of the other, and the text
can be wrong, so the last five theorems end there. `OutOfRange` adds two ends of the
same kind for the two figures that `main` reports: the depth of a cell has wrapped
around past the largest `int64_t` (`Wrapped`), or the model's own cost, a sum over the
outputs, has reached the largest long double. TLC never gets near either limit.

`PrintInv` is `HeapInv` with: the header is printed from the states as they are
(`PhaseInv`); the active calls of `travel` go strictly down in (`rank`, place within
the node), and each has visited the sons before its index (`FramesInv`); a visited
state is an input, is on the stack or has been printed, and has a user that is
visited (`VisitedInv`); every block is that of a state that has been left, with its
sons printed before it (`OssInv`). Strict descent is why the flag may be set before
the sons are travelled: a state found visited but not printed would be on the stack
above, and no state is below itself (`LowerOffFrames`).

Drivers are unique because a name tells the address (`SameName`): within a pass the
tags differ by kind of place, and the passes share a tag only where
`BasesNotBothUsed` shows that one of the two states is not reached. That is where
costs matter: unless one is saturated, the base covers of the two passes that share
a cell are not both travelled, for an inverter on the complement's would have won.

A gate that can be absorbed is a source of one gate in one place (`OneUse`; this is
the only theorem here that needs the netlist to be finite, for a cardinality to mean
something). If it is printed, some printed state of another node, or the model, has
a state of it as a son (`UserElsewhere`, climbing from user to user inside the node).
Such a son belongs to a source or, inside an AOI cell, to a source of a source
(`SonsElsewhere`); with one use, that leaves the cases the property lists.

The refinement has two halves. Until the end `MappedCircuit` does not move, and the
names the outputs have been given are their own (`OutputsNamed`). At the end, by
induction over the blocks, the names `Carried` collects are those of the states that
are 1 under the input (`ReadRight`): `DrivenBeforeUse` says what a block's inputs are,
`DriversAreUnique` that no later block changes them, `UpToDate` that the cell computes
`fn`, and `EquivalentStates` that the output's `fn` is the node's function. The
induction is over the sets of numbers for which it holds (`NumberInduction`, from the
least element of a set of numbers), since the theorems of the library for induction
take an operator.

`ReportHolds` is about two figures that the recursion computed long before the text
was printed. As long as nothing leaves its range, the cost of a travelled state is the
sum of its sons' and 1, and its depth the greatest of theirs and 1 (`ExactFigures`);
the model's are set once, when its call returns (`MainFigures`, `SumsExact`).

* Cost: `Budget` says that the blocks printed so far and what the active calls of
  `travel` still have to print (`Left`, added up along the stack by `Pending`) are
  together at most the model's cost. A printed block takes the 1 of its state, a call
  takes what its caller set aside for that son, and a son that is skipped, because it
  has been printed, is an input or is there twice, only leaves less to do. This is why
  the cost is a bound and no more: shared cells are counted once per use.
* Depth: after each block the level of its net, computed from the levels of the nets
  it reads, is the depth of the state printed (`BlockPlaced`, `PlacedToTheEnd`, by
  `NumberInduction` over the blocks). `DriversAreUnique` is needed here too: a second
  block for one name would give it another level.

### SequencePairProofs

For any number of modules, all sequence pairs and all positive sizes
(`NAssumption`, `ProblemsAssumption`):

    FloorplanInvariance    Spec => []IInv
    FloorplanTypeCorrect   Spec => []TypeOK
    FloorplanTouchesLeft   Spec => []TouchesLeft
    FloorplanRestsOnBelow  Spec => []RestsOnBelow

Horizontally a module that is placed stays, so every entry of the queue keeps
naming a place next to the module that pushed it. Vertically modules move, and
an entry pushed by w would be wrong if w moved before it is taken. It does not:
an entry pushed by w is larger than any entry but those behind w (`Behind`),
and what stands behind w pushes only modules behind w, the graphs being
transitive (`GraphsAreOrders`); so until all that w pushed is taken, nothing else
is. That needs positive sizes. Every module is placed, since one that is not
waits for an entry or for another that is not (`Waiting`), and among those there
would be a first in `pos` (`SomeFirst`).

### TautologyProofs

For every set of files, without any assumption:

    TautologyInvariance   Spec => []IInv
    TautologyTypeCorrect  Spec => []TypeOK
    TautologyOrdered      Spec => []Ordered
    OrCorrect             Spec => []ReturnsDisjunction
    CrashesCorrect        Spec => []CrashesOnBadFiles
    TautologyCorrect      Spec => []AnswersGroundTruth

What is said of nodes and calls is said by constant operators of the heap and the
stack, so that the lemmas about them mention no step. The invariant:

* `HeapOK`: a node computes the Shannon choice between its sons, whose variables
  come after its own, and so does not depend on the variables before its own; a leaf
  is constant. New nodes disturb nothing, for references go back only.
* `TermOK` and `GenOK`: the BDD under construction is the conjunction of the
  literals passed, from the last column down; each BDD in `bdds` is that of its cube.
* `OrOK`: every call on the stack of `OR` waits for what its caller needs: the
  call in front of it works on the cofactors of the caller's array for the branch the
  caller is in, and the bottom one on `bdds`. With a result, `Join` closes a caller
  by the Shannon lemma: if the two sons are the disjunctions of the two cofactors,
  the node is the disjunction of the array, since no member depends on a variable
  before the chosen one.
* `TravelOK`: call a node open if it is not constantly true (`Open`). If the root is
  open, some node in `todo` is, and for every visited node that is open there is a
  smaller open one in `todo`. So a visited node can be passed by: it is not the only
  hope of finding a FALSE leaf. An empty list means that the root is not open; and a
  FALSE leaf is open, as is then the root. A node is open exactly if a son is
  (`OpenSons`), for in an ordered BDD every path is an input.

### TimerProofs

For timing graphs of any size (`TimerAssumption`):

    TimerInvariance    Spec => []IInv
    TimerTypeCorrect   Spec => []TypeOK
    ArrivalsAreFinal   Spec => NeverRevised
    ArrivalInvariance  Spec => []AInv
    ArrivalsCorrect    Spec => [](TooFar \/ ArrivalsAreExtremes)
    SlackInvariance    Spec => []SInv
    SlackCorrect       Spec => [](TooFar \/ SlackIsWorst)

`TypeOK` is about every file, and is where the sizes of the tables matter: names
that only the timing file mentions have nodes too. For `Ordinary` files a counter
is the number of edges into its node still to be relaxed (`Counted`), so a node is
queued with the last of them, once, and none is left when it is taken (`Settled`):
no step that relaxes an edge reaches a node taken before.

`TooFar` is that the sum of delays over some path reaches the largest double. The
code takes that number for no arrival time, so the last two theorems end there. The
graph may have cycles: their nodes are not determined, and are never taken, but
receive times over the edges that lead into them.

`AInv` is the argument for the times, per edge rather than per node. A time that has
arrived is the sum over a path (`TimesOfPaths`), and for every edge relaxed so far
the times of its target count every path to its start (`EdgesCount`), so the times
of a node with no edge left are the extremes (`Final`); this is what makes adding a
delay to them right. The queue holds determined nodes only (`OnlyDetermined`), and a
node with no edge left is not forgotten (`NoneForgotten`); hence, once the queue is
empty, the nodes taken are closed under the step that defines `Determined`, which is
the least such set (`DeterminedFacts`).

Both `Determined` and the set of paths are defined by a recursion that is stopped
after as many steps as there are nodes. That this is enough is `ReachStops` (a step
that adds nothing is followed by none that does, and a step that adds something adds
a node) and `PathFacts` (a path is collected in as many steps as its end is away,
since no edge leads into an input). `Recursion` shows that a recursion over the
natural numbers whose step is a function has a solution, by induction over the sets
of numbers for which a claim holds (`NumberInduction`).

`SInv` says that each slack is the least over the constraints it has been compared
with, and the period that of the last clock line read. `DifferenceIsWorst` is why one
subtraction per constraint is enough: the difference of two extremes is the worst
over the pairs, and is `Far` exactly when one of the two nodes has no path.

### RcTreeProofs

For files of any number of nets of any size and shape, with any integers for the
values, and any depth of the machine's stack (`RcTreeAssumption`):

    RcTreeInvariance    Spec => []RcTreeInv
    RcTreeTypeCorrect   Spec => []TypeOK
    FiguresAreMoments   Spec => []MomentsOfTrees
    OnlyCirclesExhaust  Spec => []CallsStayInTree

`MomentsOfTrees` speaks of trees as graphs: the nodes that an edge cuts off from the
root, and sums over the edges that cut a node off. The first part of the module joins
that to the order in which a recursion sees a tree. `Connected` is the least set that
holds the root and is closed under edges (`ConnectedFacts`), so an edge of a tree has
one end that stays connected without it (`OneEnd`), and `Down` directs it. From that:
the parts behind two edges out of a node are disjoint (`PartsAreDisjoint`), together
with the node they are what lies under it (`PartsMakeWhole`), one edge only leads down
into a node (`OneWayIn`), and the way to an edge's end is the way to its start and the
edge (`WayGrows`). `SumFunctionOnSet` is a recursion over a set in no particular order;
`SumUnfolds` gets its step from tables of its partial sums, and `SumOfOneMore` and
`SumOfBoth` are what is used of it. `MomentGrows` is then what `Assigned` computes:
a moment at the end of an edge is that at its start and the resistance times what lies
behind.

The second part is about the calls. Each is under the part of the one that made it
(`CallsNest`), so no two are of one node (`CallsDiffer`), and if the stack is full the
root reaches more nodes than it has room for. `DoneAt` is the part of a call's node it
has returned from and `Seen` the nodes on the stack or in such a part. A step between
edges changes neither, a call adds one node to `Seen`, a return moves a whole part into
the `DoneAt` of the caller.

`RcTreeInv` adds to `TypeOK`:

* `Shape`: the net being computed has been taken from `waiting`, and its calls start at
  its root;
* `Working`: if that net is a tree, its `Progress` in the pass that runs. On the passes
  that add up (`load`, `ldelay`), a call's sum is the total over `DoneAt` and a node
  that has returned has the total of its part (`SumsUp`); on those that go down (`delay`,
  `beta`), the nodes in `Seen` have their moments (`MomentsSeen`). What the passes before
  have computed is complete and what later ones will is still zero;
* `Others`: any other net has its zeros if it is waiting; if it is not, and is a tree, it
  has all its figures (`Figured`), which are its moments (`FiguredIs`);
* `Exhausted`: the first part of `CallsStayInTree`.

The zeros are needed for the nodes no pass assigns to: the root, whose delay and beta
are those the constructor left, and the nodes it does not reach.

### EquivalenceClassesProofs

For every set of directories, in every order of listing:

    EquivalenceClassesInvariance  Spec => []IInv
    PrintedSetsAreClasses         Spec => []SetsAreClasses
    SetsNeverMix                  Spec => []NeverMixed

A representative is equivalent to its file and never a larger number
(`Represents`), which is all that `NeverMixed` needs. For the classes: when the row
of the least member m of a class is reached, every comparison with m gives the other
file m's representative, which is m itself, nothing in the class being smaller;
after that row all members have m, and whatever is copied between them is m
(`Gathered`). Before that row a representative may grow again.

## Checked only by TLC

* Clipp and the partitioner, whose models are made of recursive operators: the prover
  has no use of those.
* All liveness properties (`PrintsInTheEnd`, `Ends`, `EndsUnlessCircle`).

## Not modelled

* `techmap_test.py` and its directory of files: it runs the mapper and the solver on
  each file and asserts; it has no state. What it asserts is `PrintsWhatItRead`.
* Stopwatch: a list of time points and differences of neighbours. The programs call
  `start` and `elapsed` only; nothing calls `lap` or `elapsed_lap`.
* Wirelength models BiG and LSE: numerical gradients and exponentials of floating
  point positions, no control to speak of.
* lorina, ABC, glog, googletest: external; lorina's order of calls and the solver's
  verdict are modelled where the code depends on them.
* Of clipp: documentation strings, formatting, joinable groups, greedy parameters,
  custom matchers, event handlers.
* In the mapper: names as strings, covers of more than one row, the machine's stack.

## Plan

1. (done) `Cells`, `TechMap`, `Emitter`, `MappedCircuit`; theorems about `TechMap`.
2. (done) `Netlist`, `BlifReader` and its theorems.
3. (done) `SequencePair` and its theorems.
4. (done) `Timer`, `Tautology`, `EquivalenceClasses` with theorems; `RcTree`; clipp and
   `Partition`.
5. (done) Theorems about the heap and the printed text, the refinement of
   `MappedCircuit`.
6. (done) Theorems about the reader's counters, the timer's sums and the RC tree's
   moments.
7. (done) Theorem about what `main` reports, `ReportIsTrue`.
