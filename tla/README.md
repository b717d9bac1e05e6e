# Verification of HolisticTraceAnalysis

TLA+ specifications of the core of HTA (`src/hta/`), a library that loads the
traces a PyTorch job wrote, one file per rank, into data frames and analyses
them. TLC checks the specifications on small instances, TLAPS proves the
theorems about them for all values of the constants.

1. [The system](#1-the-system)
2. [The modules](#2-the-modules)
3. [Runs](#3-runs)
4. [Proofs](#4-proofs)
5. [Where documentation and code disagree](#5-where-documentation-and-code-disagree)
6. [What is not modelled](#6-what-is-not-modelled)
7. [Plan](#7-plan)

## 1. The system

A user constructs a `Trace` with the trace files of the ranks, calls
`load_traces`, and passes the object to analyzers. There is one thread of
control, except for two pools of forked workers (the parsers, and the symbol
collectors). What makes the code hard is therefore less its concurrency than
the state that several methods share: data frames changed in place, ids and row
labels kept in other tables, columns that are right only until a later step
moves others, and caches.

| Component | State | Operations | What makes it correct |
|---|---|---|---|
| Symbol table (`common/trace_symbol_table.py`) | a list of symbols, its inverse, two cached series | `add_symbols`, `add_symbols_mp`, `clone`, `combine_symbol_tables`, `create_from_*`, CSV, `encode_df`, `decode_df`, `update_encoded_df` | ids are a gapless two-way numbering that only grows; coded frames keep decoding; parallel collection loses nothing |
| Trace (`common/trace.py`, `trace_filter.py`) | `traces`, `meta_data`, `symbol_table`, `min_ts`, `is_parsed` | `load_traces`, `parse_traces`, `parse_single_rank`, `align_and_filter_trace` | one table codes all ranks; aligned once; a kernel is kept iff its launch is; links resolve |
| Call stack (`common/trace_call_stack.py`) | the node map a rank's stacks share, the root of the stack | construction from the sorted ends of events, `_add_edge`, `update_parent_of_first_layer_nodes`, walks, saving of columns | parents and children agree; no cycles; nesting is by the clock |
| Call graph (`common/trace_call_graph.py`) | stacks of all ranks, their labels, columns of the frames, a cached rank | construction, connection of backward and main thread, queries | saved columns are what the clock says; answers are of the rank and event asked for |
| Critical path (`analyzers/critical_path_analysis.py`, `common/call_stack.py`) | a graph of event ends, attribution of its edges, per stream the last kernel, per kernel the one it waits for | clipping, construction in three passes, validation, longest path | no cycle, no edge back in time, no edge added twice, attributed time is self time, synchronizations wait for the right kernels |
| Counters (`analyzers/trace_counters.py`) and launches (`analyzers/cuda_kernel_analysis.py`) | a running sum, and results collected over the ranks | queue length, memory bandwidth, time blocked, operators of launches | the length of a queue is the number of its operations; a rank's result is about the rank |
| Breakdown, overlap, idle time (`analyzers/breakdown_analysis.py`, `communication_analysis.py`, `utils/utils.py`) | none between calls | merging of intervals and sweeps | every time reported is the time in which just these kernels run |
| Filters (`common/trace_filter.py`, `trace_stack_filter.py`) | none; each returns a frame for the next | filters by iteration, time, name, device and operator, composed by the user | a kernel comes and goes with its launch; operators are found in the iteration meant |
| Other analyzers, timelines, comparison, memory, execution traces, parser, configuration | mostly none | see `PROJECT.json` | |

How they interact: `parse_trace_file` parses a file with the rank's *own* symbol
table; `Trace` merges the tables and recodes the frames, then aligns and filters
them and labels their rows with the `index` column. `CallGraph` reads the frames
through `Trace.get_trace`, which returns the frame itself, and writes the stack
columns into it, so that graphs constructed one after the other share them. The critical path
and the filters by stack depth build on call graphs; every analyzer reads the frames and
the symbol table.

The hard behaviours, listed with their lines under `hazards` in
`PROJECT.json`: interleaved puts on the collectors' queue; a parser that raises
in the middle of the ranks, and calls that are repeated afterwards; calls in an
order nobody tested (parse, align, load); columns that go stale (`end`,
`index_correlation`, the row labels); the comparison of events that touch, and a
stack replay that does not look at what it pops; moving the backward thread's
events one annotation at a time while roots disappear; columns narrowed by one
call graph and reused by the next; the cached rank; three passes over a trace
that add edges to one graph; sorts that are not stable, where equal time stamps
are common; durations that rounding made negative; results of one rank that
leak into the next; filters composed in any order, each of which looks for
operators in what the one before left.

## 2. The modules

| Module | Models | Notes |
|---|---|---|
| `StableCode` | what a symbol table promises | abstract |
| `TraceSymbolTable` | `trace_symbol_table.py` | implements `StableCode` |
| `TraceRows` | row functions of `trace.py`, two filters of `trace_filter.py` | operators on a set of rows |
| `Trace` | class `Trace` | extends `TraceRows` |
| `EventOrder` | comparison and sort of event ends | operators |
| `CallStack` | the node map and its operations | operators, extends `EventOrder` |
| `CallGraph` | class `CallGraph` with its call stacks | extends `CallStack` |
| `WorkQueue` | what a queue length promises | abstract |
| `LaunchRows` | launches and their kernels, the first filters of `trace_counters.py` | operators on a set of rows |
| `Launches` | `trace_counters.py`, and the operators of launches in `cuda_kernel_analysis.py` | extends `LaunchRows`, implements `WorkQueue` |
| `CriticalPathRows` | what `critical_path_analysis.py` looks up in the frame | extends `EventOrder`, `LaunchRows` |
| `CriticalPath` | the construction of the graph and its longest path | extends `CriticalPathRows` |
| `Breakdown` | merging of intervals, temporal breakdown, types, overlap, idle time | |
| `Filters` | `trace_filter.py`, `trace_stack_filter.py` | extends `TraceRows` |
| `MC...` | instances for TLC | extend the module they name |
| `SetInduction` | induction over numbers and finite sets | lemmas |
| `...Proofs` | theorems | extend the module they name |

### TraceSymbolTable

Tables are objects of the constant set `Tables`; `live` are those constructed.
A table is a record of the four attributes of the code, with ids from 0 as in
Python. The actions are the methods. `add_symbols_mp` is four actions: `BeginMp`
(the pool starts), `TakeTask` (a worker takes an iterable), `Put` (a worker puts
one symbol on the queue), and `Drain` (the caller, after the join, empties the
queue and adds the symbols). An iterable of symbols is a
sequence; `CreateFromDf`, where the code iterates a set, allows every order. The data
frame is one row of two cells, with the type (string or id) of each cell; a
history variable says which table coded it. CSV files turn the strings of
`Lossy` into NaN, as `pd.read_csv` does. Filler names `Undefined-i` are assumed
not to be symbols of the trace: `create_from_symbol_id_map` does not look.

### TraceRows and Trace

A frame is a set of rows with the columns the functions read. Files are given
by their events and symbols; two files of the instance have clocks of their own.
A call is a record in the variable `call`: the loops over ranks take one step
per rank (`ParseNext`, `WorkerParse`), since a file that does not parse raises
there; `Collect` is the return of `pool.map`, `Recode` the second loop of
`parse_multiple_ranks`, `FinishLoad` the rest of `load_traces`. `Repair` is the
user's. The constant `Sessions` says which methods a user calls: `load_traces`
alone with files that may fail, or every method in any order with files that
parse. The properties that hold in the first kind of session only say so with
`Loaded`. `labelled` are the ranks whose row labels are the index column.

### EventOrder, CallStack and CallGraph

An end of an event is a record `[index, dur, kind, time]`. `SortEvents` is
`sorted` for fewer than 64 elements (a run, reversed when it descends, then binary
insertion), because with a comparison that is not a strict order the result depends
on the algorithm. `CallGraph` takes the sort as the constant `Sorted`, so that
the theorems hold for any sort that returns what it was given.

A node map is a function from indices to nodes, as in the code: events have
their index, roots minus their thread's id. `CallGraph` constructs one rank
after the other: `StartRank` resets columns and nodes; for each thread
`StartThread` sorts and tests the ends, `OpenEvent` and `CloseEvent` replay
them, `LinkKernel` adds the kernels; `StartConnect` and `LinkAnnotation` (one
for each annotation) connect the backward thread; `SaveStacks` computes depth,
height and kernel columns, casts them to the columns' types and normalizes
them. `ConstructAgain` is a second `CallGraph(trace)`, which finds the columns of
the first. The steps of one constructor are observed between them because each
works on the node map that the others left. Two ways to end that are no
return are values of `pc`: `"raised"` and `"hung"` (the loop of `get_root`
does not end). The queries then run in any order; they share `cached_rank`.

Abstractions: children are a set (no property is about their order); a name is
the part the labels depend on; traces start at 0 and are aligned, so `end` is
`ts + dur`; `mapping` is the sequence `stacks`.

### LaunchRows, WorkQueue and Launches

`call` is the analysis that was asked for, `"queue"`, `"memory"` or `"aten"`;
each goes through the ranks in the order they were asked for. pandas' default
sort is not stable, so `SumRow` takes *any* row of the earliest time left in the
group: this is `sort_values` and `cumsum`, one row at a time, and the behaviours
are the orders the sort may leave. `NextGroup` begins the next stream or kind of
copy. `MeasureBlocked` is `get_time_spent_blocked_on_full_queue` on the series
just made, `LaunchEvent` and `FinishLaunches` are the loop of
`get_aten_op_kernels_and_delay`. `"raised"` stands for the assertion that calls
and kernels are of equal number, and for `item()` on a launch without its one
kernel. The assumption `Paired` says that correlations pair launches and kernels
one to one and that a launch starts before its kernel: CUPTI gives that, the
code does not check it. Durations are natural numbers or -1, what the rounding of time
stamps makes of an event shorter than a microsecond (`trace_parser.py:384-388`).
Bandwidths are floats in the code. In the model they are multiples of one unit, and
`Added` lets every sum of two of them be off by up to `Residue` units; nothing is lost
where one of the two, or the sum, is 0.

`WorkQueue` has a set of outstanding operations and a length. The mapping takes
the kernels of the present stream that were launched and not started as
`outstanding`, `running` as `length`; `NextGroup` and `FinishSum` are its `Reset`.

A name stands for the names that the code treats alike: `"launch"` and `"copy"`
for the calls that enqueue kernels and copies, and in the critical path `"alloc"`,
`"device sync"` and `"event query"` for the other calls that lock or block.

### CriticalPathRows and CriticalPath

A node is an end of an event, `[of, start]`; `edges` maps pairs of nodes to type
and weight, so that adding an edge twice overwrites it as in a `DiGraph`, and
`edge_to_event` is the attribution. `Clip` restricts the trace to the instances of
the annotation. The passes take the nodes or rows one at a time:

- `PassLock`: the nodes of calls under the runtime's lock, in time. `starts` are
  the calls begun since the last end.
- `StartThread`, `ReplayEnd`, `FinishThread`: a thread's ends in the order of
  `call_stack.py`, and with each the callback of the traversal (`Enter`,
  `Exit`). The code builds the stack first and walks it then; the walk enters and
  exits the nodes in the order in which the replay opens and closes them, so one
  step does both. If the forward and the backward thread can be told, the second
  joins the first (`ThreadOf`).
- `PassDeviceRow`: kernels by their start and synchronizations by their end, as
  sorted in the code, any order of equal keys: `SyncHost`, `SyncStream` or
  `AddKernel`.

`FindPath` validates and finds the longest path; cycles and distances are
recursive functions over the number of edges (`Walks`, `Dist`). `"raised"` are the
assertions (that the path has an edge, that a synchronization has a known name), the
look-ups that fail, and the concatenation of nothing when no wait of a stream is linked.
The symbol table is shared by all ranks and the frame is of one: whether a name is in
the table because of another rank decides about two of these, and is a choice
(`Clip`, `StartKernels`). `full` is the
frame before clipping: the code looks up queue lengths and CUDA events there.

The pass over the locks sorts by two columns and is stable, so `NodeBefore` is a
total order. `cudaMemcpyAsync` (`"copy"`) is both a call that locks and one that
blocks: the call-stack pass would give its span the weight 0, but leaves the span to
the lock pass, which gives it its duration; the copy is never zeroed.

### Breakdown

One rank at a time, since ranks share nothing; `request` is the method. The three
methods that merge intervals do so for a list of types (`Types`): `NextFrame`,
`MergeRow` (one row in the order of the sort; any order of equal times) and
`FinishFrame`. `reach` is `end.shift().cummax()` at the next row. `Temporal`
is the arithmetic and the assertions of `idle_time_per_rank`. `StartSweep`,
`PassBoundary` and `FinishSweep` are the running status of
`_get_gpu_kernel_type_time` and `get_comm_comp_overlap`. `StartIdle`,
`NextStream`, `PassKernel` and `FinishStream` are `get_idle_time_breakdown`, for
any streams that the caller names, each once, or for all.
`kernel_type` is a column of the row; that names determine it is not modelled.

### Filters

`trace` is the frame of the rank, as parsed or as `align_and_filter_trace` left it
(`TraceRows` gives both); `df` is the frame at hand, a bag of rows because
`pd.concat` may take a row twice, and `applied` the filters it went through. Each
step applies a filter of the constant `Menu`: `FilterRows` those that look at one
row at a time, `FilterIterationIndex`, `FilterOperator`, and `FilterCombined`,
which applies the filters it is composed of as the code does. A frame made by
`pd.DataFrame()` has no columns; every filter returns it as it is. `"raised"` is
the look-up of the first iteration of a frame without rows. The sort of
`find_op_occurrence` is not stable, so `Occurrences` is the set of the rows that may
be at the position. The bounds of the frame with which the code limits an operator's
(`max(op["ts"], df["ts"].min())`) exclude no row and are left out of `Bracket`.
The filters of devices are those with a symbol table: without one they look at the stream
(and the correlation) only (`trace_filter.py:347-351`, `368-372`).
Assumed: names are decoded, no row is on stream 0 (whose iteration would be NaN), and no
call graph has added the column `depth`.

## 3. Runs

| Run | Result | Shows |
|---|---|---|
| `symbol_tables` | passes | `Bijective`, `SeriesCurrent`, `FrameDecodes`, `IdsStable`, and the refinement `ImplementsStableCode`, for two tables built by every constructor and a frame moved between them; `NothingLost` and `MpReturns` in every interleaving of two workers over four iterables, one of them empty |
| `trace_load` | passes | `RanksLoaded`, `NamesDecode`, `AlignedOnce`, `KernelsFollowLaunches`, `LinksResolve`, `LinkedTogether`, `OneOffset`, `CallReturns` for two ranks and every pair of four files |
| `call_graph` | passes | `ParentsAgree`, `PathsEnd`, `ParentsByTime`, `DepthsByTime`, `KernelsByTime`, `AnswersHoldThePath`, `Constructs` |
| `launches` | passes | `BlockedIsExact`, `BandwidthByClock`, and the refinement `ImplementsWorkQueue`, in every order of rows with one time stamp |
| `critical_path` | passes | `SelfTime`, `SyncsWait`, `PathFitsWindow`, `EdgesStay` |
| `breakdown` | passes | `MergedExact`, `ReportsExact`, `IdleIsGaps`, for every method and every order of equal times |
| `filters` | passes | `KernelsWithLaunches`, `FirstIterationAbsorbed`, for every composition of up to three filters |
| five others | violated | section 5 |

*Bounds.* `symbol_tables`: two tables, three symbols and two fillers are
enough for a gap in a map, for a symbol that is in one table and not the other,
and for a frame that moves back and forth; the pool is used while there
is one table (`MpTables`), since it touches no other; more iterables
than workers, so that a worker takes a second one; a symbol twice in one
iterable and in two of them. `trace_load`: the four files hold two steps with
kernels that run in the other step, a launch after the last step, two kernels of
one launch, a kernel without a launch, synchronization events, no step, and no
events at all; two ranks are the least at which the pool is used and at which a
step of one rank decides about the other. `call_graph`: *all* placements of
three events in the times 0 to 3 that are nested (equal intervals, equal starts
or ends, zero durations among them), with two kernels; and two profiler steps
with or without a backward annotation in each, and two events of a backward
thread at every position relative to them; two ranks, two graphs, queries for a
host event, a kernel, and an index that does not exist. `launches`: three
launches from two threads on one stream or two, at *all* times 0 to 2 with kernels
that start up to time 3, so that every tie of a launch with another's kernel
occurs, and a kernel without launch; two copies of one kind at *all* times 0 to 2 with
durations from -1 to 2, and one of another kind; three that hold each other or follow in
a row; a residue of a tenth of the smallest bandwidth; nested operators around launches, of either thread; queues that hold two
operations are full. `critical_path`: three calls under the lock on two or three
threads at all times 0 to 4; two events of five kinds at seven placements inside
an operator and an operator after it on the same or the backward thread; two
streams where the second waits for the first or not, with event, stream and
context synchronization and kernels that start before, at and after the end of
what they wait for; a wait that is not linked, alone or beside one that is, and a
synchronization of an unknown name; one or two steps; both values of both options; kernels closer
than 2 us count as back to back. `SyncsWait` is about stream and context
synchronizations; for those of events `PathFitsWindow` and `EdgesStay` see the edges, and no
property says which kernel they start from. `breakdown`: three kernels at *all* placements in
0 to 4, durations from 0, with four assignments of types; a long kernel with
three rows in it; a stream of three kernels with their launches, one of which may be
missing, and a synchronization over them; no device rows, and only a
synchronization. Two intervals can overlap, touch, nest or be apart; the third is
needed for a row that ends before an earlier one does. `filters`: sixteen filters, up to
three one after the other, so that one of operators follows one of iterations and
the other way round; four files, parsed, and loaded with and without the last step: two
iterations whose kernels run in the next one or after the last, kernels of one launch and
of none, a launch of the driver, synchronizations that outlast their step, an annotation
of the device with the name of an operator, and no steps.

`Launches`, `CriticalPath` and `Breakdown` really stop when the call returns, `Filters`
after the last filter: their configurations say `CHECK_DEADLOCK FALSE`.

*Deadlock* is checked in the other runs. *Fairness*: a worker of a pool runs, and a
caller that waits for it returns when it can (`TraceSymbolTable`, `Trace`);
this is what `pool.map` and the operating system give. No call is ever assumed to be made.
The other modules have no fairness and no liveness property: their loops are over
finite lists, and the one that may not end is covered by the safety property
`PathsEnd` of `CallGraph` and the value `"hung"`.

*What the passing runs leave to the others.* `call_graph` keeps indices and
thread ids below 128, thread ids of a rank different, zero-duration events away
from the point where two other events touch, a backward event in the last annotation,
and a host thread in every rank. The third and fourth are the runs
`call_graph_touching` and `call_graph_last_step`, the first is described in
section 5; the others are hazards without a property. `NamesDecode` in `trace_load`
excludes sessions where a second parse fails (section 5). In `critical_path` the
calls that take the lock and touch on one thread are in file order: in the
reverse order the ends of the two are passed the other way round and the edges make
a cycle, which the analysis reports. In `breakdown` no duration is negative: that
is `breakdown_rounded`. In `launches` copies may have the duration -1; the claim that this
refutes is `launches_rounded`. `KernelsWithLaunches` in `filters` is about launches of the CUDA
runtime, and excludes filters for a name that annotations of the device have too:
those may take the annotation, on the kernels' stream, for the operator.

Every property of a passing run has a mutant of the code that violates it: a
dropped reset, a swapped comparison, an update that forgets one of two places.

## 4. Proofs

`SetInduction` has what the other proof modules need of recursion. Its lemmas state
induction with a set in the place of a predicate (`Naturals`, `FiniteSubsets`: a set that
holds 0, or the empty set, and with every member the next, holds all), and show from it
that finite sets of integers have a least and a greatest element, what a sum over a set
becomes when an element joins it, and what a loop keeps.

`TraceSymbolTableProofs`, for any tables, strings, pool size and arguments that
meet the module's assumptions:

- `TypeCorrect`, `AlwaysBijective`, `AlwaysSeriesCurrent`, `AlwaysFrameDecodes`,
  `AlwaysIdsStable`, `AlwaysNothingLost`, and `Refinement`
  (`Spec => ImplementsStableCode`).
- The inductive invariant `IInv` adds to the type invariant and the four state
  properties what the pool's caller relies on: what a worker has
  put so far is in the queue, and the queue holds only symbols of the call's
  iterables; a series as long as its table is equal to it; and an object that is
  not live is an empty table. The lemmas
  `ArrivalsAreFresh` and `ExtendedKeeps` say what `add_symbols` appends and what
  it leaves alone; every method that grows a table cites them.

`CallGraphProofs`, about `EventOrder`: among ends of events that have a duration the
comparison is asymmetric, total and transitive. It is a strict total order there, so every
sort gives the same result. Without the assumption on durations transitivity fails:
that is the run `call_graph_touching`.

`CallGraphProofs`, for any data frames with distinct
indices, any ranks, and any sort that returns the ends it is given:

- `ParentsAndChildrenAgree`: `Spec => []ParentsAgree`; `TypeCorrect`:
  `Spec => []TypeOK`.
- `ParentsAgree` alone is not inductive: adding an edge needs to know that the
  parent is a node, and deleting a root needs to know that no event is deleted
  with it. `Inv` therefore adds that children are events and only roots are
  negative (`NodesSound`), that what is on the replay's stack is a node and every event of
  the thread is one or still has its opening end to come (`Replayed`), that a
  stack's root, if it is still a node, is no event (`StackRoots`), and which rank
  is under construction (`RankBegun`). Each operation on the node map has a lemma
  that it keeps a sound map sound.
- `AlwaysPathsEnd`: `[]PathsEnd`, and `AlwaysConstructs`: `[]Constructs`, where annotations are
  events of the host (`AnnotationsOnHost`), the sort ends in an order its own test accepts
  (`SortAccepted`, for the second), and `[]RootsApart`: as long as there are annotations to
  link, the two stacks to connect have roots that differ. That hypothesis is needed. It fails
  where the two threads have the same number, and in the run `call_graph_last_step`, where a
  stack that lost its root already is moved under an annotation once more; there the loop of
  `get_root` does not end. The second invariant, `PathsInv`, gives the nodes of every rank heights by
  which a parent is below its child (`Founded`). A new node is higher than its parent. To
  move children of a root under an annotation all nodes are raised but a set `M`, in which
  paths stay and which holds the annotation and not the root (`UpdateParentKeepsPaths`). `M` are
  the nodes under the root of the main thread; that every event of the host is under the
  root of its thread is what `Topped` says while the threads are replayed.
- `OneStepConstructs`: both properties without a hypothesis on the behaviour, where the threads
  of a rank have different numbers and an annotation is there once: `Apart` says that a
  thread has one stack and that there is one annotation to link, so that the roots are
  apart when it is (`OneStepApart`).

The same module, about the result: `ParentsFollowTime`, `DepthsFollowTime`,
`KernelsFollowTime` and `AnswersFollowTime` say that for the first graph of a trace
(`graphs = 1`) `ParentsByTime`, `DepthsByTime`, `KernelsByTime` and `AnswersHoldThePath`
always hold: the columns, and the stack that a query answers with, are what the times of
the events say. `OneStepFollowsTime` states all four for data frames of one step, with no
hypothesis on the behaviour. A later graph of the same trace writes into columns that
the one before narrowed (`trace_call_graph.py:247-259`). `EveryGraphFollowsTime` says that this is all
an earlier graph does to a later one: the four properties hold of every graph as long as, when a rank is
saved, its columns hold the parents, depths and heights of its nodes (`[]WidthsHold`).
`ShortTraceFollowsTime` has no hypothesis on the behaviour at all: for a data frame of one step
with fewer than 128 rows, whose indices are below 128 and whose threads have numbers of at
most 128, the narrowest column is wide enough (`ShortWidths`), and however many graphs are
constructed, all four properties always hold of each.
The hypotheses are on the data frames:

| Hypothesis | What it says | Where the code relies on it |
|---|---|---|
| `AnnotationsOnHost`, `ThreadsApart`, `[]RootsApart` or `OneStep` | as for `AlwaysConstructs` | `trace_call_stack.py:237`, `431-462` |
| `HostsNested` | a rank has finitely many rows, some of the host, whose threads and processes are not numbered 0; events of one thread overlap only if one lies within the other; no event without duration lies where one ends and the next starts | the comparison (`trace_call_stack.py:26-109`) is not transitive there, see `call_graph_touching`; 0 stands for the GPU |
| `SortSorts` | ends that the comparison orders strictly are put in this order | `sorted()` at `trace_call_stack.py:109` |
| `RootsCounted` | no thread has the number 2 (for depths, kernels and answers) | its root would be `NON_EXISTENT_NODE_INDEX`, which the traversals skip (`trace_call_stack.py:13`, `629`) |
| `EndsMeasured` | `end = ts + dur` (for kernels) | `trace.py:274`, `trace_call_graph.py:140` |
| `[]WidthsHold` or `ShortTraces` | what is saved fits into the columns (for a graph after the first) | the cast to the type of `height` (`trace_call_stack.py:730-739`); a byte holds the heights of a short stack, but not 200: of an event under the one with this index the second graph saves the parent -56 |
| `StreamsOffHost` | a row is of the host, of a stream with a positive number, or has the process or thread 0 (for answers) | a kernel of the stream 0 has no launch and is found on no stack (`types.py:31`) |

TLC finds all of them true of the data frames of `call_graph` (`OneStep` of those of one step), and
`WidthsHold` and the invariants below on its states. The argument has four parts.

- *The replay.* The ends of a thread's events are strictly ordered (`EndsOrdered`), so the sort
  gives them in one order. `ReplayTimed` says that an event whose start was read and whose end
  was not is on the stack, and nothing else is, outermost first (`StackRuns`); so the top of the
  stack, when an event is opened, is the innermost event around it. `ThreadsTimed` keeps
  this for the threads that are done.
- *The linking.* `AnnotationsTimed` says of the annotations linked so far that an event without
  one around it on its own thread is under the first of them that holds it (`LinkedTo`). That
  annotations are linked in the order of their indices, and an event that moved is no longer a
  child of the root, makes it the first (`FirstStays`). `SavedTimed` says the same of the ranks
  that were saved, and that their columns are those computed from their nodes. With
  `OneStackEach` (a thread of a rank has one stack) and `ColumnsReady` (there are columns for
  every row) this is the third invariant, `TimeInv`. None of its parts is inductive alone: that
  an annotation finds its events uses that the replay of both threads ended, and that nothing
  else touches the map of a rank uses that no thread is replayed twice.
- *The tree.* From parents one gets to ancestors: the nodes of a saved rank are a tree in which
  the nodes above one are the events that the clock puts above it (`NodeTree`, `TreeIs`). The
  number of these is a distance by which what is below an event is layered (`BelowLayered`), and the
  levels of a traversal are its layers (`LevelsAre`): hence the depths, and that the
  traversals reach all there is. The heights are shown to be the one function that
  satisfies their equations (`HeightsAre`), by induction from the deepest level; `TallNode`, by
  the clock, satisfies them too (`RiseOfChildren`). The kernels under a node are those launched
  by what the clock puts below it (`KernelsAre`); their sums are over a set of
  indices in the code and over a set of rows in the property, which `SumOfImage` relates.
- *The answers.* `AnswerInv` says that the rows of an answer are the path to the root
  (`PathIs`), what is below the event (`BelowIs`, by `LeafBelow` and `DescendantsAre`), and no
  row of another rank. It needs of rows that are no node that their parent column is still -1
  (`UnlistedInv`): a query looks up the parent of a kernel to find the stack that it is on.

`LaunchesProofs`, for any frames whose launches and kernels are paired, any ranks
and any order of rows with one time stamp:

- `TypeCorrect`; `QueueRefinement`: `Spec => ImplementsWorkQueue`; `QueueLengthCounts`: the
  length is the number of outstanding operations, so it is never negative.
- The inductive invariant says of the sum at hand that a row which was summed is
  not later than any of its stream that is left, and that the rows of the streams
  to come are all left. So when a kernel's start is taken, its launch, which is
  strictly earlier, was taken before.
- `AlwaysBandwidthByClock`, also for durations of -1 and sums that are off: the running sum
  is, up to a residue for each of its terms, the bandwidth of the copies whose start was taken
  and whose end was not, less that of those whose end was taken before their start
  (`SumNearExpected`). At the last point of a moment these are the copies that the clock finds in
  progress, and those that rounding turned around (`CopiesAtMoment`); at any point before
  only the latter can make the sum negative, since an end is otherwise taken after its start.
- `AlwaysBlockedIsExact`: the time blocked is that in which the kernels in a queue
  are as many as its capacity, on the clock. `SeriesInv` says that the points of a series are in the order of
  time and that from one to the next the queue has the length of the point; the
  sum over the full points of the time to the next is then a number of moments (`MeasureIsExact`).

`CriticalPathProofs`, for any finite traces in which an index names one row, any
options and any names:

- `EdgesAreKept`: `Spec => EdgesStay`, no pass overwrites the type or weight of an edge;
  `Inductive`: `Spec => []IInv`.
- `IInv` says where edges can be so far. Those of the lock pass join nodes of locking
  calls and lead to an end that was passed. While the call stacks are replayed,
  every edge joins nodes of the host, and is such a pair of locking calls or leads
  to a node that is not pending: pending are the nodes of the threads to come, of
  the events not yet opened, and the ends of the events on the stack, which are as
  many as the rows that are open. In the kernel pass any other edge leads to a device row
  that was handled, or is a synchronization from the end of a kernel to the end of a
  call. Every step adds edges into a node that no edge of its kind leads to yet; that
  the passes do not meet is what `SharesLock` in `Link` is for.
- `SyncsAlwaysWait`: `Spec => []SyncsWait`. `Waiting` says that the device rows handled
  so far do not come after any that is left, in the order of the sort, and that the last
  node of a stream is the end of a handled kernel which none of the stream starts
  after. So when a synchronization is handled, the kernel it has to wait for was handled and
  is the last of its stream (`AwaitedIsLast`).
- `TypeCorrect`: `Spec => []TypeOK`. That the depth of the traversal is never negative needs
  what it counts: `op_depth` is the number of the open events that have nodes.
- `SelfTimesAddUp`: `Spec => []SelfTime`, where the events of one thread that start in the
  window nest (`WindowsNest`: the profiler records calls, and the replay pops whatever is on
  top), indices are natural numbers, and `None` is not a node. `Replayed` says that the stack is the
  events that are open, each inside the one below it, so an end closes the top of the stack
  (`ClosesTop`); the end order alone gives this, also for events that share an end.
  `Linked` says that the edge which is drawn next begins at the last node passed and is
  credited to the top of the stack. Then credits are a sum over the stretches between two
  ends: what an open event has got so far is the time from its start to the last node, less
  its closed children and the child that is open (`OpenCredit`); the events not yet opened have nothing
  (`BeforeCredit`), the closed ones their self time (`AfterCredit`). The lock pass draws no credited
  edges, and the kernel pass credits only kernels.
- `PathsFitWindow`: `Spec => []PathFitsWindow`. Beside the hypotheses of `SelfTimesAddUp` it has
  `DevicesInOrder`, which is what the CUDA runtime promises: a device row is linked to a call of the
  host, a kernel does not start before its launch, the kernels of a stream last and run one after the other, a call
  that synchronizes returns after the kernels it waited for, and a stream that waits for
  an event of another one runs what is next after it; and `LocksAgree`: two locking calls of
  one thread come in the same order by time and index, the sort of the first pass, and by the
  ends of events, the sort of the second. The proof gives one strict order of the nodes
  (`Precedes`): by time, and at one time ends on the device, then the host, then starts on the
  device, and on the host the order of a thread or of the lock pass (`HostBefore`), which
  is transitive by `LocksAgree`. `Forward` says that every edge of the three passes leads forward
  in it and weighs nothing or the time it takes. A walk of k edges therefore comes to a node that k
  nodes precede (`NoCycles`), and the distance of a node is at most its time since the first
  (`WalksFit`). All the hypotheses hold of 1336 of the 1376 traces of the
  run. The other 40 show what they exclude: in 24 a kernel starts at the very time stamp at which a
  synchronization of its stream ends, and in 16 a locking call is inside another one and ends
  with it. In the run the property holds of them too, but neither hypothesis can be dropped: TLC
  finds a path of length 10 in a window of 9 when the sort handles that kernel before the synchronization
  (line 1210) and the host goes on at once, and a cycle, so no path, when a copy
  has an operator in it that has a launch in it and the three end together, because
  the two passes then draw edges between the same ends in opposite directions.

`BreakdownProofs`, for any traces with integer times whose durations are not negative
(`Lasting`, a hypothesis of the theorems because the rounding violates it):

- `AlwaysMergedExact`: `Spec => []MergedExact`.
- `IInv` adds to the property, which it states for every integer, that every
  interval goes forward, that the last one ends at `reach`, that no row left
  starts before the last interval does, and that the intervals of a type still to come
  are empty. The lemmas `Opens` and `Extends` say what the two cases of `Grown` do to
  the covered time.
- `AlwaysReportsExact`, `AlwaysAssertionsHold`, `AlwaysIdleIsGaps`, `TypeCorrect`. `SpanInv`
  says that merged intervals begin with the first row of the type and end with the last.
  Lengths of intervals become numbers of moments (`Points`, which span the trace), so that
  the temporal breakdown compares sets: the assertions hold because one is a part of the other.
  `SweepInv` says that the running status is the sum of the types whose intervals hold the
  moment at hand, and that what is counted for a status so far are the moments before it with
  that sum. `IdleInv` says of a stream whose kernels run one by one that its idle
  time is the gaps between the kernels seen.

`TraceProofs`, for any ranks, any sessions, and any files in which an index names one
event, a correlation one event of the host, and time does not begin below 0
(`FilesAssumption`):

- `AlwaysOneOffset`: `Spec => []OneOffset`; `AlwaysAlignedOnce`:
  `Spec => []AlignedOnce`. `IInv` says that the rows of a rank are those of its events, all
  moved by one offset (`Together`). For `AlignedOnce` that is too weak: it also says which offset.
  Where nothing but `load_traces` is called it is 0 until the step that aligns and returns, and
  `min_ts` from then on (`LoadsOnly`); a call that has set `is_parsed` is past the steps that
  raise, so no retry finds aligned frames and aligns them again.
- `TypeCorrect`: `Typed` says that every row is made of an event of its file, and which ranks a
  call has parsed and coded, and with which table.
- `AlwaysRanksLoaded`, `AlwaysKernelsFollowLaunches`, `AlwaysLinksResolve`. `Loading` says of
  sessions that call `load_traces` alone what a frame is when it returns: the rows of its
  file, coded with the one table, aligned by some offset, filtered, and labelled, for every
  rank that has events. The three properties are then facts about `FilteredRank`, which keeps a
  kernel with its launch (`FinishedKernels`).
- `AlwaysNamesDecode`, `AlwaysLinkedTogether`, for sessions that only load, or in which no file
  fails (`Reliable`): a parse that fails leaves frames with the ids of their files
  (section 5), and an alignment called after it filters by other names. `Settling` says of each frame that the
  table of the object decodes it, or that the call at hand or the next one replaces
  it; and that rows which are linked are both there or both not.

`FiltersProofs`, for any files in which an index names one row and the correlation -1
stands for none, and any filters, however many:

- `AlwaysKernelsWithLaunches`: `Spec => []KernelsWithLaunches`.
- `TraceSound` says of the rows of a file, parsed or loaded, that linked rows have one
  iteration, that the launch is on the host, and that it is not itself linked to a call of
  the runtime (`LinkedEvents`); alignment and filtering keep that (`MovedSound`). `IInv` is
  that and the property, for the frame at hand. Filters of iterations take linked rows alike
  (`IterationsKeep`). Filters of operators select either rows that are together already or rows
  of the host only (`Ready`), for which the kernels are then looked up (`KernelsLookedUp`).
- That the link of a row leads to one of its partners needs that a finite set of numbers has
  a greatest element (`Greatest`).
- `AlwaysFirstIterationAbsorbed`, where row 0 of a file is no call of the runtime
  (`RowZeroIsNoCall`). `PartInv` says that a kernel has the iteration of its launch and
  that the frame at hand is a part of the trace; the lemmas show that no selection inside
  `CombinedOperatorFilter` leaves the first iteration. The hypothesis is needed:
  the filter does not test the link before it looks for the kernels
  (`trace_stack_filter.py:26`), so rows of any iteration whose link is 0 would be kernels of
  row 0.

The assumptions on the constants (`TracesAssumption`, `SortedAssumption` and the
others) are evaluated by TLC in the runs.

*Model-checked only.* `MpReturns` and `CallReturns` are liveness under fairness,
which is beyond the prover. Every safety property of a passing run is stated by a theorem, under
the hypotheses named above.

## 5. Where documentation and code disagree

Each run checks one property that states what a comment, docstring or assertion
says, and TLC finds a behaviour of the code that violates it.

| Run | What happens |
|---|---|
| `call_graph_last_step` | when earlier annotations took every backward event, a later one without any moves itself under itself; `get_root` then loops forever (`trace_call_stack.py:462`) |
| `call_graph_touching` | a zero-duration event where one event ends and another starts makes the comparison cyclic; an event becomes a child of one that ended before it (`trace_call_stack.py:43`) |
| `breakdown_rounded` | a kernel between two microseconds is rounded to the duration -1; as the last of a rank it makes the non-compute time negative and the temporal breakdown stops at its assertion (`trace_parser.py:388`, `breakdown_analysis.py:684`) |
| `launches_rounded` | the comment says that copies of 0 us are rounded up "to avoid -ve values"; a copy that rounding left with the duration -1 is not, ends before it starts, and the bandwidth of its kind is negative in between (`trace_parser.py:388`, `trace_counters.py:293`) |
| `filters_after` | on a loaded trace the filter for what comes after an operator compares aligned time stamps with the end from before alignment, and drops events that come after it (`trace.py:274`, `trace_stack_filter.py:120`) |

Others are seen in the modules, which do what the code does, and have no run:

- The sequential parse stores frames with ids of the rank's own table and recodes
  them after the loop; if a later rank raises and an earlier call had set `is_parsed`,
  frames that say they are parsed decode to other names (`trace.py:496`).
- With `include_last_profiler_step` the filter compares aligned time stamps with the
  column `end`, computed before alignment, and may drop nothing (`trace.py:834`).
- A rank without profiler steps loses all events when the shared symbol table has
  two step names of other ranks (`trace.py:873`).
- A query for rank 0 is answered from the rank of an earlier query
  (`trace_call_graph.py:384`).
- `get_descendants` without kernels returns kernels: the test looks at the start and not
  at the node visited (`trace_call_stack.py:582`). `get_stack_of_node` and its tests
  rely on the kernels being there.
- A second call graph of the same trace casts parents to the byte that the first
  one narrowed `height` to (`trace_call_stack.py:731`).
- The list of launches is created once before the loop over the ranks, so the ATen
  statistics of the second rank contain the launches of the first
  (`cuda_kernel_analysis.py:488`).
- A call that starts between the ends of two overlapping calls breaks the chain of
  completion edges from one to the other (`critical_path_analysis.py:623`).
- A device synchronization is on the stream -1 and correlated with its call, so that a filter
  by operator with `include_gpu_kernels` has it twice, as an event and as a kernel
  (`trace_stack_filter.py:132`). `CombinedOperatorFilter` returns every kernel of the
  iteration twice where none of its operators is there (line 283).
- A kernel that nobody launched has the link 0 and is matched to the row 0 if that is a
  call of the CUDA runtime; kernels launched by the driver are not matched at all
  (`trace_stack_filter.py:26`).
- `FirstIterationFilter` of a frame that another filter left without rows raises an
  `IndexError` (`trace_filter.py:118`).
- `CombinedOperatorFilter` says that its events come before the preceding and after the
  following operator; it is the other way round (`trace_stack_filter.py:210`).
- Of several streams with a full queue only the last is in the result, of which the
  docstring says that it sums up "the time spent on all streams"
  (`trace_counters.py:243`).
- The operator of a launch is searched on all threads: the thread is not compared
  (`cuda_kernel_analysis.py:432`).
- A kernel whose launch is missing has the link 0, and the idle time breakdown takes the
  first row of the file for its launch (`breakdown_analysis.py:865`).
- The temporal breakdown, the overlap and the types use every row on a stream,
  synchronizations included, whose type is "other": time in which a stream only
  waits counts as non-compute and not as idle. The idle time breakdown leaves these
  rows out (`breakdown_analysis.py:845`).

## 6. What is not modelled

- `Trace`: writing traces, flow events and time-series export; ranks whose device is an MTIA,
  which another filter keeps from the first to the last step and whose memory kernels a
  deprecated repair moves (`trace.py:848-871`, `889-894`); `add_fwd_bwd_links`, which compares a column of ids with a string and so does
  nothing.
- Call stacks: the `KeyError` of a message about an event that is a node already, under a parent
  that is none (`trace_call_stack.py:410`), which distinct indices exclude;
  reconstruction from existing columns, which no caller asks for, and
  `dfs_traverse`, which calls its argument.
- Critical path: the breakdown and summary of a path, overlaying it on a trace, saving
  and restoring. They read the finished graph; `SelfTime` is about the attribution they
  sum.
- Counters and kernel analyses: summaries (`describe()`), frequent sequences of kernels,
  launch statistics (a join), CUPTI counters.
- Breakdowns: the top kernels and the breakdown by annotation (statistics by name),
  percentages, charts.
- Filters: `RankFilter` and `MemCopyEventFilter` (one comparison each), queries in the
  language of pandas, and `stack_depths`, which needs the columns of a call graph.
- Trace comparison, stragglers and the memory timeline are functions of a
  frame that keep nothing between calls.
- Parsing is represented by its results, including what rounding leaves. Execution
  traces join with the nodes of an external library. Drawing, the facade,
  configuration and logging have no state of interest. The notebooks under `examples/`,
  by far the most lines of the repository, hold recorded output.

## 7. Plan

1. The breakdown of a critical path, and the edits of a restored graph, on top of
   `CriticalPath`; `Trace` composed with `CallGraph`, so that the columns a graph reads
   are those that alignment left.
2. Trace comparison and frequent kernel sequences as operators against a reference
   definition.
