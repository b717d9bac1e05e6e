------------------------------ MODULE Filters -------------------------------
(***************************************************************************)
(* hta/common/trace_filter.py and trace_stack_filter.py: the filters a     *)
(* user composes (CompositeFilter) and applies to the data frame of one    *)
(* rank, as it was parsed or as align_and_filter_trace left it.            *)
(*                                                                         *)
(* A data frame is a bag of rows, since pd.concat may take a row twice; a  *)
(* frame made by pd.DataFrame() has no columns either.  Names are decoded. *)
(* The frame has no column depth, which a call graph adds.                 *)
(***************************************************************************)
EXTENDS TraceRows, Bags, Sequences

CONSTANTS
  Files,       \* sets of events, each the content of the file of one rank
  Menu,        \* the filters the user has
  MaxFilters   \* how many are applied one after the other

VARIABLES
  trace,      \* the rows of the rank in the Trace object
  df,         \* the data frame at hand
  applied,    \* the filters it went through
  raised      \* an exception was raised

vars == <<trace, df, applied, raised>>

(* An index names one row, -1 stands for no correlation, and a row of the  *)
(* device is no call of the CUDA runtime; a row on stream 0 would have no  *)
(* iteration.                                                              *)
ASSUME FilesAssumption ==
  \A events \in Files :
    /\ events # {} /\ IsFiniteSet(events)
    /\ \A d, e \in events : d.index = e.index => d = e
    /\ \A e \in events : /\ e.index \in Nat /\ e.stream \in Int \ {0} /\ e.dur \in Nat
                          /\ e.correlation \in Int /\ e.correlation >= -1
    /\ \A e \in GpuRows(events) : e.cat # "cuda_runtime"

-----------------------------------------------------------------------------
(* Data frames *)

Frame(rows) == [rows |-> rows, columns |-> TRUE]
NoFrame == [rows |-> EmptyBag, columns |-> FALSE]

Kept(rows, Keeps(_)) == [r \in {r \in DOMAIN rows : Keeps(r)} |-> rows[r]]

(* align_and_filter_trace, where the object has this rank only. *)
Loaded(events, include_last) ==
  LET parsed == ParsedRows(events)
      aligned == Aligned(parsed, ColumnMin(parsed, LAMBDA r : r.ts))
  IN IF Cardinality({r.name : r \in ProfilerSteps(parsed)}) > 1
     THEN Filtered(aligned, include_last)
     ELSE aligned

(* find_op_occurrence: the rows of the name that may be at the position,   *)
(* as the sort is not stable; negative positions count from the end.       *)
Occurrences(rows, name, position) ==
  LET ops == Kept(rows, LAMBDA r : r.name = name)
      pos == IF position >= 0 THEN position ELSE BagCardinality(ops) + position
  IN {op \in DOMAIN ops : /\ BagCardinality(Kept(ops, LAMBDA r : r.ts < op.ts)) <= pos
                          /\ pos < BagCardinality(Kept(ops, LAMBDA r : r.ts <= op.ts))}

-----------------------------------------------------------------------------
(* The filters *)

InIterations(f, r) == r.iteration \in f.iterations
InTimeRange(f, r) == r.ts >= f.from /\ r.ts + r.dur <= f.to
NameMatches(f, r) == r.name \in f.names

(* The filters that look at one row at a time, those of devices with a     *)
(* symbol table at hand.                                                   *)
Selects(f, r) ==
  CASE f.kind = "iteration" -> InIterations(f, r)
    [] f.kind = "time" -> InTimeRange(f, r)
    [] f.kind = "name" -> NameMatches(f, r)
    [] f.kind = "cpu" -> ~OnGpu(r)
    [] f.kind = "gpu" -> OnGpu(r)

(* IterationIndexFilter of a frame that has rows: the iterations at the    *)
(* positions, in ascending order and without -1.                           *)
ByIterationIndex(rows, positions) ==
  LET iterations == {r.iteration : r \in DOMAIN rows}
      numbered == iterations \ {-1}
      selected == {i \in numbered : Cardinality({j \in numbered : j < i}) \in positions}
  IN IF iterations = {-1} THEN Frame(rows)
     ELSE IF selected = {} THEN NoFrame
     ELSE Frame(Kept(rows, LAMBDA r : r.iteration \in selected))

(* Mutant of Bracket: the rows of all streams. *)
BracketAllStreams(rows, method, op) ==
  Kept(rows, LAMBDA r :
    CASE method = "under" -> r.ts >= op.ts /\ r.end <= op.end
      [] method = "after" -> r.ts >= op.end
      [] method = "before" -> r.end <= op.ts)

(* OperatorFilter.__call__, once the operator was found: the bounds of the *)
(* frame, min(op.end, df.end.max()) and the like, exclude no row.          *)
Bracket(rows, method, op) ==
  Kept(rows, LAMBDA r :
    /\ r.stream = op.stream
    /\ CASE method = "under" -> r.ts >= op.ts /\ r.end <= op.end
         [] method = "after" -> r.ts >= op.end
         [] method = "before" -> r.end <= op.ts)

(* get_matching_kernels *)
MatchingKernels(ops, both) ==
  LET runtimes == {o.index : o \in {o \in DOMAIN ops : o.cat = "cuda_runtime"}}
  IN Kept(both, LAMBDA r : r.index_correlation \in runtimes)

WithKernels(ops, both, include_gpu_kernels) ==
  IF include_gpu_kernels THEN ops (+) MatchingKernels(ops, both) ELSE ops

(* One criterion of CombinedOperatorFilter, which is ignored if its        *)
(* operator is missing.                                                    *)
Narrowed(frames, method, name, position) ==
  UNION {LET ops == Occurrences(rows, name, position)
         IN IF ops = {} THEN {rows} ELSE {Bracket(rows, method, op) : op \in ops}
         : rows \in frames}

(* Mutant of CombinedRows: FirstIterationFilter is left out. *)
CombinedRowsOfFrame(f, rows) ==
  LET under == Narrowed({rows}, "under", f.root, 0)
      after == Narrowed(under, "after", f.preceding, -1)
      before == Narrowed(after, "before", f.following, 0)
  IN {WithKernels(res, rows, f.include_gpu_kernels) : res \in before}

(* CombinedOperatorFilter.__call__ of a frame that has rows; without a     *)
(* column depth there are no stack_depths to select by.                    *)
CombinedRows(f, rows) ==
  LET first == ByIterationIndex(rows, {0}).rows
      under == Narrowed({first}, "under", f.root, 0)
      after == Narrowed(under, "after", f.preceding, -1)
      before == Narrowed(after, "before", f.following, 0)
  IN {WithKernels(res, rows, f.include_gpu_kernels) : res \in before}

-----------------------------------------------------------------------------
Init ==
  /\ \E events \in Files :
       trace \in {ParsedRows(events), Loaded(events, TRUE), Loaded(events, FALSE)}
  /\ df = Frame(SetToBag(trace))
  /\ applied = << >>
  /\ raised = FALSE

Use(f) ==
  /\ ~raised /\ Len(applied) < MaxFilters
  /\ applied' = Append(applied, f)
  /\ UNCHANGED trace

(* A frame without columns is returned as it is, by every filter. *)
Applied(f, frames) ==
  df' \in (IF df.columns THEN frames ELSE {df}) /\ UNCHANGED raised

FilterRows(f) ==
  /\ f.kind \in {"iteration", "time", "name", "cpu", "gpu"}
  /\ Use(f)
  /\ Applied(f, {Frame(Kept(df.rows, LAMBDA r : Selects(f, r)))})

(* iterations[0] of a frame that has columns but no rows. *)
RaisesOnEmpty == df.columns /\ df.rows = EmptyBag

FilterIterationIndex(f) ==
  /\ f.kind = "iteration_index"
  /\ Use(f)
  /\ IF RaisesOnEmpty
     THEN raised' = TRUE /\ UNCHANGED df
     ELSE Applied(f, {ByIterationIndex(df.rows, f.positions)})

FilterOperator(f) ==
  /\ f.kind = "operator"
  /\ Use(f)
  /\ LET ops == Occurrences(df.rows, f.name, f.position)
     IN Applied(f, IF ops = {} THEN {NoFrame}
                   ELSE {Frame(WithKernels(Bracket(df.rows, f.method, op), df.rows,
                                           f.include_gpu_kernels)) : op \in ops})

FilterCombined(f) ==
  /\ f.kind = "combined"
  /\ Use(f)
  /\ IF RaisesOnEmpty
     THEN raised' = TRUE /\ UNCHANGED df
     ELSE Applied(f, {Frame(rows) : rows \in CombinedRows(f, df.rows)})

Next ==
  \E f \in Menu :
    FilterRows(f) \/ FilterIterationIndex(f) \/ FilterOperator(f) \/ FilterCombined(f)

Spec == Init /\ [][Next]_vars

-----------------------------------------------------------------------------
(* Properties *)

There(r) == BagIn(r, df.rows)

(* Filters that take kernels with their launches: those of operators look  *)
(* for names that no annotation of the device has.                         *)
TakesKernels(f) ==
  LET sought == CASE f.kind = "operator" -> {f.name}
                  [] f.kind = "combined" -> {f.root, f.preceding, f.following}
  IN \/ f.kind \in {"iteration", "iteration_index"}
     \/ /\ f.kind \in {"operator", "combined"} /\ f.include_gpu_kernels
        /\ \A r \in trace : r.name \in sought => r.stream < 0

(* Whatever filters with include_gpu_kernels and filters of iterations are *)
(* composed, in any order: a kernel is there only if its launch is, and if *)
(* a cuda_runtime launch is there, so is its kernel, though it runs later, *)
(* on a stream of its own (trace_stack_filter.py:26-28, 130-132, 281-283). *)
KernelsWithLaunches ==
  (\A i \in DOMAIN applied : TakesKernels(applied[i])) =>
    \A g, launch \in trace :
      g.stream > 0 /\ g.index_correlation > 0 /\ launch.index = g.index_correlation =>
        /\ There(g) => There(launch)
        /\ There(launch) /\ launch.cat = "cuda_runtime" => There(g)

(* CombinedOperatorFilter looks for the kernels in the whole frame and for *)
(* all else in the first iteration; it selects what it would select had    *)
(* the frame been cut to the first iteration before.  Device               *)
(* synchronizations do not count, their iteration is that of their own     *)
(* time stamp (trace_stack_filter.py:260, 281-283).                        *)
FirstIterationAbsorbed ==
  df.rows # EmptyBag =>
    \A f \in Menu : f.kind = "combined" =>
      LET Selected(rows) == {{r \in DOMAIN selected : r.name \notin SyncNames}
                              : selected \in CombinedRows(f, rows)}
      IN Selected(df.rows) = Selected(ByIterationIndex(df.rows, {0}).rows)

-----------------------------------------------------------------------------
(* What the documentation says and the code does not do *)

(* "After: events that occur after or at the end of the operator           *)
(* occurrence" (trace_stack_filter.py:35): with the end of the operator on *)
(* the clock of the trace.                                                 *)
AfterIsAfter ==
  \A f \in Menu :
    f.kind = "operator" /\ f.method = "after" /\ applied = <<f>> =>
      LET ops == Occurrences(SetToBag(trace), f.name, f.position)
      IN ops # {} => \E op \in ops : \A r \in trace :
           r.stream = op.stream /\ r.ts >= op.ts + op.dur => There(r)
=============================================================================
