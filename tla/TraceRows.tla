----------------------------- MODULE TraceRows ------------------------------
(***************************************************************************)
(* The functions of hta/common/trace.py that compute on the data frame of  *)
(* one rank, and the two filters of hta/common/trace_filter.py they use.   *)
(*                                                                         *)
(* A data frame is a set of rows.  A row keeps the columns the functions   *)
(* read; a name or a category stands for its id, because every look-up     *)
(* here is made with the symbol table that coded the data frame.           *)
(***************************************************************************)
EXTENDS Integers, FiniteSets, FiniteSetsExt

CONSTANTS
  StepNumber,  \* the iteration number of every ProfilerStep name
  SyncNames,   \* "Event Sync" and "Context Sync"
  NaN          \* what pandas leaves in a cell that no assignment reached

StepNames == DOMAIN StepNumber

ASSUME StepAssumption == \A n \in StepNames : StepNumber[n] \in Nat

ColumnMax(rows, Cell(_)) == Max({Cell(r) : r \in rows})
ColumnMin(rows, Cell(_)) == Min({Cell(r) : r \in rows})

-----------------------------------------------------------------------------
(* Filters *)

(* _filter_gpu_kernels_with_cuda_sync *)
OnGpu(r) == (r.stream >= 0 /\ r.correlation >= 0) \/ r.name \in SyncNames

GpuRows(rows) == {r \in rows : OnGpu(r)}
CpuRows(rows) == {r \in rows : ~OnGpu(r)}

-----------------------------------------------------------------------------
(* Parsing: the columns that parse_trace_file adds *)

(* The rows of the other device with the correlation of r. *)
Partners(rows, r) ==
  {p \in rows : /\ r.correlation # -1
                /\ p.correlation = r.correlation
                /\ OnGpu(p) # OnGpu(r)}

(* transform_correlation_to_index: of several partners the last one of the *)
(* merged frame, whose rows are in file order, is assigned last.           *)
IndexCorrelation(rows, r) ==
  IF Partners(rows, r) # {}
  THEN ColumnMax(Partners(rows, r), LAMBDA p : p.index)
  ELSE IF r.correlation < 0 THEN r.correlation ELSE 0

ProfilerSteps(rows) == {r \in rows : r.name \in StepNames}

(* _get_profiler_step: the last step in file order that contains ts. *)
StepAt(rows, ts) ==
  LET steps == {s \in ProfilerSteps(rows) : s.ts <= ts /\ ts < s.ts + s.dur}
      last == CHOOSE s \in steps : \A t \in steps : t.index <= s.index
  IN IF steps = {} THEN -1 ELSE StepNumber[last.name]

(* A row on the host, or a row on stream 0 that is a cpu_op, has the       *)
(* iteration of its time stamp.                                            *)
IterationByTime(rows, r) ==
  IF r.stream < 0 \/ (r.stream = 0 /\ r.cat = "cpu_op") THEN StepAt(rows, r.ts) ELSE NaN

(* add_iteration: a row on a stream above 0 has the iteration of the row   *)
(* it is linked to, which got its own before; a link to row 0 is no link,  *)
(* and no assignment reaches the other rows of stream 0.                   *)
Iteration(rows, r) ==
  LET linked == IndexCorrelation(rows, r)
  IN IF r.stream <= 0
     THEN IterationByTime(rows, r)
     ELSE IF linked > 0
     THEN IterationByTime(rows, CHOOSE p \in rows : p.index = linked)
     ELSE -1

(* What parse_trace_file makes of the events of a file. *)
ParsedRow(events, e) ==
  [index |-> e.index, ts |-> e.ts, dur |-> e.dur, stream |-> e.stream,
   correlation |-> e.correlation, name |-> e.name, cat |-> e.cat,
   index_correlation |-> IndexCorrelation(events, e),
   iteration |-> Iteration(events, e),
   end |-> e.ts + e.dur]
ParsedRows(events) == {ParsedRow(events, e) : e \in events}

-----------------------------------------------------------------------------
(* Loading: alignment and filtering *)

(* Mutant of Aligned: only the rows of the host. *)
AlignedHost(rows, min_ts) ==
  {[r EXCEPT !.ts = IF r.stream < 0 THEN @ - min_ts ELSE @] : r \in rows}

(* _align_all_ranks moves ts and leaves end, an absolute time, alone. *)
Aligned(rows, min_ts) == {[r EXCEPT !.ts = @ - min_ts] : r \in rows}

(* filter_gpu_kernels_with_cpu_correlation: the rows of the host before    *)
(* the last step, or up to its end, and the kernels they launched.         *)
KeptCpuRows(rows, include_last) ==
  LET cpu == CpuRows(rows)
      steps == ProfilerSteps(cpu)
      last_start == IF steps # {} THEN ColumnMax(steps, LAMBDA r : r.ts)
                                  ELSE ColumnMin(cpu, LAMBDA r : r.ts)
      last_end == ColumnMax(IF steps # {} THEN steps ELSE cpu, LAMBDA r : r.end)
  IN IF include_last THEN {r \in cpu : r.ts <= last_end}
                     ELSE {r \in cpu : r.ts < last_start}

(* Mutant of Filtered: kernels are cut by time, as host rows are. *)
FilteredByTime(rows, include_last) ==
  LET cpu == KeptCpuRows(rows, include_last)
  IN IF CpuRows(rows) = {} THEN rows
     ELSE cpu \cup {g \in GpuRows(rows) : \E c \in cpu : c.ts >= g.ts}

Filtered(rows, include_last) ==
  LET cpu == KeptCpuRows(rows, include_last)
  IN IF CpuRows(rows) = {} THEN rows
     ELSE cpu \cup {g \in GpuRows(rows) : \E c \in cpu : c.correlation = g.correlation}

=============================================================================
