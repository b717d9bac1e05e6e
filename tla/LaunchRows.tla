----------------------------- MODULE LaunchRows -----------------------------
(***************************************************************************)
(* Launches and what they enqueue, as the analyzers find them in the data  *)
(* frame of one rank: the filters and the join on the correlation with     *)
(* which hta/analyzers/trace_counters.py begins.                           *)
(*                                                                         *)
(* A row has the columns index, ts, dur, stream, tid, name, correlation    *)
(* and index_correlation.  A name stands for the names a filter treats     *)
(* alike: "launch" for the calls that enqueue a kernel, "copy" for those   *)
(* that enqueue a copy.                                                    *)
(***************************************************************************)
EXTENDS Integers, FiniteSets, FiniteSetsExt

(* get_runtime_launch_events_mask *)
IsLaunch(r) == r.name \in {"launch", "copy"} /\ r.index_correlation > 0
RuntimeCalls(rows) == {r \in rows : IsLaunch(r)}

(* The events of the device. *)
GpuKernels(rows) == {r \in rows : r.stream # -1}

(* The kernels that the join on the correlation gives a launch. *)
Enqueued(rows, call) == {k \in GpuKernels(rows) : k.correlation = call.correlation}

(* The kernels of a launch in the data frame, a semi-join. *)
Started(rows) == {k \in GpuKernels(rows) : \E c \in RuntimeCalls(rows) : c.correlation = k.correlation}

(* A row of the merged frame: how the row r changes the queue that the     *)
(* kernel k is in.                                                         *)
Change(k, r, by) ==
  [work |-> k.index, group |-> k.stream, index |-> r.index, ts |-> r.ts, by |-> by]

(* The left join keeps a call without kernel, on the stream -2 (NaN): no   *)
(* group of groupby has it.                                                *)
Increments(rows) ==
  UNION {{Change(k, c, 1) : k \in Enqueued(rows, c)} : c \in RuntimeCalls(rows)}

(* Mutant of Decrements: no semi-join, kernels of other calls are left in. *)
DecrementsOfAll(rows) == {Change(k, k, -1) : k \in GpuKernels(rows)}

Decrements(rows) == {Change(k, k, -1) : k \in Started(rows)}
QueueChanges(rows) == Increments(rows) \cup Decrements(rows)

(* assert len(runtime_calls_filt) == len(gpu_kernels_filt) *)
CallsMatchKernels(rows) ==
  LET joined(c) == Cardinality(Enqueued(rows, c))
      rows_of(c) == IF joined(c) = 0 THEN 1 ELSE joined(c)
  IN MapThenSumSet(rows_of, RuntimeCalls(rows)) = Cardinality(Started(rows))

(* The queue length in the row of r, when no two changes of its stream     *)
(* have the same time stamp.                                               *)
QueueLength(rows, r) ==
  LET stream == (CHOOSE c \in QueueChanges(rows) : c.index = r.index).group
      until == {c \in QueueChanges(rows) : c.group = stream /\ c.ts <= r.ts}
  IN MapThenSumSet(LAMBDA c : c.by, until)

=============================================================================
