-------------------------- MODULE CriticalPathRows --------------------------
(***************************************************************************)
(* What hta/analyzers/critical_path_analysis.py looks up in the data frame *)
(* of a rank: the rows of the window, which of them get nodes, and which   *)
(* launches a CUDA event separates.                                        *)
(*                                                                         *)
(* Beside the columns of LaunchRows a row has pid, cat, record, the        *)
(* correlation of the cudaEventRecord that a synchronization waited for,   *)
(* and wait_on_stream, the stream of that event.                           *)
(***************************************************************************)
EXTENDS EventOrder, LaunchRows

CONSTANTS
  Annotation,      \* the name of the annotation that is analyzed, "" for the whole trace
  DataLoadEvents,  \* the names of the caller's data load events
  None             \* Python's None

LockNames == {"alloc", "launch", "copy"}                    \* CUDA_RUNTIME_EVENTS
BlockingNames == {"device sync", "event query", "copy"}     \* BLOCKING_SYNC_CALLS
Locks(e) == e.name \in LockNames
Blocks(e) == e.name \in BlockingNames

RowAt(rows, index) == CHOOSE r \in rows : r.index = index

-----------------------------------------------------------------------------
(* critical_path_analysis: the rows of the annotation's instances, from    *)
(* the first to the last, both included, numbered in file order; all rows  *)
(* if no name is given *)

Annotations(rows) == {a \in rows : Annotation \in {"", a.name}}
Instances(rows, first, last) ==
  {a \in Annotations(rows) :
     \/ Annotation = ""
     \/ Cardinality({b \in Annotations(rows) : b.index < a.index}) \in first .. last}

StartsIn(e, annotations) ==
  /\ e.dur > 0
  /\ \E a \in annotations : a.ts <= e.ts
  /\ \E a \in annotations : e.ts <= a.ts + a.dur

(* Rows of the host that start in the window, the device rows linked to    *)
(* them, and every wait of a stream.                                       *)
Clipped(rows, annotations) ==
  LET host == {e \in rows : e.stream = -1}
      calls == {e \in host : StartsIn(e, annotations)}
  IN calls \cup {k \in rows \ host : \/ k.name = "Stream Wait Event"
                                     \/ \E c \in calls : c.index_correlation = k.index}

(* _create_event_nodes *)
HasNodes(e) ==
  \/ e.cat \in {"cpu_op", "cuda_runtime"}
  \/ e.name \in DataLoadEvents
  \/ e.stream # -1 /\ e.index_correlation >= 0

-----------------------------------------------------------------------------
(* A node is an end of an event. *)

Start(e) == [of |-> e, start |-> TRUE]
End(e) == [of |-> e, start |-> FALSE]
Ts(n) == IF n.start THEN n.of.ts ELSE n.of.ts + n.of.dur
Nodes(rows) == {Start(e) : e \in rows} \cup {End(e) : e \in rows}
NodesOf(rows) == {n \in Nodes(rows) : HasNodes(n.of)}

(* Mutant of NodeBefore: what starts at a time comes before what ends. *)
StartBefore(m, n) ==
  \/ Ts(m) < Ts(n)
  \/ Ts(m) = Ts(n) /\ m.start /\ ~n.start
  \/ Ts(m) = Ts(n) /\ m.start = n.start /\ m.of.index < n.of.index

(* node_list: by time and then by index; sort_values by two columns is     *)
(* stable, and the starts come before the ends.                            *)
NodeBefore(m, n) ==
  \/ Ts(m) < Ts(n)
  \/ Ts(m) = Ts(n) /\ m.of.index < n.of.index
  \/ Ts(m) = Ts(n) /\ m.of.index = n.of.index /\ m.start /\ ~n.start

(* compare_events of hta/common/call_stack.py, for events that last, which *)
(* is all that StartsIn keeps: the order of LessThan.                      *)
EventEnd(n) == IF n.start THEN OpenEnd(n.of) ELSE CloseEnd(n.of)
EventBefore(m, n) == LessThan(EventEnd(m), EventEnd(n))

(* _shares_cuda_runtime_lock *)
SharesLock(m, n) == Locks(m.of) /\ Locks(n.of) /\ (m.start \/ ~n.start)

-----------------------------------------------------------------------------
(* _construct_graph_from_call_stacks: the tid of the backward thread is    *)
(* changed into that of the forward thread, when there is one of each;     *)
(* a tid 0 is taken for none *)

TidsOf(rows, name) ==
  {e.tid : e \in {d \in rows : d.name = name /\ d.cat \in {"cpu_op", "user_annotation"}}}

MergesBackward(rows) ==
  /\ Cardinality(TidsOf(rows, "forward")) = 1
  /\ Cardinality(TidsOf(rows, "autograd")) = 1
  /\ TidsOf(rows, "forward") # TidsOf(rows, "autograd")
  /\ 0 \notin TidsOf(rows, "forward") \cup TidsOf(rows, "autograd")

ThreadOf(rows, e) ==
  IF MergesBackward(rows) /\ e.tid \in TidsOf(rows, "autograd")
  THEN [pid |-> e.pid, tid |-> CHOOSE t \in TidsOf(rows, "forward") : TRUE]
  ELSE [pid |-> e.pid, tid |-> e.tid]

HostRows(rows) == {e \in rows : e.stream = -1}
HostThreads(rows) == {ThreadOf(rows, e) : e \in HostRows(rows)}
ThreadRows(rows, thread) == {e \in HostRows(rows) : ThreadOf(rows, e) = thread}

-----------------------------------------------------------------------------
(* CUDA events.  The launches of a stream are those of the kernels on it.  *)

LinkedKernels(rows, call) ==
  {k \in GpuKernels(rows) : k.index_correlation > 0 /\ k.index = call.index_correlation}
LaunchesOn(rows, stream) ==
  {c \in RuntimeCalls(rows) : \E k \in LinkedKernels(rows, c) : k.stream = stream}

(* _get_cuda_event_record_df: the last launch, of any thread, on the       *)
(* stream of the event before it was recorded.                             *)
RecordOf(rows, correlation) ==
  {r \in rows : r.name = "cudaEventRecord" /\ r.correlation = correlation}
StreamOfRecord(rows, correlation) ==
  {w.wait_on_stream : w \in {v \in rows : v.wait_on_stream > -1 /\ v.record = correlation}}
PreviousLaunch(rows, sync) ==
  {c \in UNION {LaunchesOn(rows, s) : s \in StreamOfRecord(rows, sync.record)} :
     \E r \in RecordOf(rows, sync.record) :
       /\ c.ts < r.ts
       /\ \A s \in StreamOfRecord(rows, sync.record) : \A d \in LaunchesOn(rows, s) :
            d.ts < r.ts => d.ts <= c.ts}

(* _get_cuda_stream_wait_event_df: the waits that are linked to the row of *)
(* their stream; and the first launch of the thread on the waiting stream  *)
(* after the wait was called.                                              *)
WaitNames == {"cudaStreamWaitEvent", "Stream Wait Event"}
LinkedWaits(rows) ==
  {c \in rows : /\ c.name = "cudaStreamWaitEvent" /\ c.index_correlation > 0
                /\ LinkedKernels(rows, c) # {}}
NextLaunch(rows, wait) ==
  LET call == RowAt(rows, wait.index_correlation)
      later == {c \in LaunchesOn(rows, wait.stream) :
                  c.pid = call.pid /\ c.tid = call.tid /\ call.ts < c.ts}
  IN {c \in later : \A d \in later : c.ts <= d.ts}

=============================================================================
