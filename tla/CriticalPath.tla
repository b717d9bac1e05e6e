---------------------------- MODULE CriticalPath ----------------------------
(***************************************************************************)
(* The critical path of the events of one rank                             *)
(* (hta/analyzers/critical_path_analysis.py, with the call stacks of       *)
(* hta/common/call_stack.py): a graph whose nodes are the ends of events   *)
(* is constructed in three passes, over the calls that take the lock of    *)
(* the CUDA runtime, over the call stacks of the threads, and over the     *)
(* kernels of the device; then its longest path is found.                  *)
(***************************************************************************)
EXTENDS CriticalPathRows

CONSTANTS
  Traces,     \* the data frames that are analyzed
  Asked,      \* the instances that are asked for, pairs of first and last
  Options,    \* the values of the two options of hta/configs/env_options.py
  Threshold   \* KERNEL_KERNEL_DELAY_THRESHOLD_US

(* An index names one row; the calls that take the lock are rows of the    *)
(* host, and what is named after a synchronization is one.                 *)
ASSUME TracesAssumption ==
  \A rows \in Traces :
    /\ IsFiniteSet(rows)
    /\ \A e \in rows :
         /\ e.ts \in Int /\ e.dur \in Int
         /\ Locks(e) => e.stream = -1
         /\ e.name \in {"Event Sync", "Context Sync"} => e.cat = "cuda_sync"
         /\ \A d \in rows : e.index = d.index => e = d

VARIABLES
  full,            \* full_trace_df
  asked,           \* instance_id
  options,         \* launch_edges, strict
  trace,           \* trace_df, the clipped data frame
  pc,              \* what is done next; "returned" or "raised" at the end
  left,            \* what the loop at hand has not come to
  threads,         \* the threads whose call stack is still to come
  starts,          \* start_nodes
  stack,           \* the events of the thread that are open
  last_node,       \* the node that the loop at hand came to last
  last_ev_parent,  \* the parent of its event on the call stack
  op_depth,        \* the number of open events with nodes
  last_on,         \* the last node of each stream
  kernel_sync,     \* the kernel whose end a kernel waits for
  edges,           \* type and weight of each edge
  edge_to_event,   \* the event that an edge is attributed to
  result           \* whether the critical path was found, and its length

input == <<full, asked, options>>
graph == <<edges, edge_to_event>>
locals == <<starts, stack, last_node, last_ev_parent, op_depth, last_on, kernel_sync>>
vars == <<input, trace, pc, left, threads, locals, graph, result>>

-----------------------------------------------------------------------------
(* Edges *)

Spans == {"operator", "kernel delay"}  \* OPERATOR_KERNEL, KERNEL_KERNEL_DELAY
EdgeTypes == Spans \cup {"dependency", "sync", "launch delay"}

(* _add_edge_helper: dependencies weigh nothing. *)
Edge(m, n, type, zero_weight) ==
  [type |-> type,
   weight |-> IF type \in {"dependency", "sync"} \/ zero_weight THEN 0 ELSE Ts(n) - Ts(m)]

EdgesInto(nodes, n, type, zero_weight) ==
  [p \in {<<m, n>> : m \in nodes} |-> Edge(p[1], n, type, zero_weight)]

(* Edges are added one by one, the last of those with the same nodes stays. *)
With(map, new) ==
  [p \in DOMAIN map \cup DOMAIN new |-> IF p \in DOMAIN new THEN new[p] ELSE map[p]]
AddEdge(map, m, n, edge) == With(map, [p \in {<<m, n>>} |-> edge])

(* Mutant of Attributed: the pause between two calls goes to the first. *)
AttributedToSource(m, n, src_parent) == m.of.index

(* _attribute_edge *)
Attributed(m, n, src_parent) ==
  IF m.start THEN m.of.index
  ELSE IF ~n.start THEN n.of.index
  ELSE src_parent

-----------------------------------------------------------------------------
Init ==
  /\ full \in Traces /\ asked \in Asked /\ options \in Options
  /\ trace = {} /\ pc = "clip" /\ left = {} /\ threads = {}
  /\ starts = {} /\ stack = << >>
  /\ last_node = None /\ last_ev_parent = None /\ op_depth = 0
  /\ last_on = << >> /\ kernel_sync = << >>
  /\ edges = << >> /\ edge_to_event = << >>
  /\ result = None

LockNodes(rows) == {n \in NodesOf(rows) : Locks(n.of)}

(* The window of no instance has NaN for its bounds, which query() does    *)
(* not know.  Without the annotation there is no analysis, unless another  *)
(* rank has it: all ranks share the symbol table that it is looked up in.  *)
Clip ==
  /\ pc = "clip"
  /\ LET instances == Instances(full, asked.first, asked.last)
     IN IF instances = {}
        THEN /\ pc' \in IF Annotations(full) = {} THEN {"returned", "raised"} ELSE {"raised"}
             /\ UNCHANGED <<trace, left>>
        ELSE /\ trace' = Clipped(full, instances)
             /\ left' = LockNodes(trace')
             /\ pc' = "locks"
  /\ UNCHANGED <<input, threads, locals, graph, result>>

-----------------------------------------------------------------------------
(* _construct_graph_from_cuda_runtime_events *)

(* The end of a call: every call that waits is linked to it, and the end   *)
(* before it, if no call began after that.                                 *)
LockEdges(n) ==
  LET before == IF last_node = None \/ last_node \in starts THEN {} ELSE {last_node}
  IN [p \in {<<m, n>> : m \in starts \cup before}
        |-> Edge(p[1], n, IF p[1].of = n.of THEN "operator" ELSE "dependency", FALSE)]

PassLock ==
  /\ pc = "locks"
  /\ \E n \in left :
       /\ \A m \in left \ {n} : NodeBefore(n, m)
       /\ left' = left \ {n}
       /\ last_node' = n
       /\ IF n.start
          THEN starts' = starts \cup {n} /\ UNCHANGED graph
          ELSE /\ starts' = {}
               /\ edges' = With(edges, LockEdges(n))
               /\ edge_to_event' =
                    With(edge_to_event, [p \in {<<Start(n.of), n>>} \cap DOMAIN LockEdges(n) |-> n.of.index])
  /\ UNCHANGED <<input, trace, pc, threads, stack, last_ev_parent, op_depth, last_on, kernel_sync, result>>

FinishLocks ==
  /\ pc = "locks" /\ left = {}
  /\ threads' = HostThreads(trace)
  /\ pc' = "threads"
  /\ UNCHANGED <<input, trace, left, locals, graph, result>>

-----------------------------------------------------------------------------
(* _construct_graph_from_call_stacks, thread after thread.  The call stack *)
(* is replayed end by end, and the traversal enters and exits the nodes in *)
(* the order in which the replay opens and closes them.                    *)

StartThread ==
  /\ pc = "threads"
  /\ \E t \in threads :
       /\ \A u \in threads : t.pid < u.pid \/ (t.pid = u.pid /\ t.tid <= u.tid)
       /\ threads' = threads \ {t}
       /\ left' = Nodes(ThreadRows(trace, t))
  /\ stack' = << >>
  /\ last_node' = None /\ last_ev_parent' = None /\ op_depth' = 0
  /\ pc' = "replay"
  /\ UNCHANGED <<input, trace, starts, last_on, kernel_sync, graph, result>>

Top(s) == IF s = << >> THEN -1 ELSE Last(s).index

(* Mutant of Link: the locks are not looked at. *)
LinkAlways(n, type, zero_weight) ==
  IF last_node # None
  THEN /\ edges' = AddEdge(edges, last_node, n, Edge(last_node, n, type, zero_weight))
       /\ edge_to_event' =
            IF type \in Spans
            THEN AddEdge(edge_to_event, last_node, n, Attributed(last_node, n, last_ev_parent))
            ELSE edge_to_event
  ELSE UNCHANGED graph

(* An edge to n, if the pass over the locks does not answer for it. *)
Link(n, type, zero_weight) ==
  IF last_node # None /\ ~SharesLock(last_node, n)
  THEN /\ edges' = AddEdge(edges, last_node, n, Edge(last_node, n, type, zero_weight))
       /\ edge_to_event' =
            IF type \in Spans
            THEN AddEdge(edge_to_event, last_node, n, Attributed(last_node, n, last_ev_parent))
            ELSE edge_to_event
  ELSE UNCHANGED graph

(* Mutant of Exit: the depth of an event that blocks is not given back. *)
ExitKeepsDepth(e, parent) ==
  IF HasNodes(e)
  THEN /\ Link(End(e), "operator", Blocks(e))
       /\ last_node' = End(e) /\ last_ev_parent' = parent
       /\ op_depth' = IF Blocks(e) THEN op_depth ELSE op_depth - 1
  ELSE UNCHANGED <<graph, last_node, last_ev_parent, op_depth>>

(* enter_func and exit_func; an event without nodes is passed over. *)
Enter(e, parent) ==
  IF HasNodes(e)
  THEN /\ Link(Start(e), IF op_depth = 0 THEN "dependency" ELSE "operator", FALSE)
       /\ last_node' = Start(e) /\ last_ev_parent' = parent /\ op_depth' = op_depth + 1
  ELSE UNCHANGED <<graph, last_node, last_ev_parent, op_depth>>

Exit(e, parent) ==
  IF HasNodes(e)
  THEN /\ Link(End(e), "operator", Blocks(e))
       /\ last_node' = End(e) /\ last_ev_parent' = parent /\ op_depth' = op_depth - 1
  ELSE UNCHANGED <<graph, last_node, last_ev_parent, op_depth>>

(* An opening end is pushed, a closing end pops whatever is on top. *)
ReplayEnd ==
  /\ pc = "replay"
  /\ \E n \in left :
       /\ \A m \in left \ {n} : EventBefore(n, m)
       /\ left' = left \ {n}
       /\ IF n.start
          THEN stack' = Append(stack, n.of) /\ Enter(n.of, Top(stack))
          ELSE stack' = Front(stack) /\ Exit(Last(stack), Top(Front(stack)))
  /\ UNCHANGED <<input, trace, pc, threads, starts, last_on, kernel_sync, result>>

FinishThread ==
  /\ pc = "replay" /\ left = {}
  /\ pc' = "threads"
  /\ UNCHANGED <<input, trace, left, threads, locals, graph, result>>

-----------------------------------------------------------------------------
(* _construct_graph_from_kernels *)

IsSync(r) == r.cat = "cuda_sync"

DeviceRows(rows) ==
  {r \in rows : /\ r.stream # -1 \/ r.name \in {"Event Sync", "Context Sync"}
                /\ r.index_correlation >= 0}

(* Mutant of SortBy: synchronizations are sorted by their start. *)
SortByStart(r) == r.ts

SortBy(r) == IF IsSync(r) THEN r.ts + r.dur ELSE r.ts

(* The queue lengths are needed, and their assertion has to hold.  When    *)
(* the symbol table has both names of the waits, there has to be one that  *)
(* is linked; the names may also come from another rank.                   *)
StartKernels ==
  /\ pc = "threads" /\ threads = {}
  /\ LET named == WaitNames \subseteq {r.name : r \in full}
         unlinked == LinkedWaits(full) = {}
     IN \/ pc' = "raised" /\ UNCHANGED left
           /\ (QueueChanges(full) = {} \/ ~CallsMatchKernels(full) \/ unlinked)
        \/ pc' = "kernels" /\ left' = DeviceRows(trace)
           /\ QueueChanges(full) # {} /\ CallsMatchKernels(full) /\ ~(unlinked /\ named)
  /\ UNCHANGED <<input, trace, threads, locals, graph, result>>

InGraph(index) == \E e \in trace : e.index = index /\ HasNodes(e)
LinkedRow(c) == RowAt(full, c.index_correlation)

(* The kernels whose end a synchronization waited for: of the launch       *)
(* before the event, if that is in the window; or the last of a stream, or *)
(* of every stream.                                                        *)
AwaitedNodes(r) ==
  CASE r.name = "Event Sync" ->
         {End(LinkedRow(c)) : c \in {d \in PreviousLaunch(full, r) : InGraph(d.index_correlation)}}
    [] r.name = "Stream Sync" -> {last_on[s] : s \in DOMAIN last_on \cap {r.stream}}
    [] r.name = "Context Sync" -> {last_on[s] : s \in DOMAIN last_on}
    [] OTHER -> {}

(* The end of the call on the host waits for them; the assertion does not  *)
(* hold for any other name.                                                *)
SyncHost(r) ==
  /\ IsSync(r) /\ r.name # "Stream Wait Event"
  /\ edges' =
       IF InGraph(r.index_correlation)
       THEN LET n == End(RowAt(trace, r.index_correlation))
            IN With(edges, EdgesInto(AwaitedNodes(r), n, "sync", FALSE))
       ELSE edges
  /\ pc' = IF r.name \in {"Event Sync", "Stream Sync", "Context Sync"} THEN pc ELSE "raised"
  /\ UNCHANGED <<edge_to_event, last_on, kernel_sync>>

(* The next kernel of the stream will wait for the last one before the     *)
(* event; a wait whose call is not in the trace raises.                    *)
SyncStream(r) ==
  /\ IsSync(r) /\ r.name = "Stream Wait Event"
  /\ LET known == \E c \in LinkedWaits(full) : c.index = r.index_correlation
     IN IF PreviousLaunch(full, r) = {}
        THEN UNCHANGED <<pc, kernel_sync>>
        ELSE IF ~known
        THEN pc' = "raised" /\ UNCHANGED kernel_sync
        ELSE /\ \E c \in PreviousLaunch(full, r) :
                  kernel_sync' = With(kernel_sync,
                    [i \in {d.index_correlation : d \in NextLaunch(full, r)} |-> c.index_correlation])
             /\ UNCHANGED pc
  /\ UNCHANGED <<graph, last_on>>

(* The queue of the kernel's stream held nothing else when it was launched *)
(* and nothing when it started.                                            *)
HasLength(index, length) ==
  \E r \in full : /\ r.index = index
                  /\ \E c \in QueueChanges(full) : c.index = index
                  /\ QueueLength(full, r) = length

LaunchDelays(k, awaited, previous) ==
  /\ HasLength(k.index_correlation, 1) /\ HasLength(k.index, 0)
  /\ \A n \in awaited \cup previous : Ts(n) < LinkedRow(k).ts

KernelDelays(k, awaited, previous) ==
  \E n \in previous : /\ Ts(Start(k)) - Ts(n) < Threshold
                      /\ \A m \in awaited : Ts(m) < Ts(n)

(* A kernel: its span, and what its start waited for: another kernel, its  *)
(* launch, or the kernel before it.                                        *)
AddKernel(k) ==
  /\ ~IsSync(k)
  /\ LET awaited == IF k.index \in DOMAIN kernel_sync /\ kernel_sync[k.index] # None
                      /\ InGraph(kernel_sync[k.index])
                    THEN {End(RowAt(trace, kernel_sync[k.index]))} ELSE {}
         previous == {last_on[s] : s \in DOMAIN last_on \cap {k.stream}}
         launch == {Start(e) : e \in {d \in trace : d.index = k.index_correlation /\ HasNodes(d)}}
         launched == LaunchDelays(k, awaited, previous)
         delayed == ~launched /\ KernelDelays(k, awaited, previous)
         span == EdgesInto({Start(k)}, End(k), "operator", FALSE)
         delay == EdgesInto(IF delayed THEN previous ELSE {}, Start(k), "kernel delay", FALSE)
         call == EdgesInto(IF launched \/ options.launch_edges THEN launch ELSE {}, Start(k),
                           "launch delay", ~launched)
     IN /\ edges' = With(With(With(With(edges, span), EdgesInto(awaited, Start(k), "sync", FALSE)), delay), call)
        /\ edge_to_event' =
             With(edge_to_event, [p \in DOMAIN span \cup DOMAIN delay |-> p[1].of.index])
        /\ pc' = IF launched /\ launch = {} THEN "raised" ELSE pc
  /\ kernel_sync' = [i \in DOMAIN kernel_sync |-> IF i = k.index THEN None ELSE kernel_sync[i]]
  /\ last_on' = With(last_on, [s \in {k.stream} |-> End(k)])

PassDeviceRow ==
  /\ pc = "kernels"
  /\ \E r \in left :
       /\ \A s \in left : SortBy(r) <= SortBy(s)
       /\ left' = left \ {r}
       /\ SyncHost(r) \/ SyncStream(r) \/ AddKernel(r)
  /\ UNCHANGED <<input, trace, threads, starts, stack, last_node, last_ev_parent, op_depth, result>>

FinishKernels ==
  /\ pc = "kernels" /\ left = {}
  /\ pc' = "built"
  /\ UNCHANGED <<input, trace, left, threads, locals, graph, result>>

-----------------------------------------------------------------------------
(* critical_path *)

GraphNodes == NodesOf(trace)

(* _validate_graph: unless the check is strict, a negative weight is set   *)
(* to zero in the graph, and only there.                                   *)
WeightOf(p) == IF edges[p].weight <= -1 /\ ~options.strict THEN 0 ELSE edges[p].weight

NegativeWeights == options.strict /\ \E p \in DOMAIN edges : edges[p].weight < -1
SyncOnSameStream ==
  \E p \in DOMAIN edges : /\ edges[p].type = "sync" /\ p[1].of.stream # -1
                           /\ p[1].of.stream = p[2].of.stream

(* The ends of the walks of k edges; in an acyclic graph no walk has as    *)
(* many edges as there are nodes.                                          *)
Walks[k \in Nat] ==
  IF k = 0 THEN GraphNodes
  ELSE LET before == Walks[k - 1] IN {p[2] : p \in {q \in DOMAIN edges : q[1] \in before}}
HasCycles == Walks[Cardinality(GraphNodes)] # {}

IsValid == ~NegativeWeights /\ ~SyncOnSameStream /\ ~HasCycles

(* networkx: the longest walk of at most k edges to each node; a path      *)
(* starts afresh rather than being negative.                               *)
Dist[k \in Nat] ==
  IF k = 0 THEN [n \in GraphNodes |-> 0]
  ELSE LET before == Dist[k - 1]
       IN [n \in GraphNodes |->
             Max({0} \cup {before[p[1]] + WeightOf(p) : p \in {q \in DOMAIN edges : q[2] = n}})]
LongestPath ==
  LET dist == Dist[Cardinality(GraphNodes)] IN Max({0} \cup {dist[n] : n \in GraphNodes})

(* A path of no length is a single node, of which the assertion complains. *)
FindPath ==
  /\ pc = "built"
  /\ IF ~IsValid
     THEN pc' = "returned" /\ result' = [success |-> FALSE, length |-> 0]
     ELSE IF LongestPath = 0
     THEN pc' = "raised" /\ UNCHANGED result
     ELSE pc' = "returned" /\ result' = [success |-> TRUE, length |-> LongestPath]
  /\ UNCHANGED <<input, trace, left, threads, locals, graph>>

-----------------------------------------------------------------------------
Next ==
  \/ Clip
  \/ PassLock \/ FinishLocks
  \/ StartThread \/ ReplayEnd \/ FinishThread
  \/ StartKernels \/ PassDeviceRow \/ FinishKernels
  \/ FindPath

Spec == Init /\ [][Next]_vars

-----------------------------------------------------------------------------
(* The variables hold values of these kinds; the depth that enter_func and *)
(* exit_func count is at most that of the call stack and never negative.   *)
TypeOK ==
  /\ asked \in Asked /\ options \in Options
  /\ trace \subseteq full
  /\ pc \in {"clip", "locks", "threads", "replay", "kernels", "built", "returned", "raised"}
  /\ left \subseteq Nodes(trace) \cup trace
  /\ threads \subseteq HostThreads(trace)
  /\ starts \subseteq NodesOf(trace) /\ stack \in Seq(trace)
  /\ last_node \in NodesOf(trace) \cup {None}
  /\ last_ev_parent \in {e.index : e \in trace} \cup {-1, None}
  /\ op_depth \in 0 .. Len(stack)
  /\ \A s \in DOMAIN last_on : last_on[s] \in NodesOf(trace)
  /\ \A i \in DOMAIN kernel_sync : kernel_sync[i] \in {e.index : e \in full} \cup {None}
  /\ DOMAIN edges \subseteq NodesOf(trace) \X NodesOf(trace)
  /\ \A p \in DOMAIN edges : edges[p].type \in EdgeTypes /\ edges[p].weight \in Int
  /\ DOMAIN edge_to_event \subseteq DOMAIN edges
  /\ result \in {None} \cup [success : BOOLEAN, length : Nat]

-----------------------------------------------------------------------------
(* An edge is added once: neither another pass nor another rule of the     *)
(* same pass overwrites its type and weight (add_edge replaces them in     *)
(* silence, line 255, and the attribution of the first edge would stay).   *)
EdgesStay ==
  [][\A p \in DOMAIN edges : p \in DOMAIN edges' /\ edges'[p] = edges[p]]_vars

Within(e, d) ==
  /\ ThreadOf(trace, e) = ThreadOf(trace, d) /\ d.ts <= e.ts /\ e.ts + e.dur <= d.ts + d.dur
  /\ e.ts = d.ts /\ e.dur = d.dur => d.index < e.index
Inside(e) == {d \in HostRows(trace) : Within(d, e)}
ChildrenOf(e) == {c \in Inside(e) : \A d \in Inside(e) : c \notin Inside(d)}

(* What the summary counts for an event on the host is its self time: the  *)
(* edges attributed to it last as long as the event without its children,  *)
(* unless the locks or a synchronization answer for it, or an event        *)
(* without nodes is inside it (_attribute_edge, line 294).                 *)
SelfTime ==
  pc = "built" =>
    \A e \in HostRows(trace) :
      HasNodes(e) /\ ~Locks(e) /\ ~Blocks(e) /\ (\A d \in Inside(e) : HasNodes(d)) =>
        LET mine == {p \in DOMAIN edge_to_event : edge_to_event[p] = e.index}
        IN MapThenSumSet(LAMBDA p : edges[p].weight, mine)
             = e.dur - MapThenSumSet(LAMBDA c : c.dur, ChildrenOf(e))

(* The synchronization r has to wait for the kernel k: it is of the same   *)
(* stream or of the device, it ends after k, and no other kernel of the    *)
(* stream starts between k and the end of r.                               *)
WaitsFor(r, k) ==
  LET end == r.ts + r.dur
  IN /\ IsSync(r) /\ ~IsSync(k)
     /\ r.name = "Context Sync" \/ (r.name = "Stream Sync" /\ r.stream = k.stream)
     /\ k.ts < end /\ k.ts + k.dur <= end
     /\ \A l \in DeviceRows(trace) :
          l.stream = k.stream /\ ~IsSync(l) /\ l # k /\ l.ts >= k.ts => l.ts > end

(* A call that synchronizes with a stream waits in the graph for the last  *)
(* kernel of the stream that ended before the call did (the sort by the    *)
(* end of synchronizations, line 1210).                                    *)
SyncsWait ==
  pc = "built" =>
    \A r, k \in DeviceRows(trace) :
      WaitsFor(r, k) /\ InGraph(r.index_correlation) =>
        <<End(k), End(RowAt(trace, r.index_correlation))>> \in DOMAIN edges

(* The analysis of a trace whose events are in order finds a path, and the *)
(* path is not longer than the time from the first node to the last: no    *)
(* edge leads back in time (_validate_graph, line 1491).                   *)
PathFitsWindow ==
  result # None =>
    /\ result.success
    /\ \E m, n \in GraphNodes : result.length <= Ts(n) - Ts(m)
=============================================================================
