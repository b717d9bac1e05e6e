----------------------------- MODULE CallGraph ------------------------------
(***************************************************************************)
(* hta/common/trace_call_graph.py, class CallGraph, with the call stacks   *)
(* of hta/common/trace_call_stack.py that it constructs: rank by rank and  *)
(* thread by thread the events are replayed, kernels are linked to their   *)
(* launches, the backward thread is connected to the main thread, and the  *)
(* result is saved in columns of the data frame.  Then it is queried.      *)
(***************************************************************************)
EXTENDS CallStack

CONSTANTS
  Ranks,     \* the ranks of the trace, which are integers
  Traces,    \* the data frames that the ranks may have, each a set of rows
  Sorted(_), \* Python's sorted() with the order LessThan
  Asked,     \* the indices that queries ask for
  Graphs,    \* how many call graphs are constructed of the trace, one after the other
  None       \* Python's None

VARIABLES
  trace,       \* the data frame of every rank
  pc,          \* what the constructor does next; "ready" when it returned
  todo,        \* the ranks that are not begun
  rank,        \* the rank under construction
  threads,     \* its threads that are not begun
  thread,      \* the thread under construction
  ends,        \* the ends of the thread's events that are not replayed yet
  stack,       \* the stack of the replay, its last element is the top
  links,       \* the pairs of launch and kernel that are not linked yet
  annotations, \* the annotations the backward stack is not linked to yet
  nodes,       \* rank_to_nodes
  stacks,      \* call_stacks, with the rows of mapping
  columns,     \* the stack columns of the data frames
  width,       \* the bits of the integers in their column height
  graphs,      \* the number of call graphs that were begun
  cached_rank,
  answer       \* of the last query

threadVars == <<thread, ends, stack, links>>
buildVars == <<pc, todo, rank, threads, threadVars, annotations, nodes, stacks, columns, width,
               graphs>>
queryVars == <<cached_rank, answer>>
vars == <<trace, buildVars, queryVars>>

(* An index names one event, time does not start below zero, and a kernel  *)
(* is linked to an event of the host.                                      *)
ASSUME TracesAssumption ==
  \A frames \in Traces :
    /\ DOMAIN frames = Ranks
    /\ \A r \in Ranks : \A d, e \in frames[r] :
         /\ d.index = e.index => d = e
         /\ e.index \in Nat /\ e.ts \in Nat /\ e.dur \in Nat /\ e.tid \in Nat
         /\ d.stream > 0 /\ d.index_correlation = e.index /\ e.index > 0 => e.stream = -1

ASSUME RanksAssumption == Ranks \subseteq Nat /\ IsFiniteSet(Ranks) /\ Ranks # {}
ASSUME GraphsAssumption == Graphs \in Nat

-----------------------------------------------------------------------------
(* Threads *)

ThreadRows(rows, th) == {e \in rows : e.pid = th.pid /\ e.tid = th.tid}
HostRows(rows, th) == {e \in ThreadRows(rows, th) : e.stream = -1}

(* infer_device_type *)
IsGpu(rows) ==
  \/ \A e \in rows : e.stream > 0
  \/ \A e \in rows : e.pid = 0
  \/ \A e \in rows : e.tid = 0

(* groupby(["pid", "tid"]), without the GPU streams *)
Threads(rows) ==
  {th \in {[pid |-> e.pid, tid |-> e.tid] : e \in rows} : ~IsGpu(ThreadRows(rows, th))}
ThreadBefore(s, t) == s.pid < t.pid \/ (s.pid = t.pid /\ s.tid < t.tid)

Label(rows, th) ==
  LET names == {e.name : e \in ThreadRows(rows, th)}
  IN IF "ProfilerStep#" \in names THEN "main"
     ELSE IF "autograd::" \in names THEN "bwd" ELSE "other"

RootIndex(th) == -th.tid

(* get_cpu_gpu_correlation, for the events of one thread *)
Links(rows, th) ==
  {[cpu |-> k.index_correlation, gpu |-> k.index] :
     k \in {d \in rows : /\ d.stream > 0 /\ d.index_correlation > 0
                         /\ \E e \in ThreadRows(rows, th) : e.index = d.index_correlation}}

(* sorted() returns what it is given, in some order. *)
ASSUME SortedAssumption ==
  \A frames \in Traces : \A r \in Ranks : \A th \in Threads(frames[r]) :
    LET host == HostRows(frames[r], th)
        sorted == Sorted(Melted(host))
    IN sorted \in Seq(EndsOf(host)) /\ EndsOf(host) \subseteq Range(sorted)

-----------------------------------------------------------------------------
DefaultColumns ==
  [parent |-> -1, depth |-> -1, height |-> -1, num_kernels |-> 0,
   kernel_dur_sum |-> 0, first_kernel_start |-> -1, last_kernel_end |-> -1, kernel_span |-> 0]

Init ==
  /\ trace \in Traces
  /\ pc = "rank"
  /\ todo = Ranks /\ rank = None
  /\ threads = {} /\ thread = None
  /\ ends = << >> /\ stack = << >> /\ links = {}
  /\ annotations = {}
  /\ nodes = [r \in {} |-> {}]
  /\ stacks = << >>
  /\ columns = [r \in {} |-> {}]
  /\ width = [r \in Ranks |-> 64]
  /\ graphs = 1
  /\ cached_rank = None
  /\ answer = None

(* Mutant of StartRank: the columns are not reset. *)
StartRankWithoutColumns ==
  /\ pc = "rank"
  /\ \E r \in todo :
       /\ \A s \in todo : r <= s
       /\ rank' = r
       /\ todo' = todo \ {r}
       /\ nodes' = Put(nodes, r, [n \in {} |-> {}])
       /\ threads' = Threads(trace[r])
  /\ pc' = "thread"
  /\ UNCHANGED <<trace, threadVars, annotations, stacks, columns, width, graphs, queryVars>>

(* _build_call_stacks resets the columns and the nodes of the rank. *)
StartRank ==
  /\ pc = "rank"
  /\ \E r \in todo :
       /\ \A s \in todo : r <= s
       /\ rank' = r
       /\ todo' = todo \ {r}
       /\ nodes' = Put(nodes, r, [n \in {} |-> {}])
       /\ columns' = Put(columns, r, [i \in {e.index : e \in trace[r]} |-> DefaultColumns])
       /\ threads' = Threads(trace[r])
  /\ pc' = "thread"
  /\ UNCHANGED <<trace, threadVars, annotations, stacks, width, graphs, queryVars>>

(* CallStackGraph.__init__ up to the sorted array of ends. *)
StartThread ==
  /\ pc = "thread"
  /\ \E th \in threads :
       /\ \A t \in threads \ {th} : ThreadBefore(th, t)
       /\ thread' = th
       /\ threads' = threads \ {th}
       /\ nodes' = Put(nodes, rank, WithRoot(nodes[rank], RootIndex(th)))
       /\ ends' = Sorted(Melted(HostRows(trace[rank], th)))
       /\ links' = Links(trace[rank], th)
  /\ pc' = IF IsEventsSorted(ends') THEN "replay" ELSE "raised"
  /\ stack' = << >>
  /\ UNCHANGED <<trace, todo, rank, annotations, stacks, columns, width, graphs, queryVars>>

(* The replay: an event that begins is a child of the event on the top of  *)
(* the stack, and an end pops whatever is there.                           *)
OpenEvent ==
  /\ pc = "replay" /\ ends # << >> /\ Head(ends).kind = Open
  /\ LET root == RootIndex(thread)
         parent == IF stack # << >> THEN stack[Len(stack)] ELSE root
     IN nodes' = Put(nodes, rank, AddEdge(nodes[rank], root, parent, Head(ends).index, "CPU"))
  /\ stack' = Append(stack, Head(ends).index)
  /\ ends' = Tail(ends)
  /\ UNCHANGED <<trace, pc, todo, rank, threads, thread, links, annotations, stacks, columns, width, graphs,
                 queryVars>>

CloseEvent ==
  /\ pc = "replay" /\ ends # << >> /\ Head(ends).kind = Close
  /\ stack' = IF stack # << >> THEN SubSeq(stack, 1, Len(stack) - 1) ELSE stack
  /\ ends' = Tail(ends)
  /\ UNCHANGED <<trace, pc, todo, rank, threads, thread, links, annotations, nodes, stacks,
                 columns, width, graphs, queryVars>>

(* _link_cpu_and_gpu *)
LinkKernel ==
  /\ pc = "replay" /\ ends = << >>
  /\ \E link \in links :
       /\ \A l \in links : link.gpu <= l.gpu
       /\ links' = links \ {link}
       /\ nodes' = Put(nodes, rank,
                       AddEdge(nodes[rank], RootIndex(thread), link.cpu, link.gpu, "GPU"))
  /\ UNCHANGED <<trace, pc, todo, rank, threads, thread, ends, stack, annotations, stacks,
                 columns, width, graphs, queryVars>>

FinishThread ==
  /\ pc = "replay" /\ ends = << >> /\ links = {}
  /\ stacks' = Append(stacks, [rank |-> rank, thread |-> thread, root |-> RootIndex(thread),
                               label |-> Label(trace[rank], thread)])
  /\ pc' = "thread"
  /\ UNCHANGED <<trace, todo, rank, threads, threadVars, annotations, nodes, columns, width, graphs, queryVars>>

-----------------------------------------------------------------------------
(* Connecting the stacks of a rank *)

(* The positions in stacks of the main and backward threads of a rank; of  *)
(* exactly two the backward thread, or else the first, is connected to the *)
(* other.                                                                  *)
Labelled(r) ==
  {i \in DOMAIN stacks : stacks[i].rank = r /\ stacks[i].label \in {"bwd", "main"}}
LabelBefore(i, j) ==
  \/ stacks[i].label = "bwd" /\ stacks[j].label = "main"
  \/ stacks[i].label = stacks[j].label /\ i < j
Pairs(r) ==
  {pair \in Labelled(r) \X Labelled(r) :
     LabelBefore(pair[1], pair[2]) /\ Labelled(r) = {pair[1], pair[2]}}

Named(r, th, name) == {e.index : e \in {d \in ThreadRows(trace[r], th) : d.name = name}}

(* _get_backward_parents *)
BackwardParents(r, th) ==
  IF Named(r, th, "## backward ##") # {} THEN Named(r, th, "## backward ##")
  ELSE Named(r, th, "ProfilerStep#")

StartConnect ==
  /\ pc = "thread" /\ threads = {}
  /\ annotations' = UNION {BackwardParents(rank, stacks[pair[2]].thread) : pair \in Pairs(rank)}
  /\ pc' = "connect"
  /\ UNCHANGED <<trace, todo, rank, threads, threadVars, nodes, stacks, columns, width, graphs, queryVars>>

(* Mutant of Guarded: every event within the annotation. *)
GuardedByTime(root, annotation) ==
  LET a == CHOOSE e \in trace[rank] : e.index = annotation
  IN {e.index : e \in {d \in trace[rank] : a.ts <= d.ts /\ d.end <= a.end}}

(* The first-layer nodes of the stack that lie within an annotation. *)
Guarded(root, annotation) ==
  LET a == CHOOSE e \in trace[rank] : e.index = annotation
  IN {c \in nodes[rank][root].children :
        \E d \in trace[rank] : d.index = c /\ a.ts <= d.ts /\ d.end <= a.end}

(* update_parent_of_first_layer_nodes raises when a node is missing, and   *)
(* the loop of get_root may not end.                                       *)
LinkAnnotation ==
  /\ pc = "connect"
  /\ \E annotation \in annotations, pair \in Pairs(rank) :
       /\ \A a \in annotations : annotation <= a
       /\ annotations' = annotations \ {annotation}
       /\ LET root == stacks[pair[1]].root
              updated == UpdateParent(nodes[rank], Guarded(root, annotation), annotation)
          IN IF {root, annotation} \subseteq DOMAIN nodes[rank]
             THEN /\ nodes' = Put(nodes, rank, updated)
                  /\ IF root \in DOMAIN updated
                     THEN UNCHANGED <<pc, stacks>>
                     ELSE IF ReachesRoot(updated, annotation)
                     THEN /\ stacks' = [stacks EXCEPT ![pair[1]].root = GetRoot(updated, annotation)]
                          /\ UNCHANGED pc
                     ELSE pc' = "hung" /\ UNCHANGED stacks
             ELSE pc' = "raised" /\ UNCHANGED <<nodes, stacks>>
  /\ UNCHANGED <<trace, todo, rank, threads, threadVars, columns, width, graphs, queryVars>>

Row(r, index) == CHOOSE e \in trace[r] : e.index = index

(* The kernel columns of an event, from the kernels under its node. *)
KernelColumns(r, saved, n, kernels) ==
  LET t_max == 2 * Max({e.ts : e \in trace[r]})
      first == Min({t_max} \cup {Row(r, k).ts : k \in kernels})
      last == Max({-1} \cup {Row(r, k).end : k \in kernels})
  IN [num |-> Cardinality(kernels),
      sum |-> MapThenSumSet(LAMBDA k : Row(r, k).dur, kernels),
      span |-> IF saved[n].children = {} /\ kernels = {} THEN 0 ELSE last - first,
      first |-> first, last |-> last]

(* astype: what a column of so many bits keeps of a number. *)
Cast(x, bits) == IF bits = 64 THEN x ELSE ((x + 2 ^ (bits - 1)) % 2 ^ bits) - 2 ^ (bits - 1)

(* to_numeric(downcast="integer"): the fewest bits that hold all values. *)
Downcast(values) ==
  IF values \subseteq -128 .. 127 THEN 8 ELSE IF values \subseteq -32768 .. 32767 THEN 16 ELSE 64

(* save_call_stack_to_dataframe(apply_whole_graph=True): parents and       *)
(* depths are cast to the type that the column height has, and an event    *)
(* that no root leads to has no kernel columns.                            *)
SavedColumns(r, saved) ==
  LET height == Heights(saved)
      under == Reached(saved, AllRootIndices(saved))
  IN [i \in DOMAIN columns[r] |->
        IF i \notin DOMAIN saved THEN columns[r][i]
        ELSE LET k == IF i \in under THEN KernelColumns(r, saved, i, KernelsUnder(saved, i))
                      ELSE [num |-> 0, sum |-> 0, span |-> 0, first |-> -1, last |-> -1]
             IN [parent |-> Cast(saved[i].parent, width[r]), depth |-> Cast(saved[i].depth, width[r]),
                 height |-> Cast(height[i], width[r]),
                 num_kernels |-> k.num, kernel_dur_sum |-> k.sum, kernel_span |-> k.span,
                 first_kernel_start |-> k.first, last_kernel_end |-> k.last]]

(* _normalize_stack_columns *)
Normalized(cols) ==
  [i \in DOMAIN cols |->
     IF cols[i].num_kernels > 0 THEN cols[i]
     ELSE [DefaultColumns EXCEPT !.parent = cols[i].parent, !.depth = cols[i].depth,
                                 !.height = cols[i].height]]

(* The last of all stacks saves its rank, and then the rank that was       *)
(* constructed is normalized: the same, unless that has no stack.          *)
SaveStacks ==
  /\ pc = "connect" /\ annotations = {}
  /\ LET last == IF stacks = << >> THEN rank ELSE stacks[Len(stacks)].rank
         saved == WithDepth(nodes[last])
         with_saved == Put(columns, last, SavedColumns(last, saved))
         normalized == Normalized(with_saved[rank])
     IN /\ nodes' = Put(nodes, last, saved)
        /\ columns' = Put(with_saved, rank, normalized)
        /\ width' = [width EXCEPT ![rank] =
                       Downcast({normalized[i].height : i \in DOMAIN normalized})]
  /\ pc' = IF todo = {} THEN "ready" ELSE "rank"
  /\ cached_rank' = IF todo = {} THEN Min(Ranks) ELSE cached_rank
  /\ UNCHANGED <<trace, todo, rank, threads, threadVars, annotations, stacks, graphs, answer>>

(* The constructor once more, for the same trace: the frames keep their    *)
(* columns.                                                                *)
ConstructAgain ==
  /\ pc = "ready" /\ graphs < Graphs
  /\ graphs' = graphs + 1
  /\ pc' = "rank"
  /\ todo' = Ranks /\ rank' = None
  /\ nodes' = [r \in {} |-> {}]
  /\ stacks' = << >>
  /\ cached_rank' = None /\ answer' = None
  /\ UNCHANGED <<trace, threads, threadVars, annotations, columns, width>>

-----------------------------------------------------------------------------
(* Queries *)

(* The rank whose data a query uses: the one asked for becomes the cached  *)
(* one when it is neither None nor 0.                                      *)
QueriedRank(asked) == IF asked \in Ranks \ {0} THEN asked ELSE cached_rank

(* The stack that a query finds for an event. *)
StackOf(r, e) ==
  {i \in DOMAIN stacks : stacks[i].rank = r /\ stacks[i].thread = [pid |-> e.pid, tid |-> e.tid]}

(* The event whose stack is asked for: of a kernel, its launch.  The query *)
(* raises when that is no row of the data frame or its thread no stack.    *)
OnStack(r, index) ==
  IF Row(r, index).stream > 0 THEN columns[r][index].parent ELSE index
Found(r, index) ==
  /\ index \in DOMAIN columns[r] /\ OnStack(r, index) \in DOMAIN columns[r]
  /\ StackOf(r, Row(r, OnStack(r, index))) # {}

(* get_node_attributes; no row in an answer is an exception. *)
GetNodeAttributes(index, asked) ==
  /\ pc = "ready"
  /\ LET r == QueriedRank(asked) IN
       /\ cached_rank' = r
       /\ answer' = [op |-> "node", asked |-> asked, index |-> index, rank |-> r,
                     rows |-> {index} \cap DOMAIN columns[r], stack |-> {}]
  /\ UNCHANGED <<trace, buildVars>>

(* get_csg_of_node *)
GetCsgOfNode(index, asked) ==
  /\ pc = "ready"
  /\ LET r == QueriedRank(asked)
         on == OnStack(r, index)
     IN /\ cached_rank' = r
        /\ answer' = [op |-> "csg", asked |-> asked, index |-> index, rank |-> r,
                      rows |-> IF Found(r, index) THEN {on} ELSE {},
                      stack |-> IF Found(r, index) THEN StackOf(r, Row(r, on)) ELSE {}]
  /\ UNCHANGED <<trace, buildVars>>

(* get_stack_of_node *)
StackRows(r, index, skip_ancestors) ==
  LET on == OnStack(r, index)
      below == IF on = index THEN Descendants(nodes[r], on, FALSE) ELSE {index}
      above == IF skip_ancestors THEN {} ELSE PathToRoot(nodes[r], on)
  IN (below \cup above) \cap Nat

GetStackOfNode(index, asked, skip_ancestors) ==
  /\ pc = "ready"
  /\ LET r == QueriedRank(asked)
         found == Found(r, index)
     IN /\ cached_rank' = r
        /\ answer' = [op |-> IF skip_ancestors THEN "below" ELSE "stack",
                      asked |-> asked, index |-> index, rank |-> r,
                      rows |-> IF found THEN StackRows(r, index, skip_ancestors) ELSE {},
                      stack |-> IF found THEN StackOf(r, Row(r, OnStack(r, index))) ELSE {}]
  /\ UNCHANGED <<trace, buildVars>>

GetGpuKernels(asked) ==
  /\ pc = "ready"
  /\ LET r == QueriedRank(asked) IN
       /\ cached_rank' = r
       /\ answer' = [op |-> "kernels", asked |-> asked, index |-> -1, rank |-> r,
                     rows |-> {e.index : e \in {d \in trace[r] : d.stream # -1}}, stack |-> {}]
  /\ UNCHANGED <<trace, buildVars>>

Build ==
  \/ StartRank \/ StartThread \/ OpenEvent \/ CloseEvent \/ LinkKernel \/ FinishThread
  \/ StartConnect \/ LinkAnnotation \/ SaveStacks \/ ConstructAgain

Query ==
  \E asked \in Ranks \cup {None} :
    \/ GetGpuKernels(asked)
    \/ \E index \in Asked :
         \/ GetNodeAttributes(index, asked) \/ GetCsgOfNode(index, asked)
         \/ \E skip_ancestors \in BOOLEAN : GetStackOfNode(index, asked, skip_ancestors)

Next == Build \/ Query

Spec == Init /\ [][Next]_vars

-----------------------------------------------------------------------------
(* Properties *)

(* Every variable has its type. *)
TypeOK ==
  /\ DOMAIN trace = Ranks
  /\ pc \in {"rank", "thread", "replay", "connect", "ready", "raised", "hung"}
  /\ todo \subseteq Ranks /\ rank \in Ranks \cup {None}
  /\ stack \in Seq(Int)
  /\ DOMAIN nodes \subseteq Ranks
  /\ \A r \in DOMAIN nodes : DOMAIN nodes[r] \subseteq Int /\ Range(nodes[r]) \subseteq NodeType
  /\ DOMAIN nodes \subseteq DOMAIN columns
  /\ width \in [Ranks -> {8, 16, 64}]
  /\ cached_rank \in Ranks \cup {None}
  /\ pc = "ready" => cached_rank \in Ranks

(* At every moment parents and children tell the same: who has a parent    *)
(* that is a node is listed there, and a listed child has that parent      *)
(* (trace_call_stack.py:393-425, 464-493).                                 *)
ParentsAgree ==
  \A r \in DOMAIN nodes : \A n \in DOMAIN nodes[r] :
    /\ n >= 0 => /\ nodes[r][n].parent \in DOMAIN nodes[r]
                 /\ n \in nodes[r][nodes[r][n].parent].children
    /\ \A c \in nodes[r][n].children :
         c \in DOMAIN nodes[r] /\ nodes[r][c].parent = n

(* No node is its own ancestor, so that get_root and get_path_to_root      *)
(* return for every node (trace_call_stack.py:523-560).                    *)
PathsEnd ==
  \A r \in DOMAIN nodes : \A n \in DOMAIN nodes[r] : ReachesRoot(nodes[r], n)

(* The events of the thread that enclose e, by their times; of two events  *)
(* with the same times the first in the file encloses the other.           *)
Encloses(p, e) ==
  /\ p.index # e.index /\ p.stream = -1 /\ e.stream = -1 /\ p.pid = e.pid /\ p.tid = e.tid
  /\ p.ts <= e.ts /\ e.ts + e.dur <= p.ts + p.dur
  /\ p.dur > e.dur \/ (p.dur = e.dur /\ p.index < e.index)
Enclosing(r, e) == {p \in trace[r] : Encloses(p, e)}

(* The annotation a backward event is executed for: the first that holds   *)
(* the outermost event around it.                                          *)
AnnotationsOf(r, e) ==
  LET outermost == CHOOSE f \in Enclosing(r, e) \cup {e} : Enclosing(r, f) = {}
      holding(pair) ==
        {a \in trace[r] : /\ a.index \in BackwardParents(r, stacks[pair[2]].thread)
                          /\ a.ts <= outermost.ts /\ outermost.end <= a.end}
  IN {a \in UNION {holding(pair) : pair \in {p \in Pairs(r) : stacks[p[1]].thread.tid = e.tid}} :
        \A pair \in Pairs(r) : \A b \in holding(pair) : a.index <= b.index}

(* What is on the stack when e is executed, as a reader of the trace sees  *)
(* it on the clock.                                                        *)
Above(r, e) ==
  LET own == Enclosing(r, e)
      of == AnnotationsOf(r, e)
  IN own \cup of \cup UNION {Enclosing(r, a) : a \in of}

Host(r) == {e \in trace[r] : e.stream = -1}
Launched(r, e) ==
  {k \in trace[r] : k.stream > 0 /\ k.index_correlation = e.index /\ k.index_correlation > 0}
KernelsBelow(r, e) ==
  UNION {Launched(r, c) : c \in {d \in Host(r) : d = e \/ e \in Above(r, d)}}

(* The graph is finished, and no query, which changes nothing of it, was   *)
(* made.                                                                   *)
Finished == pc = "ready" /\ answer = None

(* In the finished graph the parent of an event is the innermost event     *)
(* around it, on its thread or, for the backward thread, the annotation of *)
(* the main thread; an event nothing encloses has the root of its thread,  *)
(* and a kernel has its launch (trace_call_stack.py:346-384, 431-462).     *)
ParentsByTime ==
  Finished => \A r \in Ranks : \A e \in Host(r) :
    LET above == Above(r, e)
        p == columns[r][e.index].parent
    IN /\ IF above = {} THEN p = -e.tid
          ELSE \E q \in above : q.index = p /\ above = Above(r, q) \cup {q}
       /\ \A k \in Launched(r, e) : columns[r][k.index].parent = e.index

(* The depth of an event is the number of events around it, a kernel is    *)
(* one below its launch, and the height counts the events and the kernel   *)
(* down to the deepest (trace_call_stack.py:631-690).                      *)
DepthsByTime ==
  Finished => \A r \in Ranks : \A e \in Host(r) :
    LET depth == Cardinality(Above(r, e))
        below == {d \in Host(r) : d = e \/ e \in Above(r, d)}
    IN /\ columns[r][e.index].depth = depth
       /\ columns[r][e.index].height = 1 + Max({Cardinality(Above(r, d)) - depth : d \in below})
       /\ \A k \in Launched(r, e) :
            columns[r][k.index].depth = depth + 1 /\ columns[r][k.index].height = 0

(* The kernels counted for an event are those launched while it was on the *)
(* stack, in the backward thread too, and the span of their times starts   *)
(* at first_kernel_start and ends at last_kernel_end                       *)
(* (trace_call_stack.py:769-868).                                         *)
KernelsByTime ==
  Finished => \A r \in Ranks : \A e \in Host(r) :
    LET kernels == KernelsBelow(r, e)
        c == columns[r][e.index]
    IN /\ c.num_kernels = Cardinality(kernels)
       /\ c.kernel_dur_sum = MapThenSumSet(LAMBDA k : k.dur, kernels)
       /\ c.first_kernel_start = IF kernels = {} THEN -1 ELSE Min({k.ts : k \in kernels})
       /\ c.last_kernel_end = IF kernels = {} THEN -1 ELSE Max({k.end : k \in kernels})

(* The stack of an event is what encloses it by the clock, the event, and  *)
(* what is below it with the kernels launched there; of a kernel, itself   *)
(* and the stack above its launch.  Rows are of one rank, and they come    *)
(* without the ancestors when those are skipped                            *)
(* (trace_call_graph.py:419-464, trace_call_stack.py:540-621).             *)
AnswersHoldThePath ==
  (answer # None) => (answer.op \in {"stack", "below"} /\ answer.stack # {} =>
    LET r == answer.rank
        e == Row(r, OnStack(r, answer.index))
        below == IF e.index # answer.index THEN {answer.index}
                 ELSE {d.index : d \in {d \in Host(r) : d = e \/ e \in Above(r, d)}}
                        \cup {k.index : k \in KernelsBelow(r, e)}
        above == {e.index} \cup {p.index : p \in Above(r, e)}
    IN /\ answer.rows = below \cup (IF answer.op = "stack" THEN above ELSE {})
       /\ r = cached_rank /\ \A i \in answer.stack : stacks[i].rank = r)

(* The sort ends in an order that its own test accepts, for every nesting  *)
(* of a thread's events, and the constructor always returns                *)
(* (trace_call_stack.py:112-128, 363-366, 536-537).                        *)
Constructs == pc \notin {"raised", "hung"}

-----------------------------------------------------------------------------
(* What the documentation says and the code does not do *)

(* "a zero event is enclosed in a non-zero events"                         *)
(* (trace_call_stack.py:43), and the constructor assumes "no overlap       *)
(* between the time intervals of the entities on the same level of the     *)
(* graph" (trace_call_stack.py:333): an event lies within its parent.      *)
ChildrenLieWithin ==
  Finished => \A r \in Ranks : \A e, p \in Host(r) :
    columns[r][e.index].parent = p.index /\ e.tid = p.tid =>
      p.ts <= e.ts /\ e.ts + e.dur <= p.ts + p.dur

=============================================================================
