------------------------- MODULE CriticalPathProofs -------------------------
(***************************************************************************)
(* For every trace, every selection of instances and every choice of the   *)
(* options: no edge of the graph is overwritten, and synchronizations wait *)
(* for the kernels they have to wait for.  Where the events of a thread    *)
(* nest, the edges attributed to an event add up to its self time, and     *)
(* where the device keeps the order of CUDA, the path fits the window.     *)
(***************************************************************************)
EXTENDS CriticalPath, SequenceTheorems, SetInduction

(* The pass over the locks adds edges from ends of calls to ends at which  *)
(* one returns.                                                            *)
LockPair(p) == p[1] \in LockNodes(trace) /\ p[2] \in LockNodes(trace) /\ ~p[2].start

HostNodes == Nodes(HostRows(trace))
HostPair(p) == p[1] \in HostNodes /\ p[2] \in HostNodes

(* The nodes that the call stacks have not come to. *)
Pending ==
  {n \in HostNodes : ThreadOf(trace, n.of) \in threads}
    \cup {n \in left : n.start}
    \cup {End(n.of) : n \in {m \in left : m.start}}
    \cup {End(stack[i]) : i \in DOMAIN stack}

(* The events of the thread that are open. *)
OpenRows == {e \in HostRows(trace) : Start(e) \notin left /\ End(e) \in left}

(* An edge of the pass over the kernels leads to a node of a kernel that   *)
(* was handled, or makes a call wait.                                      *)
GpuEnd(n) == ~n.start /\ n.of.stream # -1
KernelPair(p) ==
  /\ p[2].of \in DeviceRows(trace) \ left
  /\ p[2].start \/ p[1].start
SyncPair(p) ==
  /\ GpuEnd(p[1]) /\ ~p[2].start
  /\ edges[p] = [type |-> "sync", weight |-> 0]

Rows == full \in Traces /\ trace \subseteq full /\ \A e \in HostRows(trace) : e.dur > 0
Begun == pc = "clip" => edges = << >> /\ starts = {} /\ last_node = None /\ stack = << >>
LockPhase ==
  pc = "locks" =>
    /\ left \subseteq LockNodes(trace) /\ starts \subseteq LockNodes(trace)
    /\ last_node = None \/ last_node \in LockNodes(trace)
    /\ \A p \in DOMAIN edges : LockPair(p) /\ p[2] \notin left
    /\ stack = << >>
ThreadPhase ==
  pc \in {"threads", "replay"} =>
    /\ threads \subseteq HostThreads(trace)
    /\ \A p \in DOMAIN edges : HostPair(p) /\ (LockPair(p) \/ p[2] \notin Pending)
    /\ pc = "threads" => left = {}
ReplayPhase ==
  pc = "replay" =>
    /\ left \subseteq HostNodes
    /\ \A n \in left : ThreadOf(trace, n.of) \notin threads /\ (n.start => End(n.of) \in left)
    /\ last_node = None \/ last_node \in HostNodes
    /\ stack \in Seq(HostRows(trace))
    /\ \A i \in DOMAIN stack :
         /\ Start(stack[i]) \notin left /\ ThreadOf(trace, stack[i]) \notin threads
         /\ \A j \in DOMAIN stack : stack[i] = stack[j] => i = j
    /\ Len(stack) = Cardinality(OpenRows)
KernelPhase ==
  /\ pc \in {"clip", "locks", "threads", "replay"} => last_on = << >>
  /\ pc = "kernels" =>
       /\ left \subseteq DeviceRows(trace)
       /\ \A s \in DOMAIN last_on : GpuEnd(last_on[s])
       /\ \A p \in DOMAIN edges : HostPair(p) \/ KernelPair(p) \/ SyncPair(p)

IInv == Rows /\ Begun /\ LockPhase /\ ThreadPhase /\ ReplayPhase /\ KernelPhase

(* What EdgesStay says of a step. *)
Kept == \A p \in DOMAIN edges : p \in DOMAIN edges' /\ edges'[p] = edges[p]

-----------------------------------------------------------------------------
(* Nodes and edges. *)

LEMMA NodeFields ==
  /\ \A e : Start(e).of = e /\ Start(e).start = TRUE
  /\ \A e : End(e).of = e /\ End(e).start = FALSE
  BY DEF Start, End

LEMMA NodeCases ==
  ASSUME NEW rows, NEW n \in Nodes(rows)
  PROVE  /\ n.of \in rows /\ n.start \in BOOLEAN
         /\ n.start => n = Start(n.of)
         /\ ~n.start => n = End(n.of)
<1>1. \/ \E e \in rows : n = Start(e)
      \/ \E e \in rows : n = End(e)
  BY DEF Nodes
<1>2. CASE \E e \in rows : n = Start(e)
  BY <1>2, NodeFields
<1>3. CASE \E e \in rows : n = End(e)
  BY <1>3, NodeFields
<1> QED
  BY <1>1, <1>2, <1>3

LEMMA NodesIn ==
  ASSUME NEW rows, NEW e \in rows
  PROVE  Start(e) \in Nodes(rows) /\ End(e) \in Nodes(rows)
  BY DEF Nodes

LEMMA WithDomain ==
  ASSUME NEW map, NEW new
  PROVE  /\ \A p : p \in DOMAIN With(map, new) <=> p \in DOMAIN map \/ p \in DOMAIN new
         /\ \A p \in DOMAIN new : With(map, new)[p] = new[p]
         /\ \A p \in DOMAIN map : p \notin DOMAIN new => With(map, new)[p] = map[p]
  BY DEF With

LEMMA AddEdgeDomain ==
  ASSUME NEW map, NEW m, NEW n, NEW edge
  PROVE  /\ \A p : p \in DOMAIN AddEdge(map, m, n, edge) <=> p \in DOMAIN map \/ p = <<m, n>>
         /\ \A p \in DOMAIN map : p # <<m, n>> => AddEdge(map, m, n, edge)[p] = map[p]
  BY WithDomain DEF AddEdge

(* The calls that take the lock are rows of the host. *)
LEMMA LocksOfHost ==
  ASSUME Rows, NEW n \in LockNodes(trace)
  PROVE  n \in HostNodes /\ Locks(n.of)
<1>1. n \in Nodes(trace) /\ Locks(n.of)
  BY DEF LockNodes, NodesOf
<1>2. n.of \in trace
  BY <1>1, NodeCases
<1>3. n.of.stream = -1
  BY <1>1, <1>2, TracesAssumption DEF Rows
<1>4. n.of \in HostRows(trace)
  BY <1>2, <1>3 DEF HostRows
<1> QED
  BY <1>1, <1>4, NodeCases, NodesIn DEF HostNodes

LEMMA UniqueIndex ==
  ASSUME Rows, NEW d \in full, NEW e \in full, d.index = e.index
  PROVE  d = e
  BY TracesAssumption DEF Rows

LEMMA HostRowFacts ==
  ASSUME Rows, NEW e \in HostRows(trace)
  PROVE  e \in trace /\ e.ts \in Int /\ e.dur \in Int /\ e.dur > 0 /\ e.stream = -1
  BY TracesAssumption DEF Rows, HostRows

(* An event ends after it starts. *)
LEMMA EndAfterStart ==
  ASSUME NEW e, e.ts \in Int, e.dur \in Int, e.dur > 0
  PROVE  ~EventBefore(End(e), Start(e))
<1>1. EventEnd(End(e)) = CloseEnd(e) /\ EventEnd(Start(e)) = OpenEnd(e)
  BY NodeFields DEF EventEnd
<1>2. CloseEnd(e).time = e.ts + e.dur /\ OpenEnd(e).time = e.ts
  BY DEF CloseEnd, OpenEnd
<1> QED
  BY <1>1, <1>2 DEF EventBefore, LessThan

-----------------------------------------------------------------------------
(* The invariant is kept, action by action, and with it every edge. *)

LEMMA InitInv == Init => IInv
<1> SUFFICES ASSUME Init PROVE IInv
  OBVIOUS
<1> USE DEF Init
<1>1. Rows
  BY DEF Rows, HostRows
<1>2. Begun /\ LockPhase /\ ThreadPhase /\ ReplayPhase
  BY DEF Begun, LockPhase, ThreadPhase, ReplayPhase
<1>3. KernelPhase
  BY DEF KernelPhase
<1> QED
  BY <1>1, <1>2, <1>3 DEF IInv

LEMMA ClipStep == IInv /\ Clip => IInv' /\ Kept
<1> SUFFICES ASSUME IInv, Clip PROVE IInv' /\ Kept
  OBVIOUS
<1> DEFINE instances == Instances(full, asked.first, asked.last)
<1>0. /\ pc = "clip" /\ UNCHANGED <<input, threads, locals, graph, result>>
      /\ edges = << >> /\ starts = {} /\ last_node = None /\ stack = << >> /\ last_on = << >>
  BY DEF Clip, IInv, Begun, KernelPhase
<1>1. Kept
  BY <1>0 DEF Kept, graph
<1>2. CASE instances = {}
  <2>1. pc' \in {"returned", "raised"} /\ UNCHANGED <<trace, left>>
    BY <1>2 DEF Clip
  <2> QED
    BY <1>0, <1>1, <2>1
    DEF IInv, Rows, Begun, LockPhase, ThreadPhase, ReplayPhase, KernelPhase, HostRows, input
<1>3. CASE instances # {}
  <2>1. trace' = Clipped(full, instances) /\ left' = LockNodes(trace') /\ pc' = "locks"
    BY <1>3 DEF Clip
  <2>2. trace' \subseteq full /\ \A e \in trace' : e.stream = -1 => e.dur > 0
    BY <2>1 DEF Clipped, StartsIn
  <2>3. Rows'
    BY <1>0, <2>2 DEF Rows, HostRows, input, IInv
  <2>4. LockPhase'
    BY <1>0, <2>1 DEF LockPhase, locals, graph, LockNodes, NodesOf
  <2> QED
    BY <1>0, <1>1, <2>1, <2>3, <2>4
    DEF IInv, Begun, ThreadPhase, ReplayPhase, KernelPhase, locals, graph
<1> QED
  BY <1>2, <1>3

LEMMA PassLockStep == IInv /\ PassLock => IInv' /\ Kept
<1> SUFFICES ASSUME IInv, PassLock PROVE IInv' /\ Kept
  OBVIOUS
<1>0. /\ pc = "locks" /\ pc' = "locks"
      /\ UNCHANGED <<input, trace, threads, stack, last_on>>
      /\ last_on = << >> /\ LockPhase /\ Rows
  BY DEF PassLock, IInv, KernelPhase
<1>1. PICK n \in left :
        /\ left' = left \ {n} /\ last_node' = n
        /\ IF n.start
           THEN starts' = starts \cup {n} /\ UNCHANGED graph
           ELSE starts' = {} /\ edges' = With(edges, LockEdges(n))
  BY DEF PassLock
<1>2. n \in LockNodes(trace) /\ LockNodes(trace)' = LockNodes(trace)
  BY <1>0, <1>1 DEF LockPhase, LockNodes, NodesOf
<1>3. Rows'
  BY <1>0 DEF Rows, HostRows, input
<1>4. CASE n.start
  BY <1>0, <1>1, <1>2, <1>3, <1>4
  DEF IInv, Begun, LockPhase, LockPair, ThreadPhase, ReplayPhase, KernelPhase, Kept, graph
<1>5. CASE ~n.start
  <2>1. /\ \A p \in DOMAIN LockEdges(n) : p[1] \in LockNodes(trace) /\ p[2] = n
        /\ \A p \in DOMAIN edges : p \notin DOMAIN LockEdges(n)
    <3>1. \A p \in DOMAIN LockEdges(n) : p[1] \in LockNodes(trace) /\ p[2] = n
      BY <1>0 DEF LockEdges, LockPhase
    <3> QED
      BY <1>0, <1>1, <3>1 DEF LockPhase
  <2>2. (\A p \in DOMAIN edges' : p \in DOMAIN edges \/ p \in DOMAIN LockEdges(n)) /\ Kept
    <3>1. edges' = With(edges, LockEdges(n))
      BY <1>1, <1>5
    <3> HIDE DEF LockEdges
    <3> QED
      BY <2>1, <3>1, WithDomain DEF Kept
  <2>3. LockPhase'
    BY <1>0, <1>1, <1>2, <1>5, <2>1, <2>2 DEF LockPhase, LockPair
  <2> QED
    BY <1>0, <1>3, <2>2, <2>3 DEF IInv, Begun, ThreadPhase, ReplayPhase, KernelPhase
<1> QED
  BY <1>4, <1>5

LEMMA FinishLocksStep == IInv /\ FinishLocks => IInv' /\ Kept
<1> SUFFICES ASSUME IInv, FinishLocks PROVE IInv' /\ Kept
  OBVIOUS
<1>0. /\ pc = "locks" /\ left = {} /\ pc' = "threads" /\ threads' = HostThreads(trace)
      /\ UNCHANGED <<full, trace, left, edges, last_on>>
      /\ LockPhase /\ Rows /\ last_on = << >>
  BY DEF FinishLocks, IInv, KernelPhase, input, locals, graph
<1>1. Kept
  BY <1>0 DEF Kept
<1>2. Rows'
  BY <1>0 DEF Rows, HostRows
<1>3. ThreadPhase'
  <2>1. \A p \in DOMAIN edges : LockPair(p) /\ HostPair(p)
    BY <1>0, LocksOfHost DEF LockPhase, LockPair, HostPair
  <2> QED
    BY <1>0, <2>1
    DEF ThreadPhase, LockPair, HostPair, HostThreads, HostNodes, HostRows, LockNodes, NodesOf
<1> QED
  BY <1>0, <1>1, <1>2, <1>3 DEF IInv, Begun, LockPhase, ReplayPhase, KernelPhase

(* The next thread has no node that was passed. *)
LEMMA StartThreadStep == IInv /\ StartThread => IInv' /\ Kept
<1> SUFFICES ASSUME IInv, StartThread PROVE IInv' /\ Kept
  OBVIOUS
<1>1. PICK t \in threads : threads' = threads \ {t} /\ left' = Nodes(ThreadRows(trace, t))
  BY DEF StartThread
<1>0. /\ pc = "threads" /\ pc' = "replay" /\ stack' = << >> /\ last_node' = None
      /\ UNCHANGED <<full, trace, edges, last_on>>
      /\ threads \subseteq HostThreads(trace)
      /\ \A p \in DOMAIN edges : HostPair(p) /\ (LockPair(p) \/ p[2] \notin Pending)
      /\ Rows /\ last_on = << >>
  BY DEF StartThread, IInv, ThreadPhase, KernelPhase, input, graph
<1>2. Kept
  BY <1>0 DEF Kept
<1>3. Rows'
  BY <1>0 DEF Rows, HostRows
<1>4. /\ HostNodes' = HostNodes /\ left' \subseteq HostNodes
      /\ \A n \in left' : ThreadOf(trace, n.of) = t /\ (n.start => End(n.of) \in left')
      /\ \A n \in left' : End(n.of) \in left'
  <2>1. \A n \in left' : n.of \in ThreadRows(trace, t) /\ End(n.of) \in left'
    BY <1>1, NodeCases, NodesIn
  <2>2. left' \subseteq HostNodes
    BY <1>1 DEF HostNodes, Nodes, ThreadRows
  <2> QED
    BY <1>0, <2>1, <2>2 DEF HostNodes, HostRows, ThreadRows
<1>5. Pending' \subseteq Pending
  <2>1. \A n \in left' : n \in Pending /\ End(n.of) \in Pending
    <3> SUFFICES ASSUME NEW n \in left' PROVE n \in Pending
      BY <1>4
    <3> QED
      BY <1>1, <1>4 DEF Pending
  <2>2. \A n \in HostNodes : ThreadOf(trace, n.of) \in threads' => n \in Pending
    BY <1>1 DEF Pending
  <2> QED
    BY <1>0, <1>4, <2>1, <2>2 DEF Pending
<1>6. ThreadPhase'
  BY <1>0, <1>1, <1>4, <1>5
  DEF ThreadPhase, HostPair, LockPair, LockNodes, NodesOf, HostThreads, HostRows
<1>7. ReplayPhase'
  <2>1. OpenRows' = {}
    <3> SUFFICES ASSUME NEW e \in HostRows(trace), Start(e) \notin left', End(e) \in left' PROVE FALSE
      BY <1>0 DEF OpenRows, HostRows
    <3>1. e \in ThreadRows(trace, t)
      BY <1>1, NodeCases, NodeFields
    <3> QED
      BY <1>1, <3>1, NodesIn
  <2>2. Cardinality(OpenRows') = 0
    BY <2>1, FS_EmptySet
  <2> QED
    BY <1>0, <1>1, <1>4, <2>2 DEF ReplayPhase, OpenRows
<1> QED
  BY <1>0, <1>2, <1>3, <1>6, <1>7 DEF IInv, Begun, LockPhase, KernelPhase

(* An edge of the traversal is new: its node was pending, and two ends at  *)
(* which the lock is passed on are not linked.                             *)
LEMMA LinkStep ==
  ASSUME NEW n, NEW type, NEW zero_weight, Link(n, type, zero_weight),
         Rows, n \in HostNodes, n \in Pending,
         last_node = None \/ last_node \in HostNodes,
         \A p \in DOMAIN edges : HostPair(p) /\ (LockPair(p) \/ p[2] \notin Pending)
  PROVE  Kept /\ \A p \in DOMAIN edges' : HostPair(p) /\ (p \in DOMAIN edges \/ p[2] = n)
<1>1. CASE last_node # None /\ ~SharesLock(last_node, n)
  <2>1. PICK edge : edges' = AddEdge(edges, last_node, n, edge)
    BY <1>1 DEF Link
  <2>2. <<last_node, n>> \notin DOMAIN edges
    <3> SUFFICES ASSUME <<last_node, n>> \in DOMAIN edges PROVE FALSE
      OBVIOUS
    <3>1. LockPair(<<last_node, n>>)
      OBVIOUS
    <3> QED
      BY <1>1, <3>1, LocksOfHost DEF LockPair, SharesLock
  <2>3. (\A p : p \in DOMAIN edges' <=> p \in DOMAIN edges \/ p = <<last_node, n>>) /\ Kept
    BY <2>1, <2>2, AddEdgeDomain DEF Kept
  <2>4. HostPair(<<last_node, n>>)
    BY <1>1 DEF HostPair
  <2> QED
    BY <2>3, <2>4
<1>2. CASE ~(last_node # None /\ ~SharesLock(last_node, n))
  BY <1>2 DEF Link, Kept, graph
<1> QED
  BY <1>1, <1>2

LEMMA OpenRowsFinite == ASSUME Rows PROVE IsFiniteSet(OpenRows)
<1>1. IsFiniteSet(full) /\ OpenRows \subseteq full
  BY TracesAssumption DEF Rows, OpenRows, HostRows
<1> QED
  BY <1>1, FS_Subset

(* The first end of what is left closes an event: some event is open.      *)
LEMMA ClosingEnd ==
  ASSUME IInv, pc = "replay", NEW n \in left, ~n.start, \A m \in left \ {n} : EventBefore(n, m)
  PROVE  /\ n = End(n.of) /\ Start(n.of) \notin left
         /\ stack \in Seq(HostRows(trace)) /\ Len(stack) \in Nat \ {0}
<1>0. Rows /\ ReplayPhase
  BY DEF IInv
<1>1. n.of \in HostRows(trace) /\ n = End(n.of)
  BY <1>0, NodeCases DEF ReplayPhase, HostNodes
<1>2. Start(n.of) \notin left
  BY <1>0, <1>1, HostRowFacts, EndAfterStart, NodeFields
<1>3. stack \in Seq(HostRows(trace)) /\ Len(stack) = Cardinality(OpenRows)
  BY <1>0 DEF ReplayPhase
<1>4. n.of \in OpenRows
  BY <1>1, <1>2 DEF OpenRows
<1>5. Cardinality(OpenRows) # 0
  BY <1>0, <1>4, OpenRowsFinite, FS_EmptySet
<1> QED
  BY <1>1, <1>2, <1>3, <1>5

LEMMA ReplayEndStep == IInv /\ ReplayEnd => IInv' /\ Kept
<1> SUFFICES ASSUME IInv, ReplayEnd PROVE IInv' /\ Kept
  OBVIOUS
<1>1. PICK n \in left :
        /\ \A m \in left \ {n} : EventBefore(n, m)
        /\ left' = left \ {n}
        /\ IF n.start
           THEN stack' = Append(stack, n.of) /\ Enter(n.of, Top(stack))
           ELSE stack' = Front(stack) /\ Exit(Last(stack), Top(Front(stack)))
  BY DEF ReplayEnd
<1>0. /\ pc = "replay" /\ pc' = "replay" /\ UNCHANGED <<full, trace, threads, last_on>>
      /\ Rows /\ ThreadPhase /\ ReplayPhase /\ last_on = << >>
  BY DEF ReplayEnd, IInv, KernelPhase, input
<1>2. Rows' /\ HostNodes' = HostNodes /\ HostRows(trace)' = HostRows(trace)
  BY <1>0 DEF Rows, HostRows, HostNodes
<1>3. /\ n \in HostNodes /\ n.of \in HostRows(trace) /\ ThreadOf(trace, n.of) \notin threads
      /\ last_node = None \/ last_node \in HostNodes
      /\ \A p \in DOMAIN edges : HostPair(p) /\ (LockPair(p) \/ p[2] \notin Pending)
  BY <1>0, <1>1, NodeCases DEF ReplayPhase, ThreadPhase, HostNodes
<1>4. \A m \in left : m \in HostNodes /\ m.of \in HostRows(trace)
                      /\ (m.start => m = Start(m.of)) /\ (~m.start => m = End(m.of)) /\ m.start \in BOOLEAN
  BY <1>0, NodeCases DEF ReplayPhase, HostNodes
<1>5. ASSUME NEW x \in Pending, x \in HostNodes, x \notin Pending', Pending' \subseteq Pending, Kept,
             \A p \in DOMAIN edges' : HostPair(p) /\ (p \in DOMAIN edges \/ p[2] = x)
      PROVE  ThreadPhase'
  <2>1. \A p \in DOMAIN edges' : HostPair(p)' /\ (LockPair(p)' \/ p[2] \notin Pending')
    BY <1>0, <1>2, <1>3, <1>5 DEF HostPair, LockPair, LockNodes, NodesOf
  <2> QED
    BY <1>0, <1>2, <2>1 DEF ThreadPhase, HostThreads
<1>6. CASE n.start
  <2> DEFINE e == n.of
  <2>1. n = Start(e) /\ End(e) \in left /\ stack' = Append(stack, e) /\ Enter(e, Top(stack))
    BY <1>0, <1>1, <1>4, <1>6 DEF ReplayPhase
  <2>2. /\ n \in Pending /\ n \notin Pending' /\ Pending' \subseteq Pending
    <3>1. DOMAIN stack' = DOMAIN stack \cup {Len(stack) + 1}
          /\ \A i \in DOMAIN stack : stack'[i] = stack[i]
          /\ stack'[Len(stack) + 1] = e
      BY <1>0, <2>1, <1>3 DEF ReplayPhase
    <3>2. \A i \in DOMAIN stack' : End(stack'[i]) \in Pending
      BY <1>1, <1>6, <3>1 DEF Pending
    <3>3. n \in Pending /\ Pending' \subseteq Pending
      BY <1>0, <1>1, <1>2, <1>6, <3>2 DEF Pending
    <3> QED
      BY <1>0, <1>1, <1>2, <1>3, <1>6, <3>3, NodeFields DEF Pending
  <2>3. /\ Kept /\ \A p \in DOMAIN edges' : HostPair(p) /\ (p \in DOMAIN edges \/ p[2] = n)
        /\ last_node' = None \/ last_node' \in HostNodes
    <3>1. CASE HasNodes(e)
      <4>1. Link(Start(e), IF op_depth = 0 THEN "dependency" ELSE "operator", FALSE) /\ last_node' = Start(e)
        BY <2>1, <3>1 DEF Enter
      <4> QED
        BY <1>0, <1>3, <2>1, <2>2, <4>1, LinkStep
    <3>2. CASE ~HasNodes(e)
      BY <1>3, <2>1, <3>2 DEF Enter, Kept, graph
    <3> QED
      BY <3>1, <3>2
  <2>4. ReplayPhase'
    <3>1. /\ left' \subseteq HostNodes
          /\ \A m \in left' : ThreadOf(trace, m.of) \notin threads /\ (m.start => End(m.of) \in left')
      BY <1>0, <1>1, <1>6, NodeFields DEF ReplayPhase
    <3>2. stack \in Seq(HostRows(trace)) /\ stack' \in Seq(HostRows(trace))
      BY <1>0, <1>3, <2>1 DEF ReplayPhase
    <3>3. \A i \in DOMAIN stack' :
            /\ Start(stack'[i]) \notin left' /\ ThreadOf(trace, stack'[i]) \notin threads
            /\ \A j \in DOMAIN stack' : stack'[i] = stack'[j] => i = j
      <4>1. \A i \in DOMAIN stack : Start(stack[i]) \notin left /\ ThreadOf(trace, stack[i]) \notin threads
                                     /\ (\A j \in DOMAIN stack : stack[i] = stack[j] => i = j)
        BY <1>0 DEF ReplayPhase
      <4>2. \A i \in DOMAIN stack : stack[i] # e
        BY <2>1, <4>1
      <4>3. /\ DOMAIN stack' = DOMAIN stack \cup {Len(stack) + 1}
            /\ \A i \in DOMAIN stack : stack'[i] = stack[i]
            /\ stack'[Len(stack) + 1] = e
        BY <2>1, <3>2, <1>3
      <4> QED
        BY <1>1, <1>3, <2>1, <4>1, <4>2, <4>3
    <3>4. Len(stack') = Cardinality(OpenRows')
      <4>1. OpenRows' = OpenRows \cup {e}
        <5>1. ASSUME NEW d \in HostRows(trace) PROVE d \in OpenRows' <=> d \in OpenRows \cup {e}
          <6>1. End(d) \in left' <=> End(d) \in left
            BY <1>1, <1>6, NodeFields
          <6>2. Start(d) \in left' <=> Start(d) \in left /\ d # e
            BY <1>1, <2>1, NodeFields
          <6> QED
            BY <1>1, <1>2, <2>1, <6>1, <6>2 DEF OpenRows
        <5> QED
          BY <1>2, <1>3, <5>1 DEF OpenRows
      <4>2. e \notin OpenRows
        BY <2>1 DEF OpenRows
      <4>3. Cardinality(OpenRows') = Cardinality(OpenRows) + 1
        BY <1>0, <4>1, <4>2, OpenRowsFinite, FS_AddElement
      <4>4. Len(stack') = Len(stack) + 1
        BY <2>1, <3>2, <1>3
      <4> QED
        BY <1>0, <4>3, <4>4 DEF ReplayPhase
    <3> QED
      BY <1>0, <1>2, <2>3, <3>1, <3>2, <3>3, <3>4 DEF ReplayPhase
  <2>5. ThreadPhase'
    BY <1>3, <1>5, <2>2, <2>3
  <2> QED
    BY <1>0, <1>2, <2>3, <2>4, <2>5 DEF IInv, Begun, LockPhase, KernelPhase
<1>7. CASE ~n.start
  <2> DEFINE e == n.of
  <2> DEFINE top == Last(stack)
  <2>1. n = End(e) /\ Start(e) \notin left
    BY <1>0, <1>1, <1>7, ClosingEnd
  <2>2. stack \in Seq(HostRows(trace)) /\ Len(stack) \in Nat \ {0}
    BY <1>0, <1>1, <1>7, ClosingEnd
  <2>3. /\ Len(stack) \in DOMAIN stack /\ top = stack[Len(stack)] /\ top \in HostRows(trace)
        /\ stack' = Front(stack) /\ stack' \in Seq(HostRows(trace)) /\ Len(stack') = Len(stack) - 1
        /\ DOMAIN stack' = 1 .. Len(stack) - 1 /\ DOMAIN stack = 1 .. Len(stack)
        /\ \A i \in DOMAIN stack' : stack'[i] = stack[i]
    BY <1>1, <1>7, <2>2 DEF Last, Front
  <2>4. \A i \in DOMAIN stack : Start(stack[i]) \notin left /\ ThreadOf(trace, stack[i]) \notin threads
                                 /\ (\A j \in DOMAIN stack : stack[i] = stack[j] => i = j)
    BY <1>0 DEF ReplayPhase
  <2>5. /\ End(top) \in HostNodes /\ End(top) \in Pending /\ End(top) \notin Pending'
        /\ Pending' \subseteq Pending
    <3>1. End(top) \in HostNodes /\ End(top) \in Pending
      BY <2>3, NodesIn DEF HostNodes, Pending
    <3>2. \A i \in DOMAIN stack' : End(stack'[i]) \in Pending /\ stack'[i] # top
      BY <2>3, <2>4 DEF Pending
    <3>3. Pending' \subseteq Pending
      BY <1>0, <1>1, <1>2, <3>2 DEF Pending
    <3>4. \A m \in left' : m.start => m.of # top
      BY <1>1, <1>4, <2>3, <2>4
    <3>5. \A m : End(m) = End(top) => m = top
      BY NodeFields
    <3>6. ThreadOf(trace, top) \notin threads /\ End(top).of = top /\ ~End(top).start
      BY <2>3, <2>4, NodeFields
    <3> HIDE DEF top
    <3> QED
      BY <1>0, <1>1, <1>2, <3>1, <3>2, <3>3, <3>4, <3>5, <3>6 DEF Pending
  <2>6. /\ Kept /\ \A p \in DOMAIN edges' : HostPair(p) /\ (p \in DOMAIN edges \/ p[2] = End(top))
        /\ last_node' = None \/ last_node' \in HostNodes
    <3>0. Exit(top, Top(Front(stack)))
      BY <1>1, <1>7
    <3>1. CASE HasNodes(top)
      <4>1. Link(End(top), "operator", Blocks(top)) /\ last_node' = End(top)
        BY <3>0, <3>1 DEF Exit
      <4> QED
        BY <1>0, <1>3, <2>5, <4>1, LinkStep
    <3>2. CASE ~HasNodes(top)
      BY <1>3, <3>0, <3>2 DEF Exit, Kept, graph
    <3> QED
      BY <3>1, <3>2
  <2>7. ReplayPhase'
    <3>1. /\ left' \subseteq HostNodes
          /\ \A m \in left' : ThreadOf(trace, m.of) \notin threads /\ (m.start => End(m.of) \in left')
      <4>1. \A m \in left : m.start => m.of # e
        BY <1>4, <2>1
      <4> QED
        BY <1>0, <1>1, <2>1, <4>1, NodeFields DEF ReplayPhase
    <3>2. \A i \in DOMAIN stack' :
            /\ Start(stack'[i]) \notin left' /\ ThreadOf(trace, stack'[i]) \notin threads
            /\ \A j \in DOMAIN stack' : stack'[i] = stack'[j] => i = j
      BY <1>1, <2>3, <2>4
    <3>3. Len(stack') = Cardinality(OpenRows')
      <4>1. OpenRows' = OpenRows \ {e}
        <5>1. ASSUME NEW d \in HostRows(trace) PROVE d \in OpenRows' <=> d \in OpenRows \ {e}
          <6>1. Start(d) \in left' <=> Start(d) \in left
            BY <1>1, <1>7, NodeFields
          <6>2. End(d) \in left' <=> End(d) \in left /\ d # e
            BY <1>1, <2>1, NodeFields
          <6> QED
            BY <1>2, <6>1, <6>2 DEF OpenRows
        <5> QED
          BY <1>2, <5>1 DEF OpenRows
      <4>2. e \in OpenRows
        BY <1>1, <1>3, <2>1 DEF OpenRows
      <4>3. Cardinality(OpenRows') = Cardinality(OpenRows) - 1
        BY <1>0, <4>1, <4>2, OpenRowsFinite, FS_RemoveElement
      <4> QED
        BY <1>0, <2>3, <4>3 DEF ReplayPhase
    <3> QED
      BY <1>0, <1>2, <2>3, <2>6, <3>1, <3>2, <3>3 DEF ReplayPhase
  <2>8. ThreadPhase'
    BY <1>5, <2>5, <2>6
  <2> QED
    BY <1>0, <1>2, <2>6, <2>7, <2>8 DEF IInv, Begun, LockPhase, KernelPhase
<1> QED
  BY <1>4, <1>6, <1>7

LEMMA FinishThreadStep == IInv /\ FinishThread => IInv' /\ Kept
<1> SUFFICES ASSUME IInv, FinishThread PROVE IInv' /\ Kept
  OBVIOUS
<1>0. /\ pc = "replay" /\ left = {} /\ pc' = "threads"
      /\ UNCHANGED <<full, trace, left, threads, stack, edges, last_on>>
      /\ Rows /\ ThreadPhase /\ last_on = << >>
  BY DEF FinishThread, IInv, KernelPhase, input, locals, graph
<1>1. Kept
  BY <1>0 DEF Kept
<1>2. Rows'
  BY <1>0 DEF Rows, HostRows
<1>3. ThreadPhase'
  BY <1>0 DEF ThreadPhase, HostPair, LockPair, LockNodes, NodesOf, HostNodes, HostRows, HostThreads, Pending
<1> QED
  BY <1>0, <1>1, <1>2, <1>3 DEF IInv, Begun, LockPhase, ReplayPhase, KernelPhase

LEMMA StartKernelsStep == IInv /\ StartKernels => IInv' /\ Kept
<1> SUFFICES ASSUME IInv, StartKernels PROVE IInv' /\ Kept
  OBVIOUS
<1>0. /\ pc = "threads" /\ UNCHANGED <<full, trace, edges, last_on>>
      /\ Rows /\ ThreadPhase /\ last_on = << >>
      /\ pc' = "raised" \/ (pc' = "kernels" /\ left' = DeviceRows(trace))
  BY DEF StartKernels, IInv, KernelPhase, input, locals, graph
<1>1. Kept
  BY <1>0 DEF Kept
<1>2. Rows'
  BY <1>0 DEF Rows, HostRows
<1>3. KernelPhase'
  BY <1>0 DEF KernelPhase, ThreadPhase, HostPair, HostNodes, HostRows
<1> QED
  BY <1>0, <1>1, <1>2, <1>3 DEF IInv, Begun, LockPhase, ThreadPhase, ReplayPhase

(* The rows that AddKernel handles are of the device.                      *)
LEMMA KernelsOfDevice ==
  ASSUME Rows, NEW k \in DeviceRows(trace), ~IsSync(k)
  PROVE  k \in trace /\ k.stream # -1
  BY TracesAssumption DEF Rows, DeviceRows, IsSync

(* Only kernels are waited for.                                            *)
LEMMA AwaitedAreKernels ==
  ASSUME Rows, \A s \in DOMAIN last_on : GpuEnd(last_on[s]), NEW r, NEW m \in AwaitedNodes(r)
  PROVE  GpuEnd(m)
<1>1. CASE r.name = "Event Sync"
  <2>1. PICK c \in PreviousLaunch(full, r) : m = End(LinkedRow(c))
    BY <1>1 DEF AwaitedNodes
  <2>2. PICK s : c \in LaunchesOn(full, s)
    BY <2>1 DEF PreviousLaunch
  <2>3. PICK k \in LinkedKernels(full, c) : TRUE
    BY <2>2 DEF LaunchesOn
  <2>4. k \in full /\ k.stream # -1 /\ k.index = c.index_correlation
    BY <2>3 DEF LinkedKernels, GpuKernels
  <2>5. LinkedRow(c) = k
    <3>1. \A d \in full : d.index = c.index_correlation => d = k
      BY <2>4, UniqueIndex
    <3> QED
      BY <2>4, <3>1 DEF LinkedRow, RowAt
  <2> QED
    BY <2>1, <2>4, <2>5, NodeFields DEF GpuEnd
<1>2. CASE r.name # "Event Sync"
  BY <1>2 DEF AwaitedNodes
<1> QED
  BY <1>1, <1>2

LEMMA PassDeviceRowStep == IInv /\ PassDeviceRow => IInv' /\ Kept
<1> SUFFICES ASSUME IInv, PassDeviceRow PROVE IInv' /\ Kept
  OBVIOUS
<1>1. PICK r \in left : left' = left \ {r} /\ (SyncHost(r) \/ SyncStream(r) \/ AddKernel(r))
  BY DEF PassDeviceRow
<1>0. /\ pc = "kernels" /\ UNCHANGED <<full, trace>> /\ Rows
      /\ left \subseteq DeviceRows(trace)
      /\ \A s \in DOMAIN last_on : GpuEnd(last_on[s])
      /\ \A p \in DOMAIN edges : HostPair(p) \/ KernelPair(p) \/ SyncPair(p)
  BY DEF PassDeviceRow, IInv, KernelPhase, input
<1>2. Rows' /\ \A p : HostPair(p)' <=> HostPair(p)
  BY <1>0 DEF Rows, HostRows, HostPair, HostNodes
<1>3. ASSUME Kept, \A s \in DOMAIN last_on' : GpuEnd(last_on'[s]), pc' \in {"kernels", "raised"},
             \A p \in DOMAIN edges' : p \in DOMAIN edges \/ KernelPair(p)' \/ SyncPair(p)'
      PROVE  IInv'
  <2>1. \A p \in DOMAIN edges : KernelPair(p) => KernelPair(p)'
    BY <1>0, <1>1 DEF KernelPair
  <2>2. \A p \in DOMAIN edges : SyncPair(p) => SyncPair(p)'
    BY <1>3 DEF SyncPair, Kept, GpuEnd
  <2>3. KernelPhase'
    BY <1>0, <1>1, <1>2, <1>3, <2>1, <2>2 DEF KernelPhase, DeviceRows, GpuEnd
  <2> QED
    BY <1>2, <1>3, <2>3 DEF IInv, Begun, LockPhase, ThreadPhase, ReplayPhase
<1>4. CASE SyncHost(r)
  <2> DEFINE n == End(RowAt(trace, r.index_correlation))
  <2> DEFINE new == EdgesInto(AwaitedNodes(r), n, "sync", FALSE)
  <2>1. /\ pc' \in {"kernels", "raised"} /\ last_on' = last_on
        /\ edges' = edges \/ edges' = With(edges, new)
    <3>1. pc' \in {"kernels", "raised"}
      BY <1>0, <1>4 DEF SyncHost
    <3> QED
      BY <1>4, <3>1 DEF SyncHost
  <2>2. \A p \in DOMAIN new : /\ GpuEnd(p[1]) /\ p[2] = n /\ ~n.start
                              /\ new[p] = [type |-> "sync", weight |-> 0]
    BY <1>0, AwaitedAreKernels, NodeFields DEF Edge, EdgesInto
  <2> HIDE DEF n, new
  <2>3. CASE edges' = edges
    BY <1>0, <1>3, <2>1, <2>3 DEF Kept
  <2>4. CASE edges' = With(edges, new)
    <3>1. \A p \in DOMAIN edges : p \in DOMAIN new => edges[p] = new[p]
      <4> SUFFICES ASSUME NEW p \in DOMAIN edges, p \in DOMAIN new PROVE SyncPair(p)
        BY <2>2 DEF SyncPair
      <4>1. ~HostPair(p)
        <5>1. \A m \in HostNodes : m.of.stream = -1
          BY NodeCases DEF HostNodes, HostRows
        <5> QED
          BY <2>2, <5>1 DEF HostPair, GpuEnd
      <4>2. ~KernelPair(p)
        BY <2>2 DEF KernelPair, GpuEnd
      <4> QED
        BY <1>0, <4>1, <4>2
    <3>2. Kept /\ \A p \in DOMAIN edges' : p \in DOMAIN edges \/ SyncPair(p)'
      BY <2>2, <2>4, <3>1, WithDomain DEF Kept, SyncPair, GpuEnd
    <3> QED
      BY <1>0, <1>3, <2>1, <3>2
  <2> QED
    BY <2>1, <2>3, <2>4
<1>5. CASE SyncStream(r)
  <2>1. UNCHANGED <<edges, last_on>> /\ pc' \in {"kernels", "raised"}
    BY <1>0, <1>5 DEF SyncStream, graph
  <2> QED
    BY <1>0, <1>3, <2>1 DEF Kept
<1>6. CASE AddKernel(r)
  <2>1. r \in trace /\ r.stream # -1 /\ r \in DeviceRows(trace)
    BY <1>0, <1>6, KernelsOfDevice DEF AddKernel
  <2>0. PICK A, D, C, zero : edges' =
          With(With(With(With(edges, EdgesInto({Start(r)}, End(r), "operator", FALSE)),
                         EdgesInto(A, Start(r), "sync", FALSE)),
                    EdgesInto(D, Start(r), "kernel delay", FALSE)),
               EdgesInto(C, Start(r), "launch delay", zero))
    BY <1>6, Zenon DEF AddKernel
  <2> DEFINE span == EdgesInto({Start(r)}, End(r), "operator", FALSE)
  <2> DEFINE awaited == EdgesInto(A, Start(r), "sync", FALSE)
  <2> DEFINE delay == EdgesInto(D, Start(r), "kernel delay", FALSE)
  <2> DEFINE call == EdgesInto(C, Start(r), "launch delay", zero)
  <2>2. /\ edges' = With(With(With(With(edges, span), awaited), delay), call)
        /\ \A p \in DOMAIN span : p = <<Start(r), End(r)>>
        /\ \A p \in DOMAIN awaited \cup DOMAIN delay \cup DOMAIN call : p[2] = Start(r)
    <3>1. edges' = With(With(With(With(edges, span), awaited), delay), call)
      BY <2>0
    <3>2. \A p \in DOMAIN span : p = <<Start(r), End(r)>>
      BY DEF EdgesInto
    <3>3. \A p \in DOMAIN awaited \cup DOMAIN delay \cup DOMAIN call : p[2] = Start(r)
      BY DEF EdgesInto
    <3> QED
      BY <3>1, <3>2, <3>3
  <2> HIDE DEF span, awaited, delay, call
  <2>3. \A p \in DOMAIN span \cup DOMAIN awaited \cup DOMAIN delay \cup DOMAIN call :
          p[2].of = r /\ (p[2].start \/ p[1].start)
    BY <2>2, NodeFields
  <2>4. \A p \in DOMAIN edges : p \notin DOMAIN span \cup DOMAIN awaited \cup DOMAIN delay \cup DOMAIN call
    <3> SUFFICES ASSUME NEW p \in DOMAIN edges, p[2].of = r, p[2].start \/ p[1].start PROVE FALSE
      BY <2>3
    <3>1. ~HostPair(p)
      <4>1. \A m \in HostNodes : m.of.stream = -1
        BY NodeCases DEF HostNodes, HostRows
      <4> QED
        BY <2>1, <4>1 DEF HostPair
    <3>2. ~KernelPair(p)
      BY <1>1 DEF KernelPair
    <3>3. ~SyncPair(p)
      BY DEF SyncPair, GpuEnd
    <3> QED
      BY <1>0, <3>1, <3>2, <3>3
  <2>5. /\ \A p \in DOMAIN edges' :
             p \in DOMAIN edges \cup DOMAIN span \cup DOMAIN awaited \cup DOMAIN delay \cup DOMAIN call
        /\ Kept
    <3>1. PICK one, two, three : /\ one = With(edges, span) /\ two = With(one, awaited)
                                 /\ three = With(two, delay) /\ edges' = With(three, call)
      BY <2>2
    <3>2. \A p : p \in DOMAIN one <=> p \in DOMAIN edges \/ p \in DOMAIN span
      BY <3>1, WithDomain
    <3>3. \A p : p \in DOMAIN two <=> p \in DOMAIN one \/ p \in DOMAIN awaited
      BY <3>1, WithDomain
    <3>4. \A p : p \in DOMAIN three <=> p \in DOMAIN two \/ p \in DOMAIN delay
      BY <3>1, WithDomain
    <3>5. \A p : p \in DOMAIN edges' <=> p \in DOMAIN three \/ p \in DOMAIN call
      BY <3>1, WithDomain
    <3>6. ASSUME NEW p \in DOMAIN edges
          PROVE  one[p] = edges[p] /\ two[p] = one[p] /\ three[p] = two[p] /\ edges'[p] = three[p]
      <4>1. one[p] = edges[p]
        BY <2>4, <3>1, WithDomain
      <4>2. two[p] = one[p]
        BY <2>4, <3>1, <3>2, WithDomain
      <4>3. three[p] = two[p]
        BY <2>4, <3>1, <3>2, <3>3, WithDomain
      <4>4. edges'[p] = three[p]
        BY <2>4, <3>1, <3>2, <3>3, <3>4, WithDomain
      <4> QED
        BY <4>1, <4>2, <4>3, <4>4
    <3> QED
      BY <3>2, <3>3, <3>4, <3>5, <3>6 DEF Kept
  <2>6. \A p \in DOMAIN edges' : p \in DOMAIN edges \/ KernelPair(p)'
    BY <1>0, <1>1, <2>1, <2>3, <2>5 DEF KernelPair, DeviceRows
  <2>7. \A s \in DOMAIN last_on' : GpuEnd(last_on'[s])
    <3>1. last_on' = With(last_on, [s \in {r.stream} |-> End(r)])
      BY <1>6 DEF AddKernel
    <3>2. GpuEnd(End(r))
      BY <2>1, NodeFields DEF GpuEnd
    <3> QED
      BY <1>0, <3>1, <3>2, WithDomain
  <2>8. pc' \in {"kernels", "raised"}
    BY <1>0, <1>6 DEF AddKernel
  <2> QED
    BY <1>3, <2>5, <2>6, <2>7, <2>8
<1> QED
  BY <1>1, <1>4, <1>5, <1>6

LEMMA LastSteps == IInv /\ (FinishKernels \/ FindPath \/ UNCHANGED vars) => IInv' /\ Kept
<1>1. IInv /\ (FinishKernels \/ FindPath) => IInv' /\ Kept
  <2> SUFFICES ASSUME IInv, FinishKernels \/ FindPath PROVE IInv' /\ Kept
    OBVIOUS
  <2>1. UNCHANGED <<full, trace, edges>> /\ pc' \in {"built", "returned", "raised"} /\ Rows
    BY DEF FinishKernels, FindPath, input, graph, IInv
  <2> QED
    BY <2>1 DEF IInv, Rows, HostRows, Kept, Begun, LockPhase, ThreadPhase, ReplayPhase, KernelPhase
<1>2. IInv /\ UNCHANGED vars => IInv' /\ Kept
  <2> SUFFICES ASSUME IInv, UNCHANGED vars PROVE IInv' /\ Kept
    OBVIOUS
  <2> USE DEF vars, input, locals, graph
  <2>1. Rows' /\ Begun' /\ KernelPhase'
    BY DEF IInv, Rows, Begun, KernelPhase, HostRows, HostPair, HostNodes, KernelPair, SyncPair, GpuEnd, DeviceRows
  <2>2. LockPhase' /\ ThreadPhase'
    BY DEF IInv, LockPhase, LockPair, LockNodes, NodesOf, ThreadPhase, HostPair, HostNodes, HostRows, HostThreads, Pending
  <2>3. ReplayPhase'
    BY DEF IInv, ReplayPhase, HostNodes, HostRows, OpenRows
  <2> QED
    BY <2>1, <2>2, <2>3 DEF IInv, Kept
<1> QED
  BY <1>1, <1>2

-----------------------------------------------------------------------------
(* The invariant holds of every analysis.                                  *)
THEOREM Inductive == Spec => []IInv
<1>1. IInv /\ [Next]_vars => IInv'
  BY ClipStep, PassLockStep, FinishLocksStep, StartThreadStep, ReplayEndStep, FinishThreadStep,
     StartKernelsStep, PassDeviceRowStep, LastSteps
  DEF Next
<1> QED
  BY InitInv, <1>1, PTL DEF Spec

(* For every trace in which an index names one row, no edge of the graph   *)
(* is overwritten by another pass or another rule of a pass (_add_edge).   *)
THEOREM EdgesAreKept == Spec => EdgesStay
<1>1. IInv /\ [Next]_vars => [Kept]_vars
  BY ClipStep, PassLockStep, FinishLocksStep, StartThreadStep, ReplayEndStep, FinishThreadStep,
     StartKernelsStep, PassDeviceRowStep, LastSteps
  DEF Next
<1>2. EdgesStay <=> [][Kept]_vars
  BY DEF EdgesStay, Kept
<1> QED
  BY <1>1, <1>2, Inductive, PTL DEF Spec

-----------------------------------------------------------------------------
(* Synchronizations wait.  Device rows are handled in the order of the     *)
(* sort, so the last node of a stream is that of a kernel which no handled *)
(* kernel of the stream starts after.                                      *)

Handled == DeviceRows(trace) \ left

InSortOrder == \A h \in Handled, l \in left : SortBy(h) <= SortBy(l)
LastOfStream ==
  \A k \in Handled :
    ~IsSync(k) =>
      /\ k.stream \in DOMAIN last_on
      /\ \E l \in Handled : /\ ~IsSync(l) /\ l.stream = k.stream /\ l.ts >= k.ts
                            /\ last_on[k.stream] = End(l)
HandledWait ==
  \A r \in Handled, k \in DeviceRows(trace) :
    WaitsFor(r, k) /\ InGraph(r.index_correlation) =>
      <<End(k), End(RowAt(trace, r.index_correlation))>> \in DOMAIN edges

Waiting ==
  /\ pc \in {"kernels", "built"} => left \subseteq DeviceRows(trace) /\ HandledWait
  /\ pc = "kernels" => InSortOrder /\ LastOfStream
  /\ pc = "built" => left = {}

LEMMA DeviceRowFacts ==
  ASSUME Rows, NEW r \in DeviceRows(trace)
  PROVE  r \in trace /\ r.ts \in Int /\ r.dur \in Int /\ SortBy(r) \in Int
<1>1. r \in trace /\ r \in full /\ full \in Traces
  BY DEF Rows, DeviceRows
<1>2. r.ts \in Int /\ r.dur \in Int
  BY <1>1, TracesAssumption
<1> QED
  BY <1>1, <1>2 DEF SortBy

(* What is still to come has not started when the row r is handled, and a  *)
(* kernel for which r has to wait is the last of its stream.               *)
LEMMA AwaitedIsLast ==
  ASSUME Rows, InSortOrder, LastOfStream, left \subseteq DeviceRows(trace),
         NEW r \in left, \A s \in left : SortBy(r) <= SortBy(s),
         NEW k \in DeviceRows(trace), WaitsFor(r, k)
  PROVE  k.stream \in DOMAIN last_on /\ last_on[k.stream] = End(k)
<1>1. /\ IsSync(r) /\ ~IsSync(k) /\ k.ts < r.ts + r.dur
      /\ \A l \in DeviceRows(trace) :
           l.stream = k.stream /\ ~IsSync(l) /\ l # k /\ l.ts >= k.ts => l.ts > r.ts + r.dur
  BY DEF WaitsFor
<1>2. SortBy(r) = r.ts + r.dur /\ SortBy(k) = k.ts
  BY <1>1 DEF SortBy
<1>3. k \in Handled
  BY <1>1, <1>2, DeviceRowFacts DEF Handled
<1>4. PICK l \in Handled : /\ ~IsSync(l) /\ l.stream = k.stream /\ l.ts >= k.ts
                           /\ last_on[k.stream] = End(l)
  BY <1>1, <1>3 DEF LastOfStream
<1>5. l.ts <= r.ts + r.dur
  <2>1. SortBy(l) <= SortBy(r)
    BY DEF InSortOrder
  <2> QED
    BY <1>2, <1>4, <2>1 DEF SortBy
<1>6. l = k
  <2>1. l \in DeviceRows(trace) /\ r \in DeviceRows(trace)
    BY DEF Handled
  <2> QED
    BY <1>1, <1>4, <1>5, <2>1, DeviceRowFacts
<1> QED
  BY <1>1, <1>3, <1>4, <1>6 DEF LastOfStream

LEMMA PassDeviceRowWaits == IInv /\ Waiting /\ PassDeviceRow => Waiting'
<1> SUFFICES ASSUME IInv, Waiting, PassDeviceRow PROVE Waiting'
  OBVIOUS
<1>0. /\ pc = "kernels" /\ UNCHANGED <<full, trace>> /\ Rows /\ Kept
      /\ left \subseteq DeviceRows(trace) /\ HandledWait /\ InSortOrder /\ LastOfStream
  BY PassDeviceRowStep DEF PassDeviceRow, Waiting, IInv, input
<1>1. PICK r \in left : /\ \A s \in left : SortBy(r) <= SortBy(s)
                        /\ left' = left \ {r}
                        /\ SyncHost(r) \/ SyncStream(r) \/ AddKernel(r)
  BY DEF PassDeviceRow
<1>2. /\ DeviceRows(trace)' = DeviceRows(trace) /\ Handled' = Handled \cup {r}
      /\ \A k : WaitsFor(r, k)' <=> WaitsFor(r, k)
      /\ \A s, k : WaitsFor(s, k)' <=> WaitsFor(s, k)
      /\ \A i : InGraph(i)' <=> InGraph(i)
  BY <1>0, <1>1 DEF DeviceRows, Handled, WaitsFor, InGraph
<1>3. pc' \in {"kernels", "raised"}
  BY <1>0, <1>1 DEF SyncHost, SyncStream, AddKernel
<1>4. InSortOrder'
  BY <1>0, <1>1, <1>2 DEF InSortOrder
<1>5. LastOfStream'
  <2>1. CASE IsSync(r)
    <3>1. UNCHANGED last_on
      BY <1>1, <2>1 DEF SyncHost, SyncStream, AddKernel
    <3> QED
      BY <1>0, <1>2, <2>1, <3>1 DEF LastOfStream
  <2>2. CASE ~IsSync(r)
    <3>1. last_on' = With(last_on, [s \in {r.stream} |-> End(r)])
      BY <1>1, <2>2 DEF SyncHost, SyncStream, AddKernel
    <3>2. /\ \A s : s \in DOMAIN last_on' <=> s \in DOMAIN last_on \/ s = r.stream
          /\ last_on'[r.stream] = End(r)
          /\ \A s \in DOMAIN last_on : s # r.stream => last_on'[s] = last_on[s]
      BY <3>1, WithDomain
    <3> SUFFICES ASSUME NEW k \in Handled', ~IsSync(k)
                 PROVE  /\ k.stream \in DOMAIN last_on'
                        /\ \E l \in Handled' : /\ ~IsSync(l) /\ l.stream = k.stream /\ l.ts >= k.ts
                                               /\ last_on'[k.stream] = End(l)
      BY DEF LastOfStream
    <3>3. CASE k.stream = r.stream
      <4>1. r \in DeviceRows(trace) /\ k \in DeviceRows(trace)
        BY <1>0, <1>1, <1>2 DEF Handled
      <4>2. SortBy(k) <= SortBy(r)
        <5>1. SortBy(r) \in Int
          BY <1>0, <4>1, DeviceRowFacts
        <5> QED
          BY <1>0, <1>1, <1>2, <5>1 DEF InSortOrder
      <4>3. r.ts >= k.ts
        BY <1>0, <2>2, <4>1, <4>2, DeviceRowFacts DEF SortBy
      <4> QED
        BY <1>2, <2>2, <3>2, <3>3, <4>3
    <3>4. CASE k.stream # r.stream
      <4>1. k \in Handled
        BY <1>2, <3>4
      <4> QED
        BY <1>0, <1>2, <3>2, <3>4, <4>1 DEF LastOfStream
    <3> QED
      BY <3>3, <3>4
  <2> QED
    BY <2>1, <2>2
<1>6. HandledWait'
  <2> SUFFICES ASSUME NEW s \in Handled \cup {r}, NEW k \in DeviceRows(trace),
                      WaitsFor(s, k), InGraph(s.index_correlation)
               PROVE  <<End(k), End(RowAt(trace, s.index_correlation))>> \in DOMAIN edges'
    BY <1>0, <1>2 DEF HandledWait
  <2>1. CASE s \in Handled
    BY <1>0, <2>1 DEF HandledWait, Kept
  <2>2. CASE s = r
    <3>1. k.stream \in DOMAIN last_on /\ last_on[k.stream] = End(k)
      BY <1>0, <1>1, <2>2, AwaitedIsLast
    <3>2. IsSync(r) /\ (r.name = "Context Sync" \/ (r.name = "Stream Sync" /\ r.stream = k.stream))
      BY <2>2 DEF WaitsFor
    <3>3. End(k) \in AwaitedNodes(r)
      <4>1. CASE r.name = "Context Sync"
        BY <3>1, <4>1 DEF AwaitedNodes
      <4>2. CASE r.name = "Stream Sync" /\ r.stream = k.stream
        BY <3>1, <4>2 DEF AwaitedNodes
      <4> QED
        BY <3>2, <4>1, <4>2
    <3> DEFINE n == End(RowAt(trace, r.index_correlation))
    <3>4. edges' = With(edges, EdgesInto(AwaitedNodes(r), n, "sync", FALSE))
      BY <1>1, <2>2, <3>2 DEF SyncHost, SyncStream, AddKernel
    <3>5. <<End(k), n>> \in DOMAIN EdgesInto(AwaitedNodes(r), n, "sync", FALSE)
      BY <3>3 DEF EdgesInto
    <3> HIDE DEF n
    <3>6. <<End(k), n>> \in DOMAIN edges'
      BY <3>4, <3>5, WithDomain
    <3> QED
      BY <2>2, <3>6 DEF n
  <2> QED
    BY <2>1, <2>2
<1> QED
  BY <1>0, <1>1, <1>2, <1>3, <1>4, <1>5, <1>6 DEF Waiting

LEMMA OtherStepsWait == IInv /\ Waiting /\ [Next]_vars /\ ~PassDeviceRow => Waiting'
<1> SUFFICES ASSUME IInv, Waiting, [Next]_vars, ~PassDeviceRow PROVE Waiting'
  OBVIOUS
<1>1. CASE StartKernels
  <2>1. \/ pc' = "raised"
        \/ pc' = "kernels" /\ left' = DeviceRows(trace) /\ UNCHANGED trace
    BY <1>1 DEF StartKernels
  <2>2. CASE pc' = "kernels" /\ left' = DeviceRows(trace) /\ UNCHANGED trace
    <3>1. left' = DeviceRows(trace)' /\ Handled' = {}
      BY <2>2 DEF DeviceRows, Handled
    <3> QED
      BY <2>2, <3>1 DEF Waiting, HandledWait, InSortOrder, LastOfStream
  <2> QED
    BY <2>1, <2>2 DEF Waiting
<1>2. CASE FinishKernels \/ UNCHANGED vars
  <2>1. /\ UNCHANGED <<trace, left, edges, last_on>>
        /\ \/ pc = "kernels" /\ left = {} /\ pc' = "built"
           \/ pc' = pc
    BY <1>2 DEF FinishKernels, vars, locals, graph
  <2> QED
    BY <2>1 DEF Waiting, HandledWait, InSortOrder, LastOfStream, Handled, DeviceRows, WaitsFor, InGraph
<1>3. CASE Clip \/ PassLock \/ FinishLocks \/ StartThread \/ ReplayEnd \/ FinishThread \/ FindPath
  <2>1. pc' \notin {"kernels", "built"}
    BY <1>3 DEF Clip, PassLock, FinishLocks, StartThread, ReplayEnd, FinishThread, FindPath
  <2> QED
    BY <2>1 DEF Waiting
<1> QED
  BY <1>1, <1>2, <1>3 DEF Next

(* For every trace, window and choice of options: a call that synchronizes *)
(* waits in the graph for the last kernel of the stream, or of each stream *)
(* (_construct_graph_from_kernels, the sort by the end).                   *)
THEOREM SyncsAlwaysWait == Spec => []SyncsWait
<1>1. Init => Waiting
  BY DEF Init, Waiting
<1>2. IInv /\ Waiting /\ [Next]_vars => Waiting'
  BY PassDeviceRowWaits, OtherStepsWait
<1>3. Waiting => SyncsWait
  <2> SUFFICES ASSUME Waiting, pc = "built" PROVE SyncsWait
    BY DEF SyncsWait
  <2>1. HandledWait /\ Handled = DeviceRows(trace)
    BY DEF Waiting, Handled
  <2> QED
    BY <2>1 DEF SyncsWait, HandledWait
<1> QED
  BY <1>1, <1>2, <1>3, Inductive, PTL DEF Spec

-----------------------------------------------------------------------------
(* Types.  The depth that enter_func and exit_func count is the number of  *)
(* the open events with nodes, which is why it is never negative.          *)

OpenWithNodes == {i \in DOMAIN stack : HasNodes(stack[i])}

Typed ==
  /\ TypeOK
  /\ op_depth = Cardinality(OpenWithNodes)
  /\ pc = "clip" => trace = {}

PCs == {"clip", "locks", "threads", "replay", "kernels", "built", "returned", "raised"}

(* A map of edges between nodes of the trace. *)
EdgeMap(map) ==
  /\ DOMAIN map \subseteq NodesOf(trace) \X NodesOf(trace)
  /\ \A p \in DOMAIN map : map[p].type \in EdgeTypes /\ map[p].weight \in Int

Results == {None} \cup [success : BOOLEAN, length : Nat]

LEMMA NodeOfTrace ==
  ASSUME Rows, NEW n \in NodesOf(trace)
  PROVE  n.of \in trace /\ n.of \in full /\ HasNodes(n.of) /\ Ts(n) \in Int
<1>1. n \in Nodes(trace) /\ HasNodes(n.of)
  BY DEF NodesOf
<1>2. n.of \in trace /\ n.of \in full /\ full \in Traces
  BY <1>1, NodeCases DEF Rows
<1>3. n.of.ts \in Int /\ n.of.dur \in Int
  BY <1>2, TracesAssumption
<1> QED
  BY <1>1, <1>2, <1>3 DEF Ts

LEMMA NodesWith ==
  ASSUME NEW e \in trace, HasNodes(e)
  PROVE  Start(e) \in NodesOf(trace) /\ End(e) \in NodesOf(trace)
  BY NodesIn, NodeFields DEF NodesOf

(* What a step does not leave alone keeps its kind. *)
LEMMA StillTyped ==
  ASSUME Typed, UNCHANGED <<full, asked, options, trace>>,
         pc' \in PCs \ {"clip"},
         left' \subseteq Nodes(trace) \cup trace,
         threads' \subseteq HostThreads(trace),
         starts' \subseteq NodesOf(trace), stack' \in Seq(trace),
         last_node' \in NodesOf(trace) \cup {None},
         last_ev_parent' \in {e.index : e \in trace} \cup {-1, None},
         op_depth' = Cardinality(OpenWithNodes)',
         \A s \in DOMAIN last_on' : last_on'[s] \in NodesOf(trace),
         \A i \in DOMAIN kernel_sync' : kernel_sync'[i] \in {e.index : e \in full} \cup {None},
         EdgeMap(edges'), DOMAIN edge_to_event' \subseteq DOMAIN edges',
         result' \in Results
  PROVE  Typed'
<1>1. op_depth' \in 0 .. Len(stack')
  <2> DEFINE with == {i \in DOMAIN stack' : HasNodes(stack'[i])}
  <2>1. op_depth' = Cardinality(with) /\ with \subseteq 1 .. Len(stack') /\ Len(stack') \in Nat
    BY DEF OpenWithNodes
  <2> HIDE DEF with
  <2>2. IsFiniteSet(1 .. Len(stack')) /\ Cardinality(1 .. Len(stack')) = Len(stack')
    BY <2>1, Positions
  <2>3. IsFiniteSet(with) /\ Cardinality(with) <= Len(stack')
    BY <2>1, <2>2, FS_Subset
  <2>4. Cardinality(with) \in Nat
    BY <2>3, FS_CardinalityType
  <2> QED
    BY <2>1, <2>3, <2>4
<1>2. /\ asked' \in Asked /\ options' \in Options /\ trace' \subseteq full'
      /\ pc' \in PCs /\ pc' # "clip"
  BY DEF Typed, TypeOK
<1>3. /\ NodesOf(trace)' = NodesOf(trace) /\ Nodes(trace)' = Nodes(trace)
      /\ HostThreads(trace)' = HostThreads(trace)
  OBVIOUS
<1>4. TypeOK'
  <2> USE <1>1, <1>2, <1>3
  <2>1. /\ (pc \in {"clip", "locks", "threads", "replay", "kernels", "built", "returned", "raised"})'
        /\ (left \subseteq Nodes(trace) \cup trace)'
        /\ (threads \subseteq HostThreads(trace))'
        /\ (starts \subseteq NodesOf(trace) /\ stack \in Seq(trace))'
        /\ (last_node \in NodesOf(trace) \cup {None})'
        /\ (last_ev_parent \in {e.index : e \in trace} \cup {-1, None})'
    BY DEF PCs
  <2>2. /\ (\A s \in DOMAIN last_on : last_on[s] \in NodesOf(trace))'
        /\ (\A i \in DOMAIN kernel_sync : kernel_sync[i] \in {e.index : e \in full} \cup {None})'
        /\ (result \in {None} \cup [success : BOOLEAN, length : Nat])'
    BY DEF Results
  <2>3. /\ (DOMAIN edges \subseteq NodesOf(trace) \X NodesOf(trace))'
        /\ (\A p \in DOMAIN edges : edges[p].type \in EdgeTypes /\ edges[p].weight \in Int)'
        /\ (DOMAIN edge_to_event \subseteq DOMAIN edges)'
    BY DEF EdgeMap
  <2> HIDE <1>3
  <2> QED
    BY <2>1, <2>2, <2>3 DEF TypeOK
<1> QED
  BY <1>2, <1>4 DEF Typed

(* The parts of the invariant, for the steps that leave them alone. *)
LEMMA TypedParts ==
  ASSUME Typed
  PROVE  /\ pc \in PCs /\ left \subseteq Nodes(trace) \cup trace
         /\ threads \subseteq HostThreads(trace)
         /\ starts \subseteq NodesOf(trace) /\ stack \in Seq(trace)
         /\ last_node \in NodesOf(trace) \cup {None}
         /\ last_ev_parent \in {e.index : e \in trace} \cup {-1, None}
         /\ op_depth = Cardinality(OpenWithNodes)
         /\ \A s \in DOMAIN last_on : last_on[s] \in NodesOf(trace)
         /\ \A i \in DOMAIN kernel_sync : kernel_sync[i] \in {e.index : e \in full} \cup {None}
         /\ EdgeMap(edges) /\ DOMAIN edge_to_event \subseteq DOMAIN edges
         /\ result \in Results
  BY DEF Typed, TypeOK, PCs, EdgeMap, Results

LEMMA InitTyped == Init => Typed
<1> SUFFICES ASSUME Init PROVE Typed
  OBVIOUS
<1>1. /\ op_depth = 0 /\ Len(stack) = 0 /\ stack \in Seq(trace)
      /\ DOMAIN stack = {} /\ DOMAIN edges = {} /\ DOMAIN edge_to_event = {}
      /\ DOMAIN last_on = {} /\ DOMAIN kernel_sync = {}
  BY DEF Init
<1>2. op_depth = Cardinality(OpenWithNodes)
  <2>1. OpenWithNodes = {}
    BY <1>1 DEF OpenWithNodes
  <2> QED
    BY <1>1, <2>1, FS_EmptySet
<1>3. TypeOK
  BY <1>1 DEF Init, TypeOK
<1> QED
  BY <1>2, <1>3 DEF Init, Typed

(* Before the window is cut out there is neither node nor edge. *)
LEMMA ClipTyped == IInv /\ Typed /\ Clip => Typed'
<1> SUFFICES ASSUME IInv, Typed, Clip PROVE Typed'
  OBVIOUS
<1>0. /\ UNCHANGED <<full, asked, options, threads, starts, stack, last_node, last_ev_parent, op_depth,
                     last_on, kernel_sync, edges, edge_to_event, result>>
      /\ trace = {} /\ NodesOf({}) = {} /\ HostThreads({}) = {} /\ Rows
  BY DEF Clip, input, locals, graph, Typed, NodesOf, Nodes, HostThreads, HostRows, IInv
<1>1. /\ threads = {} /\ starts = {} /\ stack \in Seq({}) /\ last_node = None
      /\ last_ev_parent \in {-1, None} /\ DOMAIN last_on = {} /\ DOMAIN edges = {}
      /\ DOMAIN edge_to_event = {} /\ op_depth = Cardinality(OpenWithNodes) /\ op_depth \in 0 .. Len(stack)
  BY <1>0 DEF Typed, TypeOK
<1>2. stack = << >>
  BY <1>1
<1>3. OpenWithNodes' = OpenWithNodes
  BY <1>0 DEF OpenWithNodes
<1>4. /\ pc' \in {"returned", "raised", "locks"} /\ trace' \subseteq full /\ left' \subseteq Nodes(trace')
  <2> DEFINE instances == Instances(full, asked.first, asked.last)
  <2>1. CASE instances = {}
    <3>1. pc' \in {"returned", "raised"} /\ UNCHANGED <<trace, left>>
      BY <2>1 DEF Clip
    <3>2. left \subseteq Nodes({}) \cup {} /\ Nodes({}) = {}
      BY <1>0 DEF Typed, TypeOK, Nodes
    <3> QED
      BY <1>0, <3>1, <3>2
  <2>2. CASE instances # {}
    <3>1. trace' = Clipped(full, instances) /\ left' = LockNodes(trace') /\ pc' = "locks"
      BY <2>2 DEF Clip
    <3> QED
      BY <3>1 DEF Clipped, LockNodes, NodesOf
  <2> QED
    BY <2>1, <2>2
<1>5. TypeOK'
  <2>1. /\ (asked \in Asked /\ options \in Options)'
        /\ (\A i \in DOMAIN kernel_sync : kernel_sync[i] \in {e.index : e \in full} \cup {None})'
        /\ (result \in {None} \cup [success : BOOLEAN, length : Nat])'
    BY <1>0 DEF Typed, TypeOK
  <2>2. /\ (trace \subseteq full)' /\ (left \subseteq Nodes(trace) \cup trace)'
        /\ (pc \in {"clip", "locks", "threads", "replay", "kernels", "built", "returned", "raised"})'
    BY <1>0, <1>4
  <2>3. /\ (threads \subseteq HostThreads(trace))'
        /\ (starts \subseteq NodesOf(trace))' /\ (stack \in Seq(trace))'
        /\ (last_node \in NodesOf(trace) \cup {None})'
        /\ (last_ev_parent \in {e.index : e \in trace} \cup {-1, None})'
        /\ (op_depth \in 0 .. Len(stack))'
        /\ (\A s \in DOMAIN last_on : last_on[s] \in NodesOf(trace))'
        /\ (DOMAIN edges \subseteq NodesOf(trace) \X NodesOf(trace))'
        /\ (\A p \in DOMAIN edges : edges[p].type \in EdgeTypes /\ edges[p].weight \in Int)'
        /\ (DOMAIN edge_to_event \subseteq DOMAIN edges)'
    BY <1>0, <1>1, <1>2
  <2> QED
    BY <2>1, <2>2, <2>3 DEF TypeOK
<1> QED
  BY <1>0, <1>1, <1>3, <1>4, <1>5 DEF Typed

LEMMA SpanTypes ==
  /\ "operator" \in EdgeTypes /\ "dependency" \in EdgeTypes /\ "sync" \in EdgeTypes
  /\ "kernel delay" \in EdgeTypes /\ "launch delay" \in EdgeTypes
  BY Zenon DEF EdgeTypes, Spans

LEMMA EdgeTyped ==
  ASSUME NEW m, NEW n, Ts(m) \in Int, Ts(n) \in Int, NEW type \in EdgeTypes, NEW zero_weight \in BOOLEAN
  PROVE  Edge(m, n, type, zero_weight).type \in EdgeTypes /\ Edge(m, n, type, zero_weight).weight \in Int
  BY DEF Edge

LEMMA EdgesWith ==
  ASSUME NEW map, NEW new, EdgeMap(map), EdgeMap(new)
  PROVE  EdgeMap(With(map, new))
  BY WithDomain DEF EdgeMap

LEMMA EdgesIntoTyped ==
  ASSUME Rows, NEW nodes, nodes \subseteq NodesOf(trace), NEW n \in NodesOf(trace),
         NEW type \in EdgeTypes, NEW zero_weight \in BOOLEAN
  PROVE  EdgeMap(EdgesInto(nodes, n, type, zero_weight))
<1> DEFINE new == EdgesInto(nodes, n, type, zero_weight)
<1>1. /\ \A p \in DOMAIN new : p[1] \in nodes /\ p = <<p[1], n>>
      /\ \A p \in DOMAIN new : new[p] = Edge(p[1], n, type, zero_weight)
  BY DEF EdgesInto
<1> HIDE DEF new
<1>2. \A p \in DOMAIN new : p \in NodesOf(trace) \X NodesOf(trace)
  BY <1>1
<1>3. \A p \in DOMAIN new : new[p].type \in EdgeTypes /\ new[p].weight \in Int
  BY <1>1, NodeOfTrace, EdgeTyped
<1>4. EdgeMap(new)
  BY <1>2, <1>3 DEF EdgeMap
<1> QED
  BY <1>4 DEF new

LEMMA LocksTyped == IInv /\ Typed /\ (PassLock \/ FinishLocks) => Typed'
<1>1. ASSUME IInv, Typed, PassLock PROVE Typed'
  <2>1. PICK n \in left :
          /\ left' = left \ {n} /\ last_node' = n
          /\ IF n.start
             THEN starts' = starts \cup {n} /\ UNCHANGED graph
             ELSE /\ starts' = {}
                  /\ edges' = With(edges, LockEdges(n))
                  /\ edge_to_event' =
                       With(edge_to_event, [p \in {<<Start(n.of), n>>} \cap DOMAIN LockEdges(n) |-> n.of.index])
    BY <1>1 DEF PassLock
  <2>2. /\ pc = "locks" /\ Rows /\ n \in NodesOf(trace) /\ EdgeMap(edges)
        /\ starts \subseteq NodesOf(trace) /\ last_node \in NodesOf(trace) \cup {None}
        /\ DOMAIN edge_to_event \subseteq DOMAIN edges
        /\ UNCHANGED <<full, asked, options, trace, pc, threads, stack, last_ev_parent, op_depth,
                       last_on, kernel_sync, result>>
    BY <1>1, <2>1, TypedParts DEF PassLock, IInv, LockPhase, LockNodes, input
  <2>3. EdgeMap(edges') /\ DOMAIN edge_to_event' \subseteq DOMAIN edges' /\ starts' \subseteq NodesOf(trace)
    <3>1. CASE n.start
      BY <2>1, <2>2, <3>1 DEF graph
    <3>2. CASE ~n.start
      <4> DEFINE type(p) == IF p[1].of = n.of THEN "operator" ELSE "dependency"
                 sources == starts \cup (IF last_node = None \/ last_node \in starts THEN {} ELSE {last_node})
      <4>0. \A p : type(p) \in EdgeTypes
        BY SpanTypes
      <4>1. LockEdges(n) = [p \in {<<m, n>> : m \in sources} |-> Edge(p[1], n, type(p), FALSE)]
        BY DEF LockEdges
      <4>2. EdgeMap(LockEdges(n))
        <5>1. sources \subseteq NodesOf(trace)
          BY <2>2
        <5> HIDE DEF type, sources
        <5>2. ASSUME NEW p \in DOMAIN LockEdges(n)
              PROVE  /\ p[1] \in NodesOf(trace) /\ p \in NodesOf(trace) \X NodesOf(trace)
                     /\ LockEdges(n)[p] = Edge(p[1], n, type(p), FALSE)
          <6>1. p \in {<<m, n>> : m \in sources}
            BY <4>1
          <6>2. LockEdges(n)[p] = Edge(p[1], n, type(p), FALSE)
            BY <4>1, <6>1
          <6>3. PICK m \in sources : p = <<m, n>>
            BY <6>1
          <6> QED
            BY <2>2, <5>1, <6>2, <6>3
        <5>3. ASSUME NEW p \in DOMAIN LockEdges(n)
              PROVE  LockEdges(n)[p].type \in EdgeTypes /\ LockEdges(n)[p].weight \in Int
          <6> DEFINE edge == Edge(p[1], n, type(p), FALSE)
          <6>1. Ts(p[1]) \in Int /\ Ts(n) \in Int /\ type(p) \in EdgeTypes /\ FALSE \in BOOLEAN
            BY <2>2, <4>0, <5>2, NodeOfTrace
          <6>2. edge.type \in EdgeTypes /\ edge.weight \in Int
            BY <6>1, EdgeTyped
          <6>3. LockEdges(n)[p] = edge
            BY <5>2
          <6> QED
            BY <6>2, <6>3, Zenon
        <5> QED
          BY <5>2, <5>3 DEF EdgeMap
      <4> DEFINE new == LockEdges(n)
                 mine == [p \in {<<Start(n.of), n>>} \cap DOMAIN new |-> n.of.index]
      <4>3. edges' = With(edges, new) /\ edge_to_event' = With(edge_to_event, mine) /\ starts' = {}
        BY <2>1, <3>2
      <4>4. DOMAIN mine \subseteq DOMAIN new
        OBVIOUS
      <4> HIDE DEF new, mine
      <4>5. DOMAIN edge_to_event' \subseteq DOMAIN edges'
        BY <2>2, <4>3, <4>4, WithDomain
      <4> QED
        BY <2>2, <4>2, <4>3, <4>5, EdgesWith DEF new
    <3> QED
      BY <3>1, <3>2
  <2>4. OpenWithNodes' = OpenWithNodes
    BY <2>2 DEF OpenWithNodes
  <2> QED
    BY <1>1, <2>1, <2>2, <2>3, <2>4, TypedParts, StillTyped DEF PCs
<1>2. ASSUME IInv, Typed, FinishLocks PROVE Typed'
  <2>1. /\ pc' = "threads" /\ threads' = HostThreads(trace)
        /\ UNCHANGED <<full, asked, options, trace, left, starts, stack, last_node, last_ev_parent, op_depth,
                       last_on, kernel_sync, edges, edge_to_event, result>>
    BY <1>2 DEF FinishLocks, input, locals, graph
  <2>2. OpenWithNodes' = OpenWithNodes
    BY <2>1 DEF OpenWithNodes
  <2> QED
    BY <1>2, <2>1, <2>2, TypedParts, StillTyped DEF PCs
<1> QED
  BY <1>1, <1>2

LEMMA ThreadsTyped == IInv /\ Typed /\ (StartThread \/ FinishThread \/ StartKernels) => Typed'
<1>1. ASSUME IInv, Typed, StartThread PROVE Typed'
  <2>1. PICK t \in threads : threads' = threads \ {t} /\ left' = Nodes(ThreadRows(trace, t))
    BY <1>1 DEF StartThread
  <2>2. /\ pc' = "replay" /\ stack' = << >> /\ last_node' = None /\ last_ev_parent' = None /\ op_depth' = 0
        /\ UNCHANGED <<full, asked, options, trace, starts, last_on, kernel_sync, edges, edge_to_event, result>>
    BY <1>1 DEF StartThread, input, graph
  <2>3. left' \subseteq Nodes(trace) /\ stack' \in Seq(trace)
    BY <2>1, <2>2 DEF Nodes, ThreadRows, HostRows
  <2>4. op_depth' = Cardinality(OpenWithNodes)'
    <3>1. OpenWithNodes' = {}
      BY <2>2 DEF OpenWithNodes
    <3> QED
      BY <2>2, <3>1, FS_EmptySet
  <2> QED
    BY <1>1, <2>1, <2>2, <2>3, <2>4, TypedParts, StillTyped DEF PCs
<1>2. ASSUME IInv, Typed, FinishThread \/ StartKernels PROVE Typed'
  <2>1. /\ pc' \in {"threads", "kernels", "raised"} /\ (left' = left \/ left' = DeviceRows(trace))
        /\ UNCHANGED <<full, asked, options, trace, threads, starts, stack, last_node, last_ev_parent, op_depth,
                       last_on, kernel_sync, edges, edge_to_event, result>>
    BY <1>2 DEF FinishThread, StartKernels, input, locals, graph
  <2>2. OpenWithNodes' = OpenWithNodes /\ DeviceRows(trace) \subseteq trace
    BY <2>1 DEF OpenWithNodes, DeviceRows
  <2> QED
    BY <1>2, <2>1, <2>2, TypedParts, StillTyped DEF PCs
<1> QED
  BY <1>1, <1>2

(* An edge of the traversal of a call stack.                               *)
LEMMA LinkTyped ==
  ASSUME Rows, Typed, NEW n \in NodesOf(trace), NEW type \in EdgeTypes, NEW zero_weight \in BOOLEAN,
         Link(n, type, zero_weight)
  PROVE  EdgeMap(edges') /\ DOMAIN edge_to_event' \subseteq DOMAIN edges'
<1>0. EdgeMap(edges) /\ DOMAIN edge_to_event \subseteq DOMAIN edges /\ last_node \in NodesOf(trace) \cup {None}
  BY TypedParts
<1>1. CASE last_node # None /\ ~SharesLock(last_node, n)
  <2> DEFINE edge == Edge(last_node, n, type, zero_weight)
             new == [p \in {<<last_node, n>>} |-> edge]
  <2>1. EdgeMap(new)
    <3>1. last_node \in NodesOf(trace)
      BY <1>0, <1>1
    <3>2. edge.type \in EdgeTypes /\ edge.weight \in Int
      <4>1. Ts(last_node) \in Int /\ Ts(n) \in Int
        BY <3>1, NodeOfTrace
      <4> QED
        BY <4>1, EdgeTyped
    <3> HIDE DEF edge
    <3>3. /\ DOMAIN new = {<<last_node, n>>}
          /\ \A p \in DOMAIN new : new[p].type \in EdgeTypes /\ new[p].weight \in Int
      BY <3>2
    <3> HIDE DEF new
    <3> QED
      BY <3>1, <3>3 DEF EdgeMap
  <2>2. edges' = With(edges, new)
    BY <1>1 DEF Link, AddEdge
  <2>3. DOMAIN edge_to_event' \subseteq DOMAIN edge_to_event \cup {<<last_node, n>>}
    BY <1>1, AddEdgeDomain DEF Link
  <2>4. DOMAIN new = {<<last_node, n>>}
    OBVIOUS
  <2> HIDE DEF new
  <2> QED
    BY <1>0, <2>1, <2>2, <2>3, <2>4, EdgesWith, WithDomain
<1>2. CASE ~(last_node # None /\ ~SharesLock(last_node, n))
  BY <1>0, <1>2 DEF Link, graph
<1> QED
  BY <1>1, <1>2

(* Entering the event e, and leaving it.                                   *)
LEMMA EnterTyped ==
  ASSUME Rows, Typed, NEW e \in trace, NEW parent \in {d.index : d \in trace} \cup {-1}, Enter(e, parent)
  PROVE  /\ EdgeMap(edges') /\ DOMAIN edge_to_event' \subseteq DOMAIN edges'
         /\ last_node' \in NodesOf(trace) \cup {None}
         /\ last_ev_parent' \in {d.index : d \in trace} \cup {-1, None}
         /\ op_depth' = IF HasNodes(e) THEN op_depth + 1 ELSE op_depth
<1>1. CASE HasNodes(e)
  <2> DEFINE type == IF op_depth = 0 THEN "dependency" ELSE "operator"
  <2>1. /\ Link(Start(e), type, FALSE)
        /\ last_node' = Start(e) /\ last_ev_parent' = parent /\ op_depth' = op_depth + 1
    BY <1>1 DEF Enter
  <2>2. type \in EdgeTypes /\ FALSE \in BOOLEAN /\ Start(e) \in NodesOf(trace)
    BY <1>1, SpanTypes, NodesWith
  <2> HIDE DEF type
  <2>3. EdgeMap(edges') /\ DOMAIN edge_to_event' \subseteq DOMAIN edges'
    BY <2>1, <2>2, LinkTyped
  <2> QED
    BY <1>1, <2>1, <2>2, <2>3
<1>2. CASE ~HasNodes(e)
  BY <1>2, TypedParts DEF Enter, graph
<1> QED
  BY <1>1, <1>2

LEMMA ExitTyped ==
  ASSUME Rows, Typed, NEW e \in trace, NEW parent \in {d.index : d \in trace} \cup {-1}, Exit(e, parent)
  PROVE  /\ EdgeMap(edges') /\ DOMAIN edge_to_event' \subseteq DOMAIN edges'
         /\ last_node' \in NodesOf(trace) \cup {None}
         /\ last_ev_parent' \in {d.index : d \in trace} \cup {-1, None}
         /\ op_depth' = IF HasNodes(e) THEN op_depth - 1 ELSE op_depth
<1>1. CASE HasNodes(e)
  <2>1. /\ Link(End(e), "operator", Blocks(e))
        /\ last_node' = End(e) /\ last_ev_parent' = parent /\ op_depth' = op_depth - 1
    BY <1>1 DEF Exit
  <2>2. "operator" \in EdgeTypes /\ End(e) \in NodesOf(trace)
    BY <1>1, SpanTypes, NodesWith
  <2>4. Blocks(e) \in BOOLEAN
    BY SMT DEF Blocks
  <2>3. EdgeMap(edges') /\ DOMAIN edge_to_event' \subseteq DOMAIN edges'
    BY <2>1, <2>2, <2>4, LinkTyped
  <2> QED
    BY <1>1, <2>1, <2>2, <2>3
<1>2. CASE ~HasNodes(e)
  BY <1>2, TypedParts DEF Exit, graph
<1> QED
  BY <1>1, <1>2

LEMMA TopTyped ==
  ASSUME NEW s \in Seq(trace)
  PROVE  Top(s) \in {d.index : d \in trace} \cup {-1}
<1>1. CASE s # << >>
  <2>1. Len(s) \in DOMAIN s /\ Last(s) = s[Len(s)]
    BY <1>1 DEF Last
  <2>2. Last(s) \in trace
    BY <2>1, ElementOfSeq
  <2> QED
    BY <1>1, <2>2 DEF Top
<1> QED
  BY <1>1 DEF Top

LEMMA ReplayTyped == IInv /\ Typed /\ ReplayEnd => Typed'
<1> SUFFICES ASSUME IInv, Typed, ReplayEnd PROVE Typed'
  OBVIOUS
<1>1. PICK n \in left :
        /\ \A m \in left \ {n} : EventBefore(n, m)
        /\ left' = left \ {n}
        /\ IF n.start
           THEN stack' = Append(stack, n.of) /\ Enter(n.of, Top(stack))
           ELSE stack' = Front(stack) /\ Exit(Last(stack), Top(Front(stack)))
  BY DEF ReplayEnd
<1>2. /\ pc = "replay" /\ Rows /\ left \subseteq HostNodes /\ n.of \in trace
      /\ UNCHANGED <<full, asked, options, trace, pc, threads, starts, last_on, kernel_sync, result>>
  <2>1. left \subseteq HostNodes /\ Rows
    BY DEF ReplayEnd, IInv, ReplayPhase
  <2>2. n.of \in HostRows(trace)
    BY <1>1, <2>1, NodeCases DEF HostNodes
  <2>3. n.of \in trace
    BY <2>2 DEF HostRows
  <2> QED
    BY <2>1, <2>3 DEF ReplayEnd, input
<1>3. stack \in Seq(trace) /\ op_depth = Cardinality(OpenWithNodes) /\ IsFiniteSet(OpenWithNodes)
  <2>1. stack \in Seq(trace) /\ op_depth = Cardinality(OpenWithNodes)
    BY TypedParts
  <2>2. OpenWithNodes \in SUBSET (1 .. Len(stack)) /\ Len(stack) \in Nat
    BY <2>1 DEF OpenWithNodes
  <2> QED
    BY <2>1, <2>2, Positions, FS_Subset
<1>4. ASSUME stack' \in Seq(trace), op_depth' = Cardinality(OpenWithNodes'),
             EdgeMap(edges'), DOMAIN edge_to_event' \subseteq DOMAIN edges',
             last_node' \in NodesOf(trace) \cup {None},
             last_ev_parent' \in {d.index : d \in trace} \cup {-1, None}
      PROVE  Typed'
  BY <1>1, <1>2, <1>4, TypedParts, StillTyped DEF PCs
<1>5. CASE n.start
  <2> DEFINE e == n.of
  <2>1. stack' = Append(stack, e) /\ Enter(e, Top(stack)) /\ Top(stack) \in {d.index : d \in trace} \cup {-1}
    BY <1>1, <1>3, <1>5, TopTyped
  <2>2. /\ stack' \in Seq(trace) /\ DOMAIN stack = 1 .. Len(stack) /\ Len(stack) \in Nat
        /\ DOMAIN stack' = 1 .. Len(stack) + 1 /\ stack'[Len(stack) + 1] = e
        /\ \A i \in DOMAIN stack : stack'[i] = stack[i]
    BY <1>2, <1>3, <2>1
  <2>3. OpenWithNodes' = IF HasNodes(e) THEN OpenWithNodes \cup {Len(stack) + 1} ELSE OpenWithNodes
    <3>1. \A i : i \in DOMAIN stack' <=> i \in DOMAIN stack \/ i = Len(stack) + 1
      BY <2>2
    <3> QED
      BY <2>2, <3>1 DEF OpenWithNodes
  <2>4. op_depth' = Cardinality(OpenWithNodes')
    <3>1. Len(stack) + 1 \notin OpenWithNodes
      BY <2>2 DEF OpenWithNodes
    <3>2. Cardinality(OpenWithNodes \cup {Len(stack) + 1}) = Cardinality(OpenWithNodes) + 1
      BY <1>3, <3>1, FS_AddElement
    <3> QED
      BY <1>2, <1>3, <2>1, <2>3, <3>2, EnterTyped
  <2> QED
    BY <1>2, <1>4, <2>1, <2>2, <2>4, EnterTyped
<1>6. CASE ~n.start
  <2> DEFINE e == Last(stack)
             rest == Front(stack)
             top == Len(stack)
  <2>1. stack' = rest /\ Exit(e, Top(rest)) /\ top \in Nat \ {0}
    BY <1>1, <1>2, <1>6, ClosingEnd
  <2>2. /\ rest \in Seq(trace) /\ DOMAIN stack = 1 .. top /\ DOMAIN rest = 1 .. top - 1
        /\ e = stack[top] /\ top \in DOMAIN stack
        /\ \A i \in DOMAIN rest : rest[i] = stack[i]
    BY <1>3, <2>1 DEF Front, Last
  <2>3. e \in trace
    BY <1>3, <2>2, ElementOfSeq
  <2>4. OpenWithNodes' = OpenWithNodes \ {top} /\ (top \in OpenWithNodes <=> HasNodes(e))
    <3>1. \A i : i \in DOMAIN rest <=> i \in DOMAIN stack /\ i # top
      BY <2>1, <2>2
    <3> HIDE DEF rest, top, e
    <3> QED
      BY <2>1, <2>2, <3>1 DEF OpenWithNodes
  <2>5. Top(rest) \in {d.index : d \in trace} \cup {-1}
    BY <2>2, TopTyped
  <2> HIDE DEF rest, top, e
  <2>6. op_depth' = Cardinality(OpenWithNodes')
    <3>1. CASE HasNodes(e)
      <4>1. Cardinality(OpenWithNodes \ {top}) = Cardinality(OpenWithNodes) - 1
        BY <1>3, <2>4, <3>1, FS_RemoveElement
      <4> QED
        BY <1>2, <1>3, <2>1, <2>3, <2>4, <2>5, <3>1, <4>1, ExitTyped
    <3>2. CASE ~HasNodes(e)
      <4>1. OpenWithNodes \ {top} = OpenWithNodes
        BY <2>4, <3>2
      <4> QED
        BY <1>2, <1>3, <2>1, <2>3, <2>4, <2>5, <3>2, <4>1, ExitTyped
    <3> QED
      BY <3>1, <3>2
  <2> QED
    BY <1>2, <1>4, <2>1, <2>2, <2>3, <2>5, <2>6, ExitTyped
<1> QED
  BY <1>5, <1>6

LEMMA RowAtIndex ==
  ASSUME Rows, NEW rows, rows \subseteq full, NEW e \in rows, NEW index, e.index = index
  PROVE  RowAt(rows, index) = e
<1>1. \A d \in rows : d.index = index => d = e
  BY UniqueIndex
<1> QED
  BY <1>1 DEF RowAt

(* A row with nodes that an index names.                                   *)
LEMMA EndInGraph ==
  ASSUME Rows, NEW index, InGraph(index)
  PROVE  /\ End(RowAt(trace, index)) \in NodesOf(trace)
         /\ RowAt(full, index) = RowAt(trace, index)
<1>1. PICK e \in trace : e.index = index /\ HasNodes(e)
  BY DEF InGraph
<1>2. RowAt(trace, index) = e /\ RowAt(full, index) = e
  BY <1>1, RowAtIndex DEF Rows
<1> QED
  BY <1>1, <1>2, NodesWith

LEMMA AwaitedTyped ==
  ASSUME Rows, Typed, NEW r
  PROVE  AwaitedNodes(r) \subseteq NodesOf(trace)
<1> SUFFICES ASSUME NEW m \in AwaitedNodes(r) PROVE m \in NodesOf(trace)
  OBVIOUS
<1>1. CASE r.name = "Event Sync"
  <2>1. PICK c \in PreviousLaunch(full, r) : InGraph(c.index_correlation) /\ m = End(LinkedRow(c))
    BY <1>1 DEF AwaitedNodes
  <2> QED
    BY <2>1, EndInGraph DEF LinkedRow
<1>2. CASE r.name # "Event Sync"
  <2>1. \A s \in DOMAIN last_on : last_on[s] \in NodesOf(trace)
    BY TypedParts
  <2> QED
    BY <1>2, <2>1 DEF AwaitedNodes
<1> QED
  BY <1>1, <1>2

(* What a launch is linked to is a row of the trace. *)
LEMMA LaunchLinked ==
  ASSUME NEW r, NEW c \in PreviousLaunch(full, r)
  PROVE  c.index_correlation \in {e.index : e \in full}
<1>1. PICK s : c \in LaunchesOn(full, s)
  BY DEF PreviousLaunch
<1>2. PICK k \in LinkedKernels(full, c) : TRUE
  BY <1>1 DEF LaunchesOn
<1> QED
  BY <1>2 DEF LinkedKernels, GpuKernels

LEMMA DeviceTyped == IInv /\ Typed /\ PassDeviceRow => Typed'
<1> SUFFICES ASSUME IInv, Typed, PassDeviceRow PROVE Typed'
  OBVIOUS
<1>1. PICK r \in left : left' = left \ {r} /\ (SyncHost(r) \/ SyncStream(r) \/ AddKernel(r))
  BY DEF PassDeviceRow
<1>2. /\ Rows /\ r \in DeviceRows(trace) /\ pc = "kernels"
      /\ UNCHANGED <<full, asked, options, trace, threads, starts, stack, last_node, last_ev_parent, op_depth,
                     result>>
  BY <1>1 DEF PassDeviceRow, IInv, KernelPhase, input
<1>3. /\ EdgeMap(edges) /\ DOMAIN edge_to_event \subseteq DOMAIN edges
      /\ \A s \in DOMAIN last_on : last_on[s] \in NodesOf(trace)
      /\ \A i \in DOMAIN kernel_sync : kernel_sync[i] \in {e.index : e \in full} \cup {None}
  BY TypedParts
<1>4. ASSUME pc' \in {"kernels", "raised"}, EdgeMap(edges'), DOMAIN edge_to_event' \subseteq DOMAIN edges',
             \A s \in DOMAIN last_on' : last_on'[s] \in NodesOf(trace),
             \A i \in DOMAIN kernel_sync' : kernel_sync'[i] \in {e.index : e \in full} \cup {None}
      PROVE  Typed'
  <2>1. OpenWithNodes' = OpenWithNodes
    BY <1>2 DEF OpenWithNodes
  <2> QED
    BY <1>1, <1>2, <1>4, <2>1, TypedParts, StillTyped DEF PCs
<1>5. CASE SyncHost(r)
  <2> DEFINE n == End(RowAt(trace, r.index_correlation))
             new == EdgesInto(AwaitedNodes(r), n, "sync", FALSE)
  <2>1. /\ pc' \in {"kernels", "raised"} /\ UNCHANGED <<edge_to_event, last_on, kernel_sync>>
        /\ edges' = edges \/ (InGraph(r.index_correlation) /\ edges' = With(edges, new))
    <3>1. pc' \in {"kernels", "raised"}
      BY <1>2, <1>5 DEF SyncHost
    <3> QED
      BY <1>5, <3>1 DEF SyncHost
  <2>2. CASE edges' = edges
    BY <1>2, <1>3, <1>4, <2>1, <2>2
  <2>3. CASE InGraph(r.index_correlation) /\ edges' = With(edges, new)
    <3>1. "sync" \in EdgeTypes /\ FALSE \in BOOLEAN /\ n \in NodesOf(trace)
      BY <1>2, <2>3, SpanTypes, EndInGraph
    <3> HIDE DEF n
    <3>2. EdgeMap(new)
      BY <1>2, <3>1, AwaitedTyped, EdgesIntoTyped
    <3> HIDE DEF new
    <3>3. EdgeMap(edges') /\ DOMAIN edges \subseteq DOMAIN edges'
      BY <1>3, <2>3, <3>2, EdgesWith, WithDomain
    <3> QED
      BY <1>2, <1>3, <1>4, <2>1, <3>3
  <2> QED
    BY <2>1, <2>2, <2>3
<1>6. CASE SyncStream(r)
  <2>1. /\ UNCHANGED <<edges, edge_to_event, last_on>> /\ pc' \in {"kernels", "raised"}
        /\ \/ UNCHANGED kernel_sync
           \/ \E c \in PreviousLaunch(full, r) :
                kernel_sync' = With(kernel_sync,
                    [i \in {d.index_correlation : d \in NextLaunch(full, r)} |-> c.index_correlation])
    BY <1>2, <1>6 DEF SyncStream, graph
  <2>2. CASE \E c \in PreviousLaunch(full, r) :
               kernel_sync' = With(kernel_sync,
                   [i \in {d.index_correlation : d \in NextLaunch(full, r)} |-> c.index_correlation])
    <3>1. PICK c \in PreviousLaunch(full, r) :
            kernel_sync' = With(kernel_sync,
                [i \in {d.index_correlation : d \in NextLaunch(full, r)} |-> c.index_correlation])
      BY <2>2
    <3> DEFINE new == [i \in {d.index_correlation : d \in NextLaunch(full, r)} |-> c.index_correlation]
    <3>2. kernel_sync' = With(kernel_sync, new) /\ \A i \in DOMAIN new : new[i] \in {e.index : e \in full}
      BY <3>1, LaunchLinked
    <3> HIDE DEF new
    <3>3. \A i \in DOMAIN kernel_sync' : kernel_sync'[i] \in {e.index : e \in full} \cup {None}
      BY <1>3, <3>2, WithDomain
    <3> QED
      BY <1>3, <1>4, <2>1, <3>3
  <2> QED
    BY <1>3, <1>4, <2>1, <2>2
<1>7. CASE AddKernel(r)
  <2>1. r \in trace /\ HasNodes(r) /\ Start(r) \in NodesOf(trace) /\ End(r) \in NodesOf(trace)
    <3>1. r \in trace /\ r.stream # -1 /\ r.index_correlation >= 0
      BY <1>2, <1>7, KernelsOfDevice DEF AddKernel, DeviceRows
    <3>2. HasNodes(r)
      BY <3>1 DEF HasNodes
    <3> QED
      BY <3>1, <3>2, NodesWith
  <2> DEFINE awaited == IF r.index \in DOMAIN kernel_sync /\ kernel_sync[r.index] # None
                            /\ InGraph(kernel_sync[r.index])
                        THEN {End(RowAt(trace, kernel_sync[r.index]))} ELSE {}
             previous == {last_on[s] : s \in DOMAIN last_on \cap {r.stream}}
             launch == {Start(e) : e \in {d \in trace : d.index = r.index_correlation /\ HasNodes(d)}}
             launched == LaunchDelays(r, awaited, previous)
             delayed == ~launched /\ KernelDelays(r, awaited, previous)
             D == IF delayed THEN previous ELSE {}
             C == IF launched \/ options.launch_edges THEN launch ELSE {}
             span == EdgesInto({Start(r)}, End(r), "operator", FALSE)
             sync == EdgesInto(awaited, Start(r), "sync", FALSE)
             delay == EdgesInto(D, Start(r), "kernel delay", FALSE)
             call == EdgesInto(C, Start(r), "launch delay", ~launched)
  <2>2. /\ awaited \subseteq NodesOf(trace) /\ previous \subseteq NodesOf(trace)
        /\ launch \subseteq NodesOf(trace)
    <3>1. awaited \subseteq NodesOf(trace)
      BY <1>2, EndInGraph
    <3>2. previous \subseteq NodesOf(trace)
      BY <1>3
    <3>3. launch \subseteq NodesOf(trace)
      BY NodesWith
    <3> QED
      BY <3>1, <3>2, <3>3
  <2>3. /\ edges' = With(With(With(With(edges, span), sync), delay), call)
        /\ edge_to_event' = With(edge_to_event, [p \in DOMAIN span \cup DOMAIN delay |-> p[1].of.index])
        /\ pc' = IF launched /\ launch = {} THEN "raised" ELSE pc
        /\ kernel_sync' = [i \in DOMAIN kernel_sync |-> IF i = r.index THEN None ELSE kernel_sync[i]]
        /\ last_on' = With(last_on, [s \in {r.stream} |-> End(r)])
    BY <1>7, Zenon DEF AddKernel
  <2>4. D \subseteq NodesOf(trace) /\ C \subseteq NodesOf(trace)
    BY <2>2
  <2>5. (~launched) \in BOOLEAN
    BY SMT DEF LaunchDelays
  <2> HIDE DEF awaited, previous, launch, launched, delayed, D, C
  <2>6. EdgeMap(span) /\ EdgeMap(sync) /\ EdgeMap(delay) /\ EdgeMap(call)
    <3>1. EdgeMap(span)
      BY <1>2, <2>1, SpanTypes, EdgesIntoTyped, {Start(r)} \subseteq NodesOf(trace), FALSE \in BOOLEAN
    <3>2. EdgeMap(sync)
      BY <1>2, <2>1, <2>2, SpanTypes, EdgesIntoTyped, FALSE \in BOOLEAN
    <3>3. EdgeMap(delay)
      BY <1>2, <2>1, <2>4, SpanTypes, EdgesIntoTyped, FALSE \in BOOLEAN, Zenon
    <3>4. EdgeMap(call)
      BY <1>2, <2>1, <2>4, <2>5, SpanTypes, EdgesIntoTyped, Zenon
    <3> QED
      BY <3>1, <3>2, <3>3, <3>4
  <2> DEFINE mine == [p \in DOMAIN span \cup DOMAIN delay |-> p[1].of.index]
  <2>7. DOMAIN mine = DOMAIN span \cup DOMAIN delay
    OBVIOUS
  <2> HIDE DEF span, sync, delay, call, mine
  <2>8. EdgeMap(edges')
    BY <1>3, <2>3, <2>6, EdgesWith
  <2>9. DOMAIN edge_to_event' \subseteq DOMAIN edges'
    <3>1. PICK one, two, three : /\ one = With(edges, span) /\ two = With(one, sync)
                                 /\ three = With(two, delay) /\ edges' = With(three, call)
      BY <2>3
    <3>2. /\ \A p : p \in DOMAIN one <=> p \in DOMAIN edges \/ p \in DOMAIN span
          /\ \A p : p \in DOMAIN two <=> p \in DOMAIN one \/ p \in DOMAIN sync
          /\ \A p : p \in DOMAIN three <=> p \in DOMAIN two \/ p \in DOMAIN delay
          /\ \A p : p \in DOMAIN edges' <=> p \in DOMAIN three \/ p \in DOMAIN call
      BY <3>1, WithDomain
    <3>3. edge_to_event' = With(edge_to_event, mine)
      BY <2>3 DEF mine
    <3>4. \A p : p \in DOMAIN edge_to_event' <=> p \in DOMAIN edge_to_event \/ p \in DOMAIN mine
      BY <3>3, WithDomain
    <3> QED
      BY <1>3, <2>7, <3>2, <3>4
  <2>10. \A s \in DOMAIN last_on' : last_on'[s] \in NodesOf(trace)
    BY <1>3, <2>1, <2>3, WithDomain
  <2>11. \A i \in DOMAIN kernel_sync' : kernel_sync'[i] \in {e.index : e \in full} \cup {None}
    BY <1>3, <2>3
  <2>12. pc' \in {"kernels", "raised"}
    BY <1>2, <2>3
  <2> QED
    BY <1>4, <2>8, <2>9, <2>10, <2>11, <2>12
<1> QED
  BY <1>1, <1>5, <1>6, <1>7

(* The longest of the finitely many paths: as long as the walks to a node, *)
(* found by the recursion over the number of edges.                        *)
LEMMA FinitelyManyNodes ==
  ASSUME Rows
  PROVE  IsFiniteSet(GraphNodes) /\ Cardinality(GraphNodes) \in Nat
<1>1. IsFiniteSet(trace)
  BY TracesAssumption, FS_Subset DEF Rows
<1> DEFINE first == [e \in trace |-> Start(e)]
           last == [e \in trace |-> End(e)]
<1>2. Nodes(trace) = {first[e] : e \in trace} \cup {last[e] : e \in trace}
  BY DEF Nodes
<1> HIDE DEF first, last
<1>3. IsFiniteSet({first[e] : e \in trace}) /\ IsFiniteSet({last[e] : e \in trace})
  BY <1>1, Image
<1>4. IsFiniteSet(Nodes(trace))
  BY <1>2, <1>3, FS_Union
<1>5. GraphNodes \subseteq Nodes(trace)
  BY DEF GraphNodes, NodesOf
<1> QED
  BY <1>4, <1>5, FS_Subset, FS_CardinalityType

LEMMA WeightsOfEdges ==
  ASSUME Typed
  PROVE  \A p \in DOMAIN edges : p[1] \in GraphNodes /\ p[2] \in GraphNodes /\ WeightOf(p) \in Int
<1>1. EdgeMap(edges)
  BY TypedParts
<1> QED
  BY <1>1 DEF EdgeMap, WeightOf, GraphNodes

LEMMA EdgesFinite ==
  ASSUME Rows, Typed
  PROVE  IsFiniteSet(DOMAIN edges)
<1>1. IsFiniteSet(GraphNodes \X GraphNodes)
  BY FinitelyManyNodes, FS_Product
<1>2. DOMAIN edges \subseteq GraphNodes \X GraphNodes
  BY TypedParts DEF EdgeMap, GraphNodes
<1> QED
  BY <1>1, <1>2, FS_Subset

(* The length of the longest of some walks, of which one has no edge.      *)
LEMMA NoNegativeLength ==
  ASSUME NEW T, IsFiniteSet(T), NEW f, \A x \in T : f[x] \in Int
  PROVE  Max({0} \cup {f[x] : x \in T}) \in Nat
<1> DEFINE values == {f[x] : x \in T}
           lengths == {0} \cup values
<1>1. IsFiniteSet(values) /\ values \subseteq Int
  BY Image
<1> HIDE DEF values
<1>2. IsFiniteSet(lengths) /\ lengths \subseteq Int /\ 0 \in lengths
  <2>1. IsFiniteSet({0})
    BY FS_Singleton
  <2>2. IsFiniteSet(lengths)
    BY <1>1, <2>1, FS_Union
  <2> QED
    BY <1>1, <2>2
<1> HIDE DEF lengths
<1>3. Max(lengths) \in lengths /\ \A t \in lengths : t <= Max(lengths)
  BY <1>2, Greatest
<1>4. Max(lengths) \in Int /\ 0 <= Max(lengths)
  BY <1>2, <1>3
<1> QED
  BY <1>4 DEF lengths, values

(* The lengths of the longest walks, edge by edge.                         *)
LEMMA DistSteps ==
  ASSUME Rows, Typed
  PROVE  /\ \A k \in Nat : Dist[k] \in [GraphNodes -> Int]
         /\ Dist[0] = [n \in GraphNodes |-> 0]
         /\ \A k \in Nat :
              Dist[k + 1] = [n \in GraphNodes |->
                Max({0} \cup {Dist[k][p[1]] + WeightOf(p) : p \in {q \in DOMAIN edges : q[2] = n}})]
<1> DEFINE D == [GraphNodes -> Int]
           base == [n \in GraphNodes |-> 0]
           into(n) == {q \in DOMAIN edges : q[2] = n}
           longer(b) == [n \in GraphNodes |-> Max({0} \cup {b[p[1]] + WeightOf(p) : p \in into(n)})]
           step == [b \in D |-> longer(b)]
<1>1. ASSUME NEW b \in D PROVE longer(b) \in D
  <2> SUFFICES ASSUME NEW n \in GraphNodes
               PROVE  Max({0} \cup {b[p[1]] + WeightOf(p) : p \in into(n)}) \in Int
    OBVIOUS
  <2> DEFINE f == [p \in into(n) |-> b[p[1]] + WeightOf(p)]
  <2>1. IsFiniteSet(into(n))
    BY EdgesFinite, FS_Subset
  <2>2. \A p \in into(n) : f[p] \in Int
    BY WeightsOfEdges
  <2>3. {b[p[1]] + WeightOf(p) : p \in into(n)} = {f[p] : p \in into(n)}
    OBVIOUS
  <2> HIDE DEF f, into
  <2>4. Max({0} \cup {f[p] : p \in into(n)}) \in Nat
    BY <2>1, <2>2, NoNegativeLength
  <2>5. Max({0} \cup {f[p] : p \in into(n)}) \in Int
    BY <2>4
  <2> QED
    BY <2>3, <2>5, Zenon
<1>2. base \in D /\ step \in [D -> D] /\ \A b \in D : step[b] = longer(b)
  <2> HIDE DEF longer
  <2> QED
    BY <1>1
<1>3. PICK f \in [Nat -> D] : f[0] = base /\ \A k \in Nat : f[k + 1] = step[f[k]]
  <2> HIDE DEF D, base, step
  <2>1. PICK DD, bb, ss : DD = D /\ bb = base /\ ss = step
    OBVIOUS
  <2>2. bb \in DD /\ ss \in [DD -> DD]
    BY <1>2, <2>1
  <2>3. \E f \in [Nat -> DD] : f[0] = bb /\ \A k \in Nat : f[k + 1] = ss[f[k]]
    BY <2>2, Iterates
  <2> QED
    BY <2>1, <2>3
<1>4. f = [k \in Nat |-> IF k = 0 THEN base ELSE longer(f[k - 1])]
  <2>1. ASSUME NEW k \in Nat PROVE f[k] = IF k = 0 THEN base ELSE longer(f[k - 1])
    <3>1. CASE k = 0
      BY <1>3, <3>1
    <3>2. CASE k # 0
      <4>1. k - 1 \in Nat /\ (k - 1) + 1 = k
        BY <3>2
      <4>2. f[k - 1] \in D /\ f[(k - 1) + 1] = step[f[k - 1]]
        BY <1>3, <4>1
      <4> HIDE DEF D, base, longer, step
      <4> QED
        BY <1>2, <3>2, <4>1, <4>2
    <3> QED
      BY <3>1, <3>2
  <2> HIDE DEF D, base, longer
  <2> QED
    BY <1>3, <2>1
<1>5. Dist = [k \in Nat |-> IF k = 0 THEN base ELSE longer(Dist[k - 1])]
  BY <1>4 DEF Dist
<1>6. ASSUME NEW k \in Nat PROVE Dist[k + 1] = longer(Dist[k])
  <2>1. k + 1 \in Nat /\ k + 1 # 0 /\ (k + 1) - 1 = k
    OBVIOUS
  <2> HIDE DEF D, base, longer
  <2> QED
    BY <1>5, <2>1
<1>7. Nat \subseteq {k \in Nat : Dist[k] \in D}
  <2> DEFINE S == {k \in Nat : Dist[k] \in D}
  <2> HIDE DEF D, base, longer
  <2>1. 0 \in S
    BY <1>2, <1>5
  <2>2. ASSUME NEW k \in Nat, k \in S PROVE k + 1 \in S
    BY <1>1, <1>6, <2>2
  <2> HIDE DEF S
  <2>3. Nat \subseteq S
    BY <2>1, <2>2, Naturals
  <2> QED
    BY <2>3 DEF S
<1>8. Dist[0] = base
  <2> HIDE DEF base, longer
  <2> QED
    BY <1>5
<1> QED
  BY <1>6, <1>7, <1>8

LEMMA LongestPathIsLength ==
  ASSUME Rows, Typed
  PROVE  LongestPath \in Nat
<1> DEFINE dist == Dist[Cardinality(GraphNodes)]
<1>1. dist \in [GraphNodes -> Int]
  BY DistSteps, FinitelyManyNodes
<1>2. LongestPath = Max({0} \cup {dist[n] : n \in GraphNodes})
  BY DEF LongestPath
<1> HIDE DEF dist
<1> QED
  BY <1>1, <1>2, FinitelyManyNodes, NoNegativeLength

LEMMA EndTyped == IInv /\ Typed /\ (FinishKernels \/ FindPath \/ UNCHANGED vars) => Typed'
<1>1. ASSUME IInv, Typed, FinishKernels \/ FindPath PROVE Typed'
  <2>1. /\ pc' \in {"built", "returned", "raised"}
        /\ UNCHANGED <<full, asked, options, trace, left, threads, starts, stack, last_node, last_ev_parent,
                       op_depth, last_on, kernel_sync, edges, edge_to_event>>
    BY <1>1 DEF FinishKernels, FindPath, input, locals, graph
  <2>2. \/ result' = result
        \/ result' = [success |-> FALSE, length |-> 0]
        \/ result' = [success |-> TRUE, length |-> LongestPath]
    BY <1>1 DEF FinishKernels, FindPath
  <2>3. result' \in Results
    <3>1. LongestPath \in Nat /\ result \in Results
      BY <1>1, TypedParts, LongestPathIsLength DEF IInv
    <3>2. \A l \in Nat, s \in BOOLEAN : [success |-> s, length |-> l] \in Results
      BY DEF Results
    <3>3. 0 \in Nat /\ TRUE \in BOOLEAN /\ FALSE \in BOOLEAN
      OBVIOUS
    <3> QED
      BY <2>2, <3>1, <3>2, <3>3, Zenon
  <2>4. OpenWithNodes' = OpenWithNodes
    BY <2>1 DEF OpenWithNodes
  <2> QED
    BY <1>1, <2>1, <2>3, <2>4, TypedParts, StillTyped DEF PCs
<1>2. ASSUME Typed, UNCHANGED vars PROVE Typed'
  <2> USE <1>2 DEF vars, input, locals, graph
  <2>1. TypeOK'
    BY DEF Typed, TypeOK
  <2>2. OpenWithNodes' = OpenWithNodes
    BY DEF OpenWithNodes
  <2> QED
    BY <2>1, <2>2 DEF Typed
<1> QED
  BY <1>1, <1>2

(* For every trace, window and choice of options: the variables keep their *)
(* types.  In particular the replay of a call stack never pops an empty    *)
(* stack nor counts a negative depth (enter_func and exit_func), every     *)
(* edge leads from a node of the window to one, with a weight, no event is *)
(* credited with an edge that is not there, and the path has a length.     *)
THEOREM TypeCorrect == Spec => []TypeOK
<1>1. IInv /\ Typed /\ [Next]_vars => Typed'
  BY ClipTyped, LocksTyped, ThreadsTyped, ReplayTyped, DeviceTyped, EndTyped DEF Next
<1>2. Typed => TypeOK
  BY DEF Typed
<1> QED
  BY InitTyped, <1>1, <1>2, Inductive, PTL DEF Spec

-----------------------------------------------------------------------------
(* Self times.  Events of one thread nest, and the analysis credits an     *)
(* event that is on top of the call stack with the time up to the next end *)
(* of an event.                                                            *)

(* The event e begins in d, and ends after it.                             *)
Overlapping(d, e) == d.ts < e.ts /\ e.ts < d.ts + d.dur /\ d.ts + d.dur < e.ts + e.dur

Nested(rows) ==
  \A d, e \in HostRows(rows) : ThreadOf(rows, d) = ThreadOf(rows, e) => ~Overlapping(d, e)

(* The events of one thread that start in the window that is asked for do  *)
(* not overlap in part: they are calls of one another.                     *)
WindowsNest ==
  \A rows \in Traces, a \in Asked : Nested(Clipped(rows, Instances(rows, a.first, a.last)))

(* An index is a row number of the data frame.                             *)
RowsNumbered == \A rows \in Traces : \A e \in rows : e.index \in Nat

(* The event d is inside e: e opened first and closes last.                *)
Covers(e, d) ==
  /\ e.ts <= d.ts /\ d.ts + d.dur <= e.ts + e.dur
  /\ d.ts = e.ts /\ d.dur = e.dur => e.index < d.index

Lasting(e) == e.ts \in Int /\ e.dur \in Int /\ e.dur > 0 /\ e.index \in Nat

(* An event that opens while another one is open is inside of it.          *)
LEMMA OpensInside ==
  ASSUME NEW e, NEW d, Lasting(e), Lasting(d), e.index # d.index, ~Overlapping(e, d),
         EventBefore(Start(e), Start(d)), EventBefore(Start(d), End(e))
  PROVE  Covers(e, d)
<1>1. /\ EventEnd(Start(e)) = OpenEnd(e) /\ EventEnd(Start(d)) = OpenEnd(d) /\ EventEnd(End(e)) = CloseEnd(e)
  BY NodeFields DEF EventEnd
<1>2. LessThan(OpenEnd(e), OpenEnd(d)) /\ LessThan(OpenEnd(d), CloseEnd(e))
  BY <1>1 DEF EventBefore
<1>3. d.ts < e.ts + e.dur
  BY <1>2 DEF LessThan, LessThanAtSameTime, LessThanWithZeroDuration, OpenEnd, CloseEnd, Open, Close, Lasting
<1>4. e.ts < d.ts \/ (e.ts = d.ts /\ (e.dur > d.dur \/ (e.dur = d.dur /\ e.index < d.index)))
  BY <1>2 DEF LessThan, LessThanAtSameTime, LessThanWithZeroDuration, OpenEnd, CloseEnd, Open, Close, Lasting
<1> QED
  BY <1>3, <1>4 DEF Covers, Overlapping, Lasting

(* What is inside an event opens after it and closes before it.            *)
LEMMA InsideInTime ==
  ASSUME NEW e, NEW d, Lasting(e), Lasting(d), e.index # d.index, Covers(e, d)
  PROVE  /\ ~EventBefore(End(e), End(d)) /\ ~EventBefore(Start(d), Start(e))
         /\ ~EventBefore(End(d), Start(e)) /\ ~Covers(d, e)
<1>1. /\ EventEnd(Start(e)) = OpenEnd(e) /\ EventEnd(Start(d)) = OpenEnd(d)
      /\ EventEnd(End(e)) = CloseEnd(e) /\ EventEnd(End(d)) = CloseEnd(d)
  BY NodeFields DEF EventEnd
<1> USE DEF LessThan, LessThanAtSameTime, LessThanWithZeroDuration, OpenEnd, CloseEnd, Open, Close, Lasting, Covers
<1>2. ~LessThan(CloseEnd(e), CloseEnd(d)) /\ ~LessThan(OpenEnd(d), OpenEnd(e))
  OBVIOUS
<1>3. ~LessThan(CloseEnd(d), OpenEnd(e)) /\ ~Covers(d, e)
  OBVIOUS
<1> QED
  BY <1>1, <1>2, <1>3 DEF EventBefore

-----------------------------------------------------------------------------
(* Sums of what edges weigh and of how long rows last.                     *)
Weights == [p \in DOMAIN edges |-> edges[p].weight]
Durations == [c \in trace |-> c.dur]

Credited(e) == {p \in DOMAIN edge_to_event : edge_to_event[p] = e.index}
Credit(e) == SumFunctionOnSet(Weights, Credited(e))
DurationOf(rows) == SumFunctionOnSet(Durations, rows)

(* The sums of SelfTime. *)
WeightsSummed(pairs) == MapThenSumSet(LAMBDA p : edges[p].weight, pairs)
DursSummed(rows) == MapThenSumSet(LAMBDA c : c.dur, rows)

(* They are the sums of functions.                                         *)
LEMMA WeightsSummedIs ==
  ASSUME NEW T, IsFiniteSet(T), T \subseteq DOMAIN edges
  PROVE  WeightsSummed(T) = SumFunctionOnSet(Weights, T)
<1> DEFINE f == Weights
           g == CHOOSE h : h = [s \in SUBSET T |-> IF s = {} THEN 0
                                 ELSE edges[CHOOSE x \in s : TRUE].weight + h[s \ {CHOOSE x \in s : TRUE}]]
<1>1. WeightsSummed(T) = g[T]
  BY DEF WeightsSummed, MapThenSumSet, MapThenFoldSet
<1>2. PICK h : Sums(h, f, SUBSET T) /\ SumFunctionOnSet(f, T) = h[T]
  BY SumIsSums
<1>3. \A s \in SUBSET T : s # {} => f[CHOOSE x \in s : TRUE] = edges[CHOOSE x \in s : TRUE].weight
  BY DEF Weights
<1> HIDE DEF f
<1>4. h = [s \in SUBSET T |-> IF s = {} THEN 0 ELSE f[CHOOSE x \in s : TRUE] + h[s \ {CHOOSE x \in s : TRUE}]]
  BY <1>2 DEF Sums, Chosen
<1>5. h = [s \in SUBSET T |-> IF s = {} THEN 0
             ELSE edges[CHOOSE x \in s : TRUE].weight + h[s \ {CHOOSE x \in s : TRUE}]]
  BY <1>3, <1>4
<1>6. g = [s \in SUBSET T |-> IF s = {} THEN 0
             ELSE edges[CHOOSE x \in s : TRUE].weight + g[s \ {CHOOSE x \in s : TRUE}]]
  BY <1>5
<1> HIDE DEF g
<1>7. g = [s \in SUBSET T |-> IF s = {} THEN 0 ELSE f[CHOOSE x \in s : TRUE] + g[s \ {CHOOSE x \in s : TRUE}]]
  BY <1>3, <1>6
<1>8. Sums(g, f, SUBSET T)
  BY <1>7 DEF Sums, Chosen
<1>9. g[T] = h[T]
  <2>1. T \in SUBSET T
    OBVIOUS
  <2> QED
    BY <1>2, <1>8, <2>1, SumsAgree
<1> QED
  BY <1>1, <1>2, <1>9 DEF f

(* So is the other.                                                        *)
LEMMA DursSummedIs ==
  ASSUME NEW T, IsFiniteSet(T), T \subseteq trace
  PROVE  DursSummed(T) = DurationOf(T)
<1> DEFINE f == Durations
           g == CHOOSE h : h = [s \in SUBSET T |-> IF s = {} THEN 0
                                 ELSE (CHOOSE x \in s : TRUE).dur + h[s \ {CHOOSE x \in s : TRUE}]]
<1>1. DursSummed(T) = g[T]
  BY DEF DursSummed, MapThenSumSet, MapThenFoldSet
<1>2. PICK h : Sums(h, f, SUBSET T) /\ SumFunctionOnSet(f, T) = h[T]
  BY SumIsSums
<1>3. \A s \in SUBSET T : s # {} => f[CHOOSE x \in s : TRUE] = (CHOOSE x \in s : TRUE).dur
  BY DEF Durations
<1> HIDE DEF f
<1>4. h = [s \in SUBSET T |-> IF s = {} THEN 0 ELSE f[CHOOSE x \in s : TRUE] + h[s \ {CHOOSE x \in s : TRUE}]]
  BY <1>2 DEF Sums, Chosen
<1>5. h = [s \in SUBSET T |-> IF s = {} THEN 0
             ELSE (CHOOSE x \in s : TRUE).dur + h[s \ {CHOOSE x \in s : TRUE}]]
  BY <1>3, <1>4
<1>6. g = [s \in SUBSET T |-> IF s = {} THEN 0
             ELSE (CHOOSE x \in s : TRUE).dur + g[s \ {CHOOSE x \in s : TRUE}]]
  BY <1>5
<1> HIDE DEF g
<1>7. g = [s \in SUBSET T |-> IF s = {} THEN 0 ELSE f[CHOOSE x \in s : TRUE] + g[s \ {CHOOSE x \in s : TRUE}]]
  BY <1>3, <1>6
<1>8. Sums(g, f, SUBSET T)
  BY <1>7 DEF Sums, Chosen
<1>9. g[T] = h[T]
  <2>1. T \in SUBSET T
    OBVIOUS
  <2> QED
    BY <1>2, <1>8, <2>1, SumsAgree
<1> QED
  BY <1>1, <1>2, <1>9 DEF f, DurationOf

-----------------------------------------------------------------------------
(* Python's None is not an end of an event. *)
NoneApart == \A rows \in Traces : None \notin Nodes(rows)

(* The events of SelfTime. *)
Measured(e) ==
  e \in HostRows(trace) /\ HasNodes(e) /\ ~Locks(e) /\ ~Blocks(e) /\ \A d \in Inside(e) : HasNodes(d)

(* The replay: what was passed comes before what is left of the thread,    *)
(* and the stack holds the events that are open, each inside those below.  *)
OneThread == \E t : \A n \in left : ThreadOf(trace, n.of) = t
PassedFirst ==
  \A e \in HostRows(trace), l \in left :
    ThreadOf(trace, e) = ThreadOf(trace, l.of) =>
      /\ Start(e) \notin left => EventBefore(Start(e), l)
      /\ End(e) \notin left => EventBefore(End(e), l)
StackIsOpen == \A e : e \in OpenRows <=> \E i \in DOMAIN stack : stack[i] = e
StackNests == \A i, j \in DOMAIN stack : i < j => Covers(stack[i], stack[j])

Replayed == pc = "replay" => OneThread /\ PassedFirst /\ StackIsOpen /\ StackNests

(* The rows of the host last, and have an index.                           *)
LEMMA HostLasting ==
  ASSUME Rows, RowsNumbered, NEW e \in HostRows(trace)
  PROVE  Lasting(e) /\ e \in trace /\ e \in full
<1>1. e \in trace /\ e.ts \in Int /\ e.dur \in Int /\ e.dur > 0
  BY HostRowFacts
<1>2. e \in full /\ full \in Traces
  BY <1>1 DEF Rows
<1>3. e.index \in Nat
  BY <1>2 DEF RowsNumbered
<1> QED
  BY <1>1, <1>2, <1>3 DEF Lasting

(* Two rows of the host have two indices.                                  *)
LEMMA HostIndex ==
  ASSUME Rows, NEW d \in HostRows(trace), NEW e \in HostRows(trace), d # e
  PROVE  d.index # e.index
<1>1. d \in full /\ e \in full
  BY HostRowFacts DEF Rows
<1> QED
  BY <1>1, UniqueIndex

(* The first end of what is left, as the replay comes to it.               *)
LEMMA NextEnd ==
  ASSUME IInv, pc = "replay", NEW n \in left
  PROVE  /\ n.of \in HostRows(trace) /\ n.start \in BOOLEAN
         /\ n.start => n = Start(n.of) /\ End(n.of) \in left
         /\ ~n.start => n = End(n.of)
<1>1. ReplayPhase
  BY DEF IInv
<1>2. n \in Nodes(HostRows(trace))
  BY <1>1 DEF ReplayPhase, HostNodes
<1> QED
  BY <1>1, <1>2, NodeCases DEF ReplayPhase

(* The stack holds rows of the host, each once.                            *)
LEMMA StackRows ==
  ASSUME IInv, Replayed, pc = "replay"
  PROVE  /\ stack \in Seq(HostRows(trace)) /\ Len(stack) \in Nat /\ DOMAIN stack = 1 .. Len(stack)
         /\ \A i \in DOMAIN stack : stack[i] \in OpenRows /\ stack[i] \in HostRows(trace)
         /\ \A i, j \in DOMAIN stack : stack[i] = stack[j] => i = j
<1>1. ReplayPhase /\ StackIsOpen
  BY DEF IInv, Replayed
<1>2. stack \in Seq(HostRows(trace))
  BY <1>1 DEF ReplayPhase
<1>3. Len(stack) \in Nat /\ DOMAIN stack = 1 .. Len(stack)
  BY <1>2
<1>4. \A i \in DOMAIN stack : stack[i] \in OpenRows /\ stack[i] \in HostRows(trace)
  BY <1>1 DEF StackIsOpen, OpenRows
<1>5. \A i, j \in DOMAIN stack : stack[i] = stack[j] => i = j
  BY <1>1 DEF ReplayPhase
<1> QED
  BY <1>2, <1>3, <1>4, <1>5

(* What opens is inside every event that is open.                          *)
LEMMA OpensOnTop ==
  ASSUME IInv, Replayed, Nested(trace), RowsNumbered, pc = "replay",
         NEW n \in left, n.start, \A m \in left \ {n} : EventBefore(n, m),
         NEW e \in OpenRows
  PROVE  /\ Covers(e, n.of) /\ e # n.of /\ e \in HostRows(trace)
         /\ ThreadOf(trace, e) = ThreadOf(trace, n.of)
<1> DEFINE d == n.of
<1>1. Rows /\ OneThread /\ PassedFirst
  BY DEF IInv, Replayed
<1>2. d \in HostRows(trace) /\ n = Start(d)
  BY NextEnd
<1>3. e \in HostRows(trace) /\ Start(e) \notin left /\ End(e) \in left
  BY DEF OpenRows
<1>4. e # d
  BY <1>2, <1>3
<1>5. Lasting(e) /\ Lasting(d) /\ e.index # d.index
  BY <1>1, <1>2, <1>3, <1>4, HostLasting, HostIndex
<1>6. ThreadOf(trace, e) = ThreadOf(trace, d)
  BY <1>1, <1>3, NodeFields DEF OneThread
<1>7. EventBefore(Start(e), Start(d))
  BY <1>1, <1>2, <1>3, <1>6 DEF PassedFirst
<1>8. EventBefore(Start(d), End(e))
  BY <1>2, <1>3, NodeFields
<1>9. ~Overlapping(e, d)
  BY <1>2, <1>3, <1>6 DEF Nested
<1>10. Covers(e, d)
  BY <1>5, <1>7, <1>8, <1>9, OpensInside
<1> QED
  BY <1>3, <1>4, <1>6, <1>10

(* What closes is on top of the stack.                                     *)
LEMMA ClosesTop ==
  ASSUME IInv, Replayed, RowsNumbered, pc = "replay",
         NEW n \in left, ~n.start, \A m \in left \ {n} : EventBefore(n, m)
  PROVE  /\ Len(stack) \in DOMAIN stack /\ stack[Len(stack)] = n.of /\ Last(stack) = n.of
         /\ n = End(n.of) /\ n.of \in OpenRows
<1> DEFINE e == n.of
           top == stack[Len(stack)]
<1>1. Rows /\ StackIsOpen /\ StackNests
  BY DEF IInv, Replayed
<1>2. /\ n = End(e) /\ Start(e) \notin left /\ Len(stack) \in Nat \ {0} /\ e \in HostRows(trace)
      /\ DOMAIN stack = 1 .. Len(stack)
  BY ClosingEnd, NextEnd
<1>3. e \in OpenRows
  BY <1>2 DEF OpenRows
<1>4. PICK i \in DOMAIN stack : stack[i] = e
  BY <1>1, <1>3 DEF StackIsOpen
<1>5. Len(stack) \in DOMAIN stack
  BY <1>2
<1>6. top \in OpenRows
  BY <1>5, StackRows
<1>7. ASSUME i # Len(stack) PROVE FALSE
  <2>1. Covers(e, top)
    BY <1>1, <1>2, <1>4, <1>5, <1>7 DEF StackNests
  <2>2. top # e
    BY <1>4, <1>5, <1>7, StackRows
  <2>3. top \in HostRows(trace) /\ End(top) \in left
    BY <1>6 DEF OpenRows
  <2>4. Lasting(e) /\ Lasting(top) /\ e.index # top.index
    BY <1>1, <1>2, <2>2, <2>3, HostLasting, HostIndex
  <2>5. ~EventBefore(End(e), End(top))
    BY <2>1, <2>4, InsideInTime
  <2>6. End(top) # End(e)
    BY <2>2, NodeFields
  <2> QED
    BY <1>2, <2>3, <2>5, <2>6
<1>8. Last(stack) = top
  BY DEF Last
<1> QED
  BY <1>2, <1>3, <1>4, <1>5, <1>7, <1>8

(* The replay keeps its invariant. *)
LEMMA ReplayEndReplays ==
  IInv /\ Replayed /\ Nested(trace) /\ RowsNumbered /\ ReplayEnd => Replayed'
<1> SUFFICES ASSUME IInv, Replayed, Nested(trace), RowsNumbered, ReplayEnd PROVE Replayed'
  OBVIOUS
<1>1. PICK n \in left :
        /\ \A m \in left \ {n} : EventBefore(n, m)
        /\ left' = left \ {n}
        /\ IF n.start THEN stack' = Append(stack, n.of) ELSE stack' = Front(stack)
  BY DEF ReplayEnd
<1>2. pc = "replay" /\ UNCHANGED <<full, trace, pc>> /\ OneThread /\ PassedFirst /\ StackIsOpen /\ StackNests
  BY DEF ReplayEnd, input, Replayed
<1>3. HostRows(trace)' = HostRows(trace) /\ \A e : ThreadOf(trace, e)' = ThreadOf(trace, e)
  BY <1>2
<1>4. OneThread'
  BY <1>1, <1>2 DEF OneThread
<1>5. PassedFirst'
  <2> SUFFICES ASSUME NEW e \in HostRows(trace), NEW l \in left', ThreadOf(trace, e) = ThreadOf(trace, l.of)
               PROVE  /\ Start(e) \notin left' => EventBefore(Start(e), l)
                      /\ End(e) \notin left' => EventBefore(End(e), l)
    BY <1>2 DEF PassedFirst
  <2>1. l \in left /\ EventBefore(n, l)
    BY <1>1
  <2> QED
    BY <1>1, <1>2, <2>1 DEF PassedFirst
<1>0. /\ stack \in Seq(HostRows(trace)) /\ Len(stack) \in Nat /\ DOMAIN stack = 1 .. Len(stack)
      /\ \A i \in DOMAIN stack : stack[i] \in OpenRows /\ stack[i] \in HostRows(trace)
      /\ \A i, j \in DOMAIN stack : stack[i] = stack[j] => i = j
  BY <1>2, StackRows
<1>6. CASE n.start
  <2> DEFINE d == n.of
  <2>1. d \in HostRows(trace) /\ n = Start(d) /\ End(d) \in left
    BY <1>2, <1>6, NextEnd
  <2>2. stack' = Append(stack, d)
    BY <1>1, <1>6
  <2>3. /\ DOMAIN stack' = 1 .. Len(stack) + 1 /\ stack'[Len(stack) + 1] = d
        /\ \A i \in DOMAIN stack : stack'[i] = stack[i]
    BY <1>0, <2>1, <2>2
  <2>4. \A e : e \in OpenRows' <=> e \in OpenRows \/ e = d
    <3>1. ASSUME NEW e \in HostRows(trace) PROVE e \in OpenRows' <=> e \in OpenRows \/ e = d
      <4>1. End(e) \in left' <=> End(e) \in left
        BY <1>1, <1>6, NodeFields
      <4>2. Start(e) \in left' <=> Start(e) \in left /\ e # d
        BY <1>1, <2>1, NodeFields
      <4> QED
        BY <1>1, <1>3, <2>1, <4>1, <4>2 DEF OpenRows
    <3> QED
      BY <1>3, <2>1, <3>1 DEF OpenRows
  <2>5. StackIsOpen'
    <3>1. ASSUME NEW e PROVE e \in OpenRows' <=> \E i \in DOMAIN stack' : stack'[i] = e
      <4>1. (\E i \in DOMAIN stack' : stack'[i] = e) <=> (\E i \in DOMAIN stack : stack[i] = e) \/ e = d
        BY <1>0, <2>3
      <4> QED
        BY <1>2, <2>4, <4>1 DEF StackIsOpen
    <3> QED
      BY <3>1 DEF StackIsOpen
  <2>6. StackNests'
    <3> SUFFICES ASSUME NEW i \in DOMAIN stack', NEW j \in DOMAIN stack', i < j
                 PROVE  Covers(stack'[i], stack'[j])
      BY DEF StackNests
    <3>1. CASE j \in DOMAIN stack
      BY <1>0, <1>2, <2>3, <3>1 DEF StackNests
    <3>2. CASE j = Len(stack) + 1
      <4>1. i \in DOMAIN stack /\ stack'[i] = stack[i] /\ stack'[j] = d
        BY <1>0, <2>3, <3>2
      <4> QED
        BY <1>0, <1>1, <1>2, <1>6, <4>1, OpensOnTop
    <3> QED
      BY <1>0, <2>3, <3>1, <3>2
  <2> QED
    BY <1>4, <1>5, <2>5, <2>6 DEF Replayed
<1>7. CASE ~n.start
  <2> DEFINE d == n.of
  <2>1. /\ Len(stack) \in DOMAIN stack /\ stack[Len(stack)] = d /\ n = End(d) /\ d \in OpenRows
    BY <1>1, <1>2, <1>7, ClosesTop
  <2>2. /\ DOMAIN stack' = 1 .. Len(stack) - 1
        /\ \A i \in DOMAIN stack' : stack'[i] = stack[i] /\ i \in DOMAIN stack
    BY <1>0, <1>1, <1>7, <2>1 DEF Front
  <2>4. \A e : e \in OpenRows' <=> e \in OpenRows /\ e # d
    <3>1. ASSUME NEW e \in HostRows(trace) PROVE e \in OpenRows' <=> e \in OpenRows /\ e # d
      <4>1. Start(e) \in left' <=> Start(e) \in left
        BY <1>1, <1>7, NodeFields
      <4>2. End(e) \in left' <=> End(e) \in left /\ e # d
        BY <1>1, <2>1, NodeFields
      <4> QED
        BY <1>1, <1>3, <4>1, <4>2 DEF OpenRows
    <3> QED
      BY <1>3, <3>1 DEF OpenRows
  <2>5. StackIsOpen'
    <3>1. ASSUME NEW e PROVE e \in OpenRows' <=> \E i \in DOMAIN stack' : stack'[i] = e
      <4>1. (\E i \in DOMAIN stack' : stack'[i] = e) <=> (\E i \in DOMAIN stack : stack[i] = e) /\ e # d
        BY <1>0, <2>1, <2>2
      <4> QED
        BY <1>2, <2>4, <4>1 DEF StackIsOpen
    <3> QED
      BY <3>1 DEF StackIsOpen
  <2>6. StackNests'
    BY <1>2, <2>2 DEF StackNests
  <2> QED
    BY <1>4, <1>5, <2>5, <2>6 DEF Replayed
<1> QED
  BY <1>1, <1>2, <1>6, <1>7, NextEnd

(* A thread begins with nothing passed and nothing open.                   *)
LEMMA StartThreadReplays == IInv /\ StartThread => Replayed'
<1> SUFFICES ASSUME IInv, StartThread PROVE Replayed'
  OBVIOUS
<1>1. PICK t \in threads : left' = Nodes(ThreadRows(trace, t))
  BY DEF StartThread
<1>2. stack' = << >> /\ trace' = trace
  BY DEF StartThread
<1>3. \A n \in left' : n.of \in HostRows(trace) /\ ThreadOf(trace, n.of) = t
  BY <1>1, NodeCases DEF ThreadRows
<1>4. OneThread'
  BY <1>2, <1>3 DEF OneThread
<1>5. ASSUME NEW e \in HostRows(trace), NEW l \in left', ThreadOf(trace, e) = ThreadOf(trace, l.of)
      PROVE  Start(e) \in left' /\ End(e) \in left'
  <2>1. e \in ThreadRows(trace, t)
    BY <1>3, <1>5 DEF ThreadRows
  <2> QED
    BY <1>1, <2>1, NodesIn
<1>6. PassedFirst'
  BY <1>2, <1>5 DEF PassedFirst
<1>7. StackIsOpen' /\ StackNests'
  <2>1. OpenRows' = {}
    <3> SUFFICES ASSUME NEW e \in HostRows(trace), Start(e) \notin left', End(e) \in left' PROVE FALSE
      BY <1>2 DEF OpenRows
    <3> QED
      BY <1>3, <1>5, NodeFields
  <2>2. DOMAIN stack' = {}
    BY <1>2
  <2> QED
    BY <2>1, <2>2 DEF StackIsOpen, StackNests
<1> QED
  BY <1>4, <1>6, <1>7 DEF Replayed

-----------------------------------------------------------------------------
(* Who is credited with the next edge: the event on top of the stack, if   *)
(* its self time is measured, and no other such event.                     *)
CreditsNext(e) ==
  last_node = Start(e) \/ (last_node # None /\ ~last_node.start /\ last_ev_parent = e.index)
TopIsCredited == stack # << >> /\ Measured(Last(stack)) => CreditsNext(Last(stack))
CreditedIsTop == \A e : Measured(e) /\ CreditsNext(e) => stack # << >> /\ Last(stack) = e

Linked == pc = "replay" => TopIsCredited /\ CreditedIsTop

(* An end of an event is not None.                                         *)
LEMMA HostNodesReal ==
  ASSUME Rows, NoneApart, NEW e \in HostRows(trace)
  PROVE  Start(e) # None /\ End(e) # None
<1>1. e \in full /\ full \in Traces
  BY HostRowFacts DEF Rows
<1>2. Start(e) \in Nodes(full) /\ End(e) \in Nodes(full)
  BY <1>1, NodesIn
<1> QED
  BY <1>1, <1>2 DEF NoneApart

(* What an event covers on its thread is inside of it.                     *)
LEMMA InsideIs ==
  ASSUME NEW e, NEW d \in HostRows(trace), ThreadOf(trace, e) = ThreadOf(trace, d), Covers(e, d)
  PROVE  d \in Inside(e)
  BY DEF Inside, Within, Covers

(* What is open is inside of what was opened before. *)
LEMMA OpenInside ==
  ASSUME IInv, Replayed, pc = "replay",
         NEW i \in DOMAIN stack, NEW j \in DOMAIN stack, i < j
  PROVE  stack[j] \in Inside(stack[i])
<1>1. OneThread /\ StackNests
  BY DEF Replayed
<1>2. /\ stack[i] \in HostRows(trace) /\ stack[j] \in HostRows(trace)
      /\ End(stack[i]) \in left /\ End(stack[j]) \in left
  BY StackRows DEF OpenRows
<1>3. ThreadOf(trace, stack[i]) = ThreadOf(trace, stack[j])
  BY <1>1, <1>2, NodeFields DEF OneThread
<1>4. Covers(stack[i], stack[j])
  BY <1>1 DEF StackNests
<1> QED
  BY <1>2, <1>3, <1>4, InsideIs

(* A step of the replay, in the terms of the next end. *)
LEMMA ReplayParts ==
  ASSUME IInv, Replayed, RowsNumbered, ReplayEnd
  PROVE  /\ pc = "replay" /\ UNCHANGED <<full, trace, threads, pc>>
         /\ \E n \in left :
              /\ \A m \in left \ {n} : EventBefore(n, m)
              /\ left' = left \ {n} /\ n.of \in HostRows(trace) /\ n.start \in BOOLEAN
              /\ n.start => /\ n = Start(n.of) /\ End(n.of) \in left
                            /\ stack' = Append(stack, n.of) /\ Enter(n.of, Top(stack))
              /\ ~n.start => /\ n = End(n.of) /\ Len(stack) \in Nat \ {0} /\ Last(stack) = n.of
                             /\ stack[Len(stack)] = n.of
                             /\ stack' = Front(stack) /\ Exit(n.of, Top(Front(stack)))
<1>1. PICK n \in left :
        /\ \A m \in left \ {n} : EventBefore(n, m)
        /\ left' = left \ {n}
        /\ IF n.start
           THEN stack' = Append(stack, n.of) /\ Enter(n.of, Top(stack))
           ELSE stack' = Front(stack) /\ Exit(Last(stack), Top(Front(stack)))
  BY DEF ReplayEnd
<1>2. pc = "replay" /\ UNCHANGED <<full, trace, threads, pc>>
  BY DEF ReplayEnd, input
<1>3. n.of \in HostRows(trace) /\ n.start \in BOOLEAN
  BY <1>2, NextEnd
<1>4. ASSUME n.start PROVE n = Start(n.of) /\ End(n.of) \in left
  BY <1>2, <1>4, NextEnd
<1>5. ASSUME ~n.start
      PROVE  /\ n = End(n.of) /\ Len(stack) \in Nat \ {0} /\ Last(stack) = n.of
             /\ stack[Len(stack)] = n.of
  BY <1>1, <1>2, <1>5, ClosesTop, ClosingEnd
<1> QED
  BY <1>1, <1>2, <1>3, <1>4, <1>5

(* The replay keeps it.                                                    *)
LEMMA ReplayEndLinks ==
  ASSUME IInv, Replayed, Linked, Nested(trace), RowsNumbered, NoneApart, ReplayEnd
  PROVE  Linked'
<1>1. pc = "replay" /\ UNCHANGED <<full, trace, threads, pc>> /\ Rows /\ TopIsCredited /\ CreditedIsTop
  BY ReplayParts DEF IInv, Linked
<1>2. PICK n \in left :
              /\ \A m \in left \ {n} : EventBefore(n, m)
              /\ left' = left \ {n} /\ n.of \in HostRows(trace) /\ n.start \in BOOLEAN
              /\ n.start => /\ n = Start(n.of) /\ End(n.of) \in left
                            /\ stack' = Append(stack, n.of) /\ Enter(n.of, Top(stack))
              /\ ~n.start => /\ n = End(n.of) /\ Len(stack) \in Nat \ {0} /\ Last(stack) = n.of
                             /\ stack[Len(stack)] = n.of
                             /\ stack' = Front(stack) /\ Exit(n.of, Top(Front(stack)))
  BY ReplayParts
<1> DEFINE d == n.of
<1>0. /\ stack \in Seq(HostRows(trace)) /\ Len(stack) \in Nat /\ DOMAIN stack = 1 .. Len(stack)
      /\ \A i \in DOMAIN stack : stack[i] \in OpenRows /\ stack[i] \in HostRows(trace)
  BY <1>1, StackRows
<1>3. \A e : Measured(e)' <=> Measured(e)
  BY <1>1 DEF Measured, Inside, Within
<1>4. Start(d) # None /\ End(d) # None
  BY <1>1, <1>2, HostNodesReal
<1>5. CASE n.start
  <2>1. stack' # << >> /\ Last(stack') = d
    BY <1>0, <1>2, <1>5 DEF Last
  <2>2. CASE HasNodes(d)
    <3>1. last_node' = Start(d)
      BY <1>2, <1>5, <2>2 DEF Enter
    <3>2. \A e : CreditsNext(e)' <=> e = d
      BY <3>1, NodeFields DEF CreditsNext
    <3> QED
      BY <2>1, <3>2 DEF Linked, TopIsCredited, CreditedIsTop
  <2>3. CASE ~HasNodes(d)
    <3>1. UNCHANGED <<last_node, last_ev_parent>>
      BY <1>2, <1>5, <2>3 DEF Enter
    <3>2. ASSUME NEW e, Measured(e), CreditsNext(e) PROVE FALSE
      <4>1. stack # << >> /\ Last(stack) = e
        BY <1>1, <3>2 DEF CreditedIsTop
      <4>2. Len(stack) \in DOMAIN stack /\ e = stack[Len(stack)]
        BY <1>0, <4>1 DEF Last
      <4>3. e \in OpenRows
        BY <1>0, <4>2
      <4>4. d \in Inside(e)
        BY <1>1, <1>2, <1>5, <4>3, OpensOnTop, InsideIs
      <4> QED
        BY <2>3, <3>2, <4>4 DEF Measured
    <3>3. ~Measured(d)
      BY <2>3 DEF Measured
    <3>4. \A e : CreditsNext(e)' <=> CreditsNext(e)
      BY <3>1 DEF CreditsNext
    <3> QED
      BY <1>3, <2>1, <3>2, <3>3, <3>4 DEF Linked, TopIsCredited, CreditedIsTop
  <2> QED
    BY <2>2, <2>3
<1>6. CASE ~n.start
  <2>1. /\ stack' = Front(stack) /\ Last(stack) = d /\ stack # << >>
        /\ Len(stack) \in DOMAIN stack /\ stack[Len(stack)] = d
        /\ DOMAIN stack' = 1 .. Len(stack) - 1 /\ Len(stack') = Len(stack) - 1
        /\ \A i \in DOMAIN stack' : stack'[i] = stack[i] /\ i \in DOMAIN stack
    <3>1. stack' = Front(stack) /\ Last(stack) = d /\ Len(stack) \in Nat \ {0} /\ stack[Len(stack)] = d
      BY <1>2, <1>6
    <3>2. stack # << >> /\ Len(stack) \in DOMAIN stack
      BY <1>0, <3>1
    <3>3. stack' = [i \in 1 .. Len(stack) - 1 |-> stack[i]]
      BY <1>0, <3>1 DEF Front
    <3>4. DOMAIN stack' = 1 .. Len(stack) - 1 /\ Len(stack') = Len(stack) - 1
      BY <3>1, <3>3
    <3> QED
      BY <1>0, <3>1, <3>2, <3>3, <3>4
  <2>2. ASSUME stack' # << >>
        PROVE  /\ Last(stack') \in HostRows(trace) /\ d \in Inside(Last(stack'))
               /\ Top(stack') = Last(stack').index
    <3> DEFINE i == Len(stack) - 1
    <3>1. i \in DOMAIN stack' /\ Last(stack') = stack[i] /\ i < Len(stack)
      <4>1. Len(stack') # 0
        BY <1>0, <2>1, <2>2
      <4> QED
        BY <1>0, <2>1, <4>1 DEF Last
    <3>2. stack[i] \in HostRows(trace) /\ stack[Len(stack)] \in Inside(stack[i])
      BY <1>0, <1>1, <2>1, <3>1, OpenInside
    <3> HIDE DEF i
    <3> QED
      BY <2>1, <2>2, <3>1, <3>2 DEF Top
  <2>3. CASE HasNodes(d)
    <3>1. last_node' = End(d) /\ last_ev_parent' = Top(stack')
      BY <1>2, <1>6, <2>1, <2>3 DEF Exit
    <3>2. \A e : CreditsNext(e)' <=> Top(stack') = e.index
      BY <1>4, <3>1, NodeFields DEF CreditsNext
    <3>3. ASSUME NEW e, Measured(e), Top(stack') = e.index PROVE stack' # << >> /\ Last(stack') = e
      <4>1. e \in HostRows(trace) /\ e.index \in Nat
        BY <1>1, <3>3, HostLasting DEF Measured, Lasting
      <4>2. stack' # << >>
        BY <3>3, <4>1 DEF Top
      <4> QED
        BY <1>1, <2>2, <3>3, <4>1, <4>2, HostIndex
    <3> QED
      BY <1>3, <2>2, <3>2, <3>3 DEF Linked, TopIsCredited, CreditedIsTop
  <2>4. CASE ~HasNodes(d)
    <3>1. UNCHANGED <<last_node, last_ev_parent>>
      BY <1>2, <1>6, <2>4 DEF Exit
    <3>2. ASSUME NEW e, Measured(e), CreditsNext(e) PROVE FALSE
      BY <1>1, <2>1, <2>4, <3>2 DEF CreditedIsTop, Measured
    <3>3. stack' # << >> => ~Measured(Last(stack'))
      BY <2>2, <2>4 DEF Measured
    <3>4. \A e : CreditsNext(e)' <=> CreditsNext(e)
      BY <3>1 DEF CreditsNext
    <3> QED
      BY <1>3, <3>2, <3>3, <3>4 DEF Linked, TopIsCredited, CreditedIsTop
  <2> QED
    BY <2>3, <2>4
<1> QED
  BY <1>2, <1>5, <1>6

(* At the start of a thread no event is credited.                          *)
LEMMA StartThreadLinks ==
  ASSUME IInv, NoneApart, StartThread
  PROVE  Linked'
<1>1. stack' = << >> /\ last_node' = None /\ UNCHANGED <<full, trace>> /\ Rows
  BY DEF StartThread, input, IInv
<1>2. ASSUME NEW e, Measured(e)', CreditsNext(e)' PROVE FALSE
  <2>1. e \in HostRows(trace)
    BY <1>1, <1>2 DEF Measured
  <2>2. Start(e) # None
    BY <1>1, <2>1, HostNodesReal
  <2> QED
    BY <1>1, <1>2, <2>2 DEF CreditsNext
<1> QED
  BY <1>1, <1>2 DEF Linked, TopIsCredited, CreditedIsTop

-----------------------------------------------------------------------------
(* The edges that a step of the replay adds.                               *)

(* Two nodes are linked once.                                              *)
LEMMA PairIsNew ==
  ASSUME IInv, pc = "replay", NEW n \in Pending, last_node # None, ~SharesLock(last_node, n)
  PROVE  <<last_node, n>> \notin DOMAIN edges
<1>1. Rows /\ \A p \in DOMAIN edges : HostPair(p) /\ (LockPair(p) \/ p[2] \notin Pending)
  BY DEF IInv, ThreadPhase
<1> SUFFICES ASSUME <<last_node, n>> \in DOMAIN edges PROVE FALSE
  OBVIOUS
<1>2. LockPair(<<last_node, n>>)
  BY <1>1
<1> QED
  BY <1>1, <1>2, LocksOfHost DEF LockPair, SharesLock

(* Who is credited with one more edge. *)
LEMMA CreditsWith ==
  ASSUME NEW p, NEW q, p \notin DOMAIN edge_to_event,
         edge_to_event' = With(edge_to_event, [x \in {p} |-> q]), NEW e
  PROVE  /\ e.index = q => Credited(e)' = Credited(e) \cup {p}
         /\ e.index # q => Credited(e)' = Credited(e)
<1> DEFINE new == [x \in {p} |-> q]
<1>1. DOMAIN new = {p} /\ new[p] = q
  OBVIOUS
<1> HIDE DEF new
<1>2. edge_to_event' = With(edge_to_event, new)
  BY DEF new
<1>3. /\ \A x : x \in DOMAIN edge_to_event' <=> x \in DOMAIN edge_to_event \/ x = p
      /\ edge_to_event'[p] = q
      /\ \A x \in DOMAIN edge_to_event : edge_to_event'[x] = edge_to_event[x]
  BY <1>1, <1>2, WithDomain
<1> QED
  BY <1>3 DEF Credited

(* The next end is linked to the last node.  An event whose self time is   *)
(* measured gets the edge if it is on top of the stack, and no other does. *)
LEMMA LinkCredits ==
  ASSUME IInv, Typed, Replayed, pc = "replay", UNCHANGED trace,
         NEW n \in Pending, n \in NodesOf(trace), n \in HostNodes, NEW type, NEW zero_weight,
         Link(n, type, zero_weight)
  PROVE  /\ \A e \in HostRows(trace) :
              (last_node # None => Attributed(last_node, n, last_ev_parent) # e.index)
                => Credited(e)' = Credited(e)
         /\ \A e : /\ last_node # None /\ ~SharesLock(last_node, n) /\ type \in Spans /\ ~zero_weight
                   /\ Attributed(last_node, n, last_ev_parent) = e.index
                => /\ last_node \in NodesOf(trace)
                   /\ <<last_node, n>> \notin Credited(e)
                   /\ Credited(e)' = Credited(e) \cup {<<last_node, n>>}
                   /\ <<last_node, n>> \in DOMAIN edges'
                   /\ edges'[<<last_node, n>>].weight = Ts(n) - Ts(last_node)
<1>1. last_node \in NodesOf(trace) \cup {None} /\ DOMAIN edge_to_event \subseteq DOMAIN edges
  BY TypedParts
<1>2. CASE ~(last_node # None /\ ~SharesLock(last_node, n))
  <2>1. UNCHANGED edge_to_event
    BY <1>2 DEF Link, graph
  <2> QED
    BY <1>2, <2>1 DEF Credited
<1>3. CASE last_node # None /\ ~SharesLock(last_node, n)
  <2> DEFINE p == <<last_node, n>>
             q == Attributed(last_node, n, last_ev_parent)
             edge == Edge(last_node, n, type, zero_weight)
  <2>1. p \notin DOMAIN edges /\ p \notin DOMAIN edge_to_event
    BY <1>1, <1>3, PairIsNew
  <2>2. /\ edges' = AddEdge(edges, last_node, n, edge)
        /\ edge_to_event' = IF type \in Spans THEN AddEdge(edge_to_event, last_node, n, q) ELSE edge_to_event
    BY <1>3 DEF Link
  <2>3. CASE type \notin Spans
    BY <2>2, <2>3 DEF Credited
  <2>4. CASE type \in Spans
    <3>1. edge_to_event' = With(edge_to_event, [x \in {p} |-> q])
      BY <2>2, <2>4 DEF AddEdge
    <3>2. /\ \A e : q = e.index => Credited(e)' = Credited(e) \cup {p}
          /\ \A e : q # e.index => Credited(e)' = Credited(e)
      <4> HIDE DEF p, q
      <4> QED
        BY <2>1, <3>1, CreditsWith
    <3>3. p \in DOMAIN edges' /\ edges'[p] = edge
      <4> DEFINE new == [x \in {p} |-> edge]
      <4>1. edges' = With(edges, new) /\ DOMAIN new = {p} /\ new[p] = edge
        BY <2>2 DEF AddEdge
      <4> HIDE DEF new, edge, p
      <4> QED
        BY <4>1, WithDomain
    <3>4. ~zero_weight => edge.weight = Ts(n) - Ts(last_node)
      <4>1. type \notin {"dependency", "sync"}
        BY <2>4, Zenon DEF Spans
      <4> QED
        BY <4>1 DEF Edge
    <3>5. \A e : p \notin Credited(e)
      BY <2>1 DEF Credited
    <3>6. last_node \in NodesOf(trace)
      BY <1>1, <1>3
    <3> HIDE DEF p, q, edge
    <3>7. \A e \in HostRows(trace) : (last_node # None => q # e.index) => Credited(e)' = Credited(e)
      BY <1>3, <3>2
    <3>8. \A e : /\ ~zero_weight /\ q = e.index
                 => /\ last_node \in NodesOf(trace)
                    /\ p \notin Credited(e)
                    /\ Credited(e)' = Credited(e) \cup {p}
                    /\ p \in DOMAIN edges'
                    /\ edges'[p].weight = Ts(n) - Ts(last_node)
      BY <3>2, <3>3, <3>4, <3>5, <3>6
    <3> QED
      BY <3>7, <3>8 DEF p, q
  <2> QED
    BY <2>3, <2>4
<1> QED
  BY <1>2, <1>3

(* The step of the replay that comes to the end n.                         *)
Replays(n) ==
  /\ n \in left /\ \A m \in left \ {n} : EventBefore(n, m)
  /\ left' = left \ {n} /\ n.of \in HostRows(trace) /\ n.start \in BOOLEAN
  /\ n.start => /\ n = Start(n.of) /\ End(n.of) \in left
                /\ stack' = Append(stack, n.of) /\ Enter(n.of, Top(stack))
  /\ ~n.start => /\ n = End(n.of) /\ Len(stack) \in Nat \ {0} /\ Last(stack) = n.of
                 /\ stack[Len(stack)] = n.of
                 /\ stack' = Front(stack) /\ Exit(n.of, Top(Front(stack)))

(* Every step of the replay comes to an end.                               *)
LEMMA ReplayNext ==
  ASSUME IInv, Replayed, RowsNumbered, ReplayEnd
  PROVE  \E n : Replays(n)
  BY ReplayParts DEF Replays

(* The event e is credited with the time from the last node to n.          *)
Grows(e, n) ==
  /\ last_node \in NodesOf(trace)
  /\ <<last_node, n>> \notin Credited(e)
  /\ Credited(e)' = Credited(e) \cup {<<last_node, n>>}
  /\ <<last_node, n>> \in DOMAIN edges'
  /\ edges'[<<last_node, n>>].weight = Ts(n) - Ts(last_node)

(* The depth is not zero while an event with nodes is on top.              *)
LEMMA OpenDepth ==
  ASSUME IInv, Typed, Replayed, pc = "replay", stack # << >>, HasNodes(Last(stack))
  PROVE  op_depth # 0
<1>1. stack \in Seq(HostRows(trace)) /\ Len(stack) \in Nat /\ DOMAIN stack = 1 .. Len(stack)
  BY StackRows
<1>2. Len(stack) \in OpenWithNodes
  BY <1>1 DEF OpenWithNodes, Last
<1>3. OpenWithNodes \subseteq 1 .. Len(stack) /\ IsFiniteSet(1 .. Len(stack))
  BY <1>1, Positions DEF OpenWithNodes
<1>4. IsFiniteSet(OpenWithNodes)
  BY <1>3, FS_Subset
<1>5. Cardinality(OpenWithNodes) # 0
  BY <1>2, <1>4, FS_EmptySet
<1> QED
  BY <1>5, TypedParts

(* An event whose self time is measured grows in a step exactly when it is *)
(* on top of the stack.                                                    *)
LEMMA ReplayCredits ==
  ASSUME IInv, Typed, Replayed, Linked, Nested(trace), RowsNumbered, NoneApart, ReplayEnd,
         NEW n, Replays(n)
  PROVE  /\ \A e : Measured(e) => (stack # << >> /\ Last(stack) = e) \/ Credited(e)' = Credited(e)
         /\ \A e : Measured(e) /\ stack # << >> /\ Last(stack) = e => Grows(e, n)
<1> DEFINE d == n.of
<1>1. pc = "replay" /\ UNCHANGED <<full, trace, threads, pc>> /\ Rows /\ TopIsCredited /\ CreditedIsTop
  BY ReplayParts DEF IInv, Linked
<1>2. n \in left /\ d \in HostRows(trace) /\ n.start \in BOOLEAN
  BY DEF Replays
<1>0. /\ stack \in Seq(HostRows(trace)) /\ Len(stack) \in Nat /\ DOMAIN stack = 1 .. Len(stack)
      /\ \A i \in DOMAIN stack : stack[i] \in OpenRows /\ stack[i] \in HostRows(trace)
  BY <1>1, StackRows
<1>3. ASSUME NEW e, Measured(e), stack # << >>, Last(stack) = e
      PROVE  HasNodes(d) /\ e \in HostRows(trace) /\ HasNodes(e) /\ ~Locks(e) /\ CreditsNext(e) /\ (~n.start => d = e)
  <2>1. HasNodes(e) /\ ~Locks(e) /\ CreditsNext(e) /\ e \in HostRows(trace)
    BY <1>1, <1>3 DEF Measured, TopIsCredited
  <2>2. CASE n.start
    <3>1. e \in OpenRows
      BY <1>0, <1>3 DEF Last
    <3>2. d \in Inside(e)
      BY <1>1, <1>2, <2>2, <3>1, OpensOnTop, InsideIs DEF Replays
    <3> QED
      BY <1>3, <2>1, <2>2, <3>2 DEF Measured
  <2>3. CASE ~n.start
    BY <1>3, <2>1, <2>3 DEF Replays
  <2> QED
    BY <1>2, <2>1, <2>2, <2>3
<1>4. CASE ~HasNodes(d)
  <2>1. UNCHANGED graph
    BY <1>2, <1>4 DEF Replays, Enter, Exit
  <2>2. \A e : Credited(e)' = Credited(e)
    BY <2>1 DEF graph, Credited
  <2> QED
    BY <1>3, <1>4, <2>2
<1>5. CASE HasNodes(d)
  <2>1. PICK type, zero_weight :
          /\ Link(n, type, zero_weight)
          /\ n.start => type = (IF op_depth = 0 THEN "dependency" ELSE "operator") /\ zero_weight = FALSE
          /\ ~n.start => type = "operator" /\ zero_weight = Blocks(d)
    <3>1. CASE n.start
      BY <1>5, <3>1, Zenon DEF Replays, Enter
    <3>2. CASE ~n.start
      BY <1>5, <3>2, Zenon DEF Replays, Exit
    <3> QED
      BY <1>2, <3>1, <3>2
  <2>2. n \in NodesOf(trace) /\ n \in HostNodes /\ n \in Pending
    <3>1. n = Start(d) \/ n = End(d)
      BY <1>2 DEF Replays
    <3>2. d \in trace
      BY <1>1, <1>2, HostRowFacts
    <3>3. n \in NodesOf(trace) /\ n \in HostNodes
      BY <1>2, <1>5, <3>1, <3>2, NodesWith, NodesIn DEF HostNodes
    <3>4. ASSUME n.start PROVE n \in Pending
      BY <1>2, <3>4 DEF Pending
    <3>5. ASSUME ~n.start PROVE n \in Pending
      <4>1. Len(stack) \in DOMAIN stack /\ stack[Len(stack)] = d /\ n = End(d)
        BY <1>0, <3>5 DEF Replays
      <4>2. \E i \in DOMAIN stack : n = End(stack[i])
        BY <4>1
      <4> QED
        BY <4>2 DEF Pending
    <3> QED
      BY <1>2, <3>3, <3>4, <3>5
  <2>3. /\ \A e \in HostRows(trace) :
              (last_node # None => Attributed(last_node, n, last_ev_parent) # e.index)
                => Credited(e)' = Credited(e)
        /\ \A e : /\ last_node # None /\ ~SharesLock(last_node, n) /\ type \in Spans /\ ~zero_weight
                  /\ Attributed(last_node, n, last_ev_parent) = e.index
               => Grows(e, n)
    <3>1. UNCHANGED trace
      BY <1>1
    <3>2. /\ \A e \in HostRows(trace) :
              (last_node # None => Attributed(last_node, n, last_ev_parent) # e.index)
                => Credited(e)' = Credited(e)
         /\ \A e : /\ last_node # None /\ ~SharesLock(last_node, n) /\ type \in Spans /\ ~zero_weight
                   /\ Attributed(last_node, n, last_ev_parent) = e.index
                => /\ last_node \in NodesOf(trace)
                   /\ <<last_node, n>> \notin Credited(e)
                   /\ Credited(e)' = Credited(e) \cup {<<last_node, n>>}
                   /\ <<last_node, n>> \in DOMAIN edges'
                   /\ edges'[<<last_node, n>>].weight = Ts(n) - Ts(last_node)
      BY <1>1, <2>1, <2>2, <3>1, LinkCredits
    <3> QED
      BY <3>2 DEF Grows
  <2>4. ASSUME NEW e, Measured(e), ~(stack # << >> /\ Last(stack) = e)
        PROVE  Credited(e)' = Credited(e)
    <3>1. e \in HostRows(trace) /\ e \in full
      BY <1>1, <2>4, HostRowFacts DEF Measured, Rows
    <3>2. ASSUME last_node # None, Attributed(last_node, n, last_ev_parent) = e.index PROVE FALSE
      <4>1. last_node \in HostNodes /\ last_node \in Nodes(HostRows(trace))
        BY <1>1, <3>2 DEF IInv, ReplayPhase, HostNodes
      <4>2. last_node.of \in full /\ last_node.start \in BOOLEAN /\ (last_node.start => last_node = Start(last_node.of))
        BY <1>1, <4>1, NodeCases, HostRowFacts DEF Rows
      <4>3. d \in full
        BY <1>1, <1>2, HostRowFacts DEF Rows
      <4>4. CASE last_node.start
        <5>1. last_node = Start(e)
          BY <1>1, <3>1, <3>2, <4>2, <4>4, UniqueIndex DEF Attributed
        <5> QED
          BY <1>1, <2>4, <5>1 DEF CreditedIsTop, CreditsNext
      <4>5. CASE ~last_node.start /\ ~n.start
        <5>1. d = e
          BY <1>1, <3>1, <3>2, <4>3, <4>5, UniqueIndex DEF Attributed
        <5> QED
          BY <1>0, <2>4, <4>5, <5>1 DEF Replays
      <4>6. CASE ~last_node.start /\ n.start
        <5>1. last_ev_parent = e.index
          BY <3>2, <4>6 DEF Attributed
        <5> QED
          BY <1>1, <2>4, <3>2, <4>6, <5>1 DEF CreditedIsTop, CreditsNext
      <4> QED
        BY <1>2, <4>2, <4>4, <4>5, <4>6
    <3> QED
      BY <2>3, <3>1, <3>2
  <2>5. ASSUME NEW e, Measured(e), stack # << >>, Last(stack) = e PROVE Grows(e, n)
    <3>1. HasNodes(e) /\ ~Locks(e) /\ CreditsNext(e) /\ (~n.start => d = e) /\ e \in HostRows(trace) /\ ~Blocks(e)
      BY <1>3, <2>5 DEF Measured
    <3>2. last_node # None
      BY <1>1, <3>1, HostNodesReal DEF CreditsNext
    <3>3. last_node = Start(e) \/ (~last_node.start /\ last_ev_parent = e.index)
      BY <3>1 DEF CreditsNext
    <3>4. ~SharesLock(last_node, n)
      BY <3>1, <3>3, NodeFields DEF SharesLock
    <3>5. type = "operator" /\ ~zero_weight
      BY <1>1, <1>2, <2>1, <2>5, <3>1, OpenDepth
    <3>6. Attributed(last_node, n, last_ev_parent) = e.index
      BY <1>2, <3>1, <3>3, NodeFields DEF Attributed
    <3>7. type \in Spans
      BY <3>5, Zenon DEF Spans
    <3> QED
      BY <2>3, <3>2, <3>4, <3>5, <3>6, <3>7
  <2> QED
    BY <2>4, <2>5
<1> QED
  BY <1>4, <1>5

-----------------------------------------------------------------------------
(* The credit of an event, from its first edge to its last.                *)
ClosedChildren(e) == {c \in ChildrenOf(e) : End(c) \notin left}

(* The time up to which the event at a place of the stack was credited.    *)
Frontier(i) == IF i = Len(stack) THEN Ts(last_node) ELSE stack[i + 1].ts

NotBegun(e) == ThreadOf(trace, e) \in threads \/ Start(e) \in left
Closed(e) == ThreadOf(trace, e) \notin threads /\ Start(e) \notin left /\ End(e) \notin left
SelfCredit(e) == Credit(e) = e.dur - DurationOf(ChildrenOf(e))

BeforeCredit ==
  /\ pc = "locks" => \A e : Measured(e) => Credited(e) = {}
  /\ pc \in {"threads", "replay"} => \A e : Measured(e) /\ NotBegun(e) => Credited(e) = {}
AfterCredit ==
  /\ pc \in {"threads", "replay"} => \A e : Measured(e) /\ Closed(e) => SelfCredit(e)
  /\ pc \in {"kernels", "built"} => \A e : Measured(e) => SelfCredit(e)
OpenCredit ==
  pc = "replay" =>
    \A i \in DOMAIN stack : \A e :
      stack[i] = e /\ Measured(e) =>
        Credit(e) = Frontier(i) - e.ts - DurationOf(ClosedChildren(e))

SelfInv == Nested(trace) /\ Replayed /\ Linked /\ BeforeCredit /\ AfterCredit /\ OpenCredit

(* The edges credited to an event are finitely many edges of the graph.    *)
LEMMA CreditedFinite ==
  ASSUME Rows, Typed, NEW e
  PROVE  IsFiniteSet(Credited(e)) /\ Credited(e) \subseteq DOMAIN edges
         /\ \A p \in DOMAIN edges : Weights[p] \in Int /\ Weights[p] = edges[p].weight
<1>1. IsFiniteSet(DOMAIN edges) /\ EdgeMap(edges) /\ DOMAIN edge_to_event \subseteq DOMAIN edges
  BY EdgesFinite, TypedParts
<1>2. Credited(e) \subseteq DOMAIN edges
  BY <1>1 DEF Credited
<1>3. \A p \in DOMAIN edges : Weights[p] \in Int /\ Weights[p] = edges[p].weight
  BY <1>1 DEF Weights, EdgeMap
<1> QED
  BY <1>1, <1>2, <1>3, FS_Subset

(* A credit is a time.                                                     *)
LEMMA CreditType ==
  ASSUME Rows, Typed, NEW e
  PROVE  Credit(e) \in Int
<1>1. PICK w, C : w = Weights /\ C = Credited(e)
  OBVIOUS
<1>2. IsFiniteSet(C) /\ \A p \in C : w[p] \in Int
  BY <1>1, CreditedFinite
<1>3. SumFunctionOnSet(w, C) \in Int
  BY <1>2, SumType
<1> QED
  BY <1>1, <1>3 DEF Credit

(* Edges keep their weights, and what they sum up to. *)
LEMMA CreditKept ==
  ASSUME Rows, Typed, Kept, NEW e, Credited(e)' = Credited(e)
  PROVE  Credit(e)' = Credit(e)
<1>1. PICK w, v, C : w = Weights /\ v = Weights' /\ C = Credited(e)
  OBVIOUS
<1>2. IsFiniteSet(C) /\ \A p \in C : p \in DOMAIN edges /\ w[p] \in Int /\ w[p] = edges[p].weight
  BY <1>1, CreditedFinite
<1>3. \A p \in C : v[p] = w[p]
  BY <1>1, <1>2 DEF Kept, Weights
<1>4. SumFunctionOnSet(w, C) = SumFunctionOnSet(v, C)
  BY <1>2, <1>3, SumEqual
<1> QED
  BY <1>1, <1>4 DEF Credit

(* One more edge adds its weight.                                          *)
LEMMA CreditGrows ==
  ASSUME Rows, Typed, Kept, NEW e, NEW n \in NodesOf(trace), Grows(e, n)
  PROVE  Credit(e)' = Credit(e) + Ts(n) - Ts(last_node)
<1> DEFINE pair == <<last_node, n>>
<1>1. PICK w, v, C, p : w = Weights /\ v = Weights' /\ C = Credited(e) /\ p = pair
  OBVIOUS
<1>2. IsFiniteSet(C) /\ \A x \in C : x \in DOMAIN edges /\ w[x] \in Int /\ w[x] = edges[x].weight
  BY <1>1, CreditedFinite
<1>3. \A x \in C : v[x] = w[x]
  BY <1>1, <1>2 DEF Kept, Weights
<1>4. Ts(n) \in Int /\ Ts(last_node) \in Int
  BY NodeOfTrace DEF Grows
<1>5. v[p] = Ts(n) - Ts(last_node) /\ p \notin C /\ Credited(e)' = C \cup {p}
  BY <1>1 DEF Grows, Weights
<1>6. SumFunctionOnSet(w, C) = SumFunctionOnSet(v, C)
  BY <1>2, <1>3, SumEqual
<1>7. SumFunctionOnSet(v, C \cup {p}) = v[p] + SumFunctionOnSet(v, C)
  <2>1. \A x \in C \cup {p} : v[x] \in Int
    BY <1>2, <1>3, <1>4, <1>5
  <2> QED
    BY <1>2, <1>5, <2>1, SumWith
<1>8. Credit(e) = SumFunctionOnSet(w, C) /\ Credit(e)' = SumFunctionOnSet(v, C \cup {p})
  BY <1>1, <1>5 DEF Credit
<1>9. SumFunctionOnSet(w, C) \in Int
  BY <1>2, SumType
<1> QED
  BY <1>4, <1>5, <1>6, <1>7, <1>8, <1>9

(* Sums of durations. *)
LEMMA DurationFacts ==
  ASSUME Rows, NEW D, D \subseteq trace
  PROVE  /\ IsFiniteSet(D) /\ DurationOf(D) \in Int
         /\ DurationOf({}) = 0
         /\ \A d \in trace : d \notin D => DurationOf(D \cup {d}) = DurationOf(D) + d.dur
<1>1. PICK w : w = Durations
  OBVIOUS
<1>2. IsFiniteSet(trace) /\ \A c \in trace : w[c] \in Int /\ w[c] = c.dur
  <2>1. IsFiniteSet(trace)
    BY TracesAssumption, FS_Subset DEF Rows
  <2>2. \A c \in trace : c.dur \in Int
    BY TracesAssumption DEF Rows
  <2> QED
    BY <1>1, <2>1, <2>2 DEF Durations
<1>3. IsFiniteSet(D)
  BY <1>2, FS_Subset
<1>4. SumFunctionOnSet(w, D) \in Int
  BY <1>2, <1>3, SumType
<1>5. SumFunctionOnSet(w, {}) = 0
  BY <1>3, SumRecursion
<1>6. ASSUME NEW d \in trace, d \notin D
      PROVE  SumFunctionOnSet(w, D \cup {d}) = SumFunctionOnSet(w, D) + d.dur
  <2>1. \A x \in D \cup {d} : w[x] \in Int
    BY <1>2
  <2>2. SumFunctionOnSet(w, D \cup {d}) = w[d] + SumFunctionOnSet(w, D)
    BY <1>3, <1>6, <2>1, SumWith
  <2>3. w[d] = d.dur /\ d.dur \in Int
    BY <1>2
  <2> QED
    BY <1>4, <2>2, <2>3
<1> QED
  BY <1>1, <1>3, <1>4, <1>5, <1>6 DEF DurationOf

(* What is inside an event.                                                *)
LEMMA ChildFacts ==
  ASSUME Rows, RowsNumbered, NEW e \in HostRows(trace), NEW c \in Inside(e)
  PROVE  /\ c \in HostRows(trace) /\ c \in trace /\ ThreadOf(trace, c) = ThreadOf(trace, e)
         /\ Covers(e, c) /\ c # e /\ Lasting(c) /\ Lasting(e) /\ c.index # e.index
         /\ ~EventBefore(End(e), End(c)) /\ ~EventBefore(End(c), Start(e)) /\ ~Covers(c, e)
<1>1. c \in HostRows(trace) /\ Within(c, e)
  BY DEF Inside
<1>2. Lasting(c) /\ Lasting(e) /\ c \in trace
  BY <1>1, HostLasting
<1>3. Covers(e, c) /\ ThreadOf(trace, c) = ThreadOf(trace, e)
  BY <1>1 DEF Within, Covers
<1>4. c # e
  BY <1>2, <1>3 DEF Covers, Lasting
<1>5. c.index # e.index
  BY <1>1, <1>4, HostIndex
<1> QED
  BY <1>1, <1>2, <1>3, <1>4, <1>5, InsideInTime

-----------------------------------------------------------------------------
(* A step of the replay and the credits. *)

(* All children of an event that closes are closed. *)
LEMMA ChildrenClosed ==
  ASSUME IInv, Replayed, RowsNumbered, pc = "replay", NEW n, Replays(n), ~n.start
  PROVE  ClosedChildren(n.of) = ChildrenOf(n.of)
<1> DEFINE d == n.of
<1>1. Rows /\ d \in HostRows(trace) /\ n = End(d) /\ \A m \in left \ {n} : EventBefore(n, m)
  BY DEF IInv, Replays
<1>2. ASSUME NEW c \in ChildrenOf(d), End(c) \in left PROVE FALSE
  <2>1. c \in Inside(d)
    BY DEF ChildrenOf
  <2>2. c # d /\ ~EventBefore(End(d), End(c))
    BY <1>1, <2>1, ChildFacts
  <2>3. End(c) # n
    BY <1>1, <2>2, NodeFields
  <2> QED
    BY <1>1, <1>2, <2>2, <2>3
<1> QED
  BY <1>2 DEF ClosedChildren

(* No child of an event that opens is closed. *)
LEMMA ChildrenOpen ==
  ASSUME IInv, Replayed, RowsNumbered, pc = "replay", NEW n, Replays(n), n.start
  PROVE  ClosedChildren(n.of) = {}
<1> DEFINE d == n.of
<1>1. Rows /\ d \in HostRows(trace) /\ n = Start(d) /\ n \in left /\ PassedFirst
  BY DEF IInv, Replays, Replayed
<1>2. ASSUME NEW c \in ChildrenOf(d), End(c) \notin left PROVE FALSE
  <2>1. c \in Inside(d)
    BY DEF ChildrenOf
  <2>2. c \in HostRows(trace) /\ ThreadOf(trace, c) = ThreadOf(trace, d) /\ ~EventBefore(End(c), Start(d))
    BY <1>1, <2>1, ChildFacts
  <2> QED
    BY <1>1, <1>2, <2>2 DEF PassedFirst
<1> QED
  BY <1>2 DEF ClosedChildren

(* The event on top of the stack is a child of the one below it, and of no *)
(* other.                                                                  *)
LEMMA TopIsChild ==
  ASSUME IInv, Replayed, RowsNumbered, pc = "replay", NEW n, Replays(n), ~n.start,
         NEW i \in DOMAIN stack, i # Len(stack)
  PROVE  n.of \in ChildrenOf(stack[i]) <=> i = Len(stack) - 1
<1> DEFINE d == n.of
           e == stack[i]
<1>1. Rows /\ PassedFirst /\ StackIsOpen /\ StackNests
  BY DEF IInv, Replayed
<1>2. /\ n \in left /\ d \in HostRows(trace) /\ n = End(d) /\ \A m \in left \ {n} : EventBefore(n, m)
      /\ stack[Len(stack)] = d
  BY DEF Replays
<1>0. /\ Len(stack) \in Nat /\ DOMAIN stack = 1 .. Len(stack)
      /\ \A j \in DOMAIN stack : stack[j] \in OpenRows /\ stack[j] \in HostRows(trace)
      /\ \A j, k \in DOMAIN stack : stack[j] = stack[k] => j = k
  BY StackRows
<1>3. Len(stack) \in DOMAIN stack /\ i < Len(stack) /\ e \in HostRows(trace)
  BY <1>0
<1>4. d \in Inside(e)
  BY <1>2, <1>3, OpenInside
<1>5. CASE i = Len(stack) - 1
  <2>1. ASSUME NEW x \in Inside(e), d \in Inside(x) PROVE FALSE
    <3>1. /\ x \in HostRows(trace) /\ ThreadOf(trace, x) = ThreadOf(trace, e)
          /\ Covers(e, x) /\ x # e /\ ~Covers(x, e)
      BY <1>1, <1>3, <2>1, ChildFacts
    <3>2. /\ ThreadOf(trace, d) = ThreadOf(trace, x) /\ d # x
          /\ ~EventBefore(End(x), End(d)) /\ ~EventBefore(End(d), Start(x))
      BY <1>1, <2>1, <3>1, ChildFacts
    <3>3. Start(x) \notin left
      BY <1>2, <3>2, NodeFields
    <3>4. End(x) \in left
      BY <1>1, <1>2, <3>1, <3>2 DEF PassedFirst
    <3>5. x \in OpenRows
      BY <3>1, <3>3, <3>4 DEF OpenRows
    <3>6. PICK j \in DOMAIN stack : stack[j] = x
      BY <1>1, <3>5 DEF StackIsOpen
    <3>7. j < i
      <4>1. j # Len(stack)
        BY <1>2, <3>2, <3>6
      <4>2. j # i
        BY <3>1, <3>6
      <4>3. Len(stack) \in Nat /\ j \in 1 .. Len(stack)
        BY <1>0
      <4>4. j \in Int /\ j <= Len(stack)
        BY <4>3
      <4> QED
        BY <1>5, <4>1, <4>2, <4>3, <4>4
    <3>8. Covers(x, e)
      BY <1>1, <3>6, <3>7 DEF StackNests
    <3> QED
      BY <3>1, <3>8
  <2> QED
    BY <1>4, <1>5, <2>1 DEF ChildrenOf
<1>6. CASE i # Len(stack) - 1
  <2> DEFINE k == Len(stack) - 1
  <2>1. k \in DOMAIN stack /\ i < k /\ k < Len(stack)
    BY <1>0, <1>3, <1>6
  <2>2. stack[k] \in Inside(e) /\ d \in Inside(stack[k])
    BY <1>2, <1>3, <2>1, OpenInside
  <2> HIDE DEF k
  <2> QED
    BY <1>6, <2>2 DEF ChildrenOf
<1> QED
  BY <1>5, <1>6

(* What depends on the window alone stays.                                 *)
LEMMA SameTrace ==
  ASSUME UNCHANGED trace
  PROVE  /\ \A e : Measured(e)' <=> Measured(e)
         /\ \A e : ChildrenOf(e)' = ChildrenOf(e) /\ Inside(e)' = Inside(e)
         /\ \A D : DurationOf(D)' = DurationOf(D)
         /\ \A e : ThreadOf(trace, e)' = ThreadOf(trace, e)
         /\ HostRows(trace)' = HostRows(trace)
  BY DEF Measured, ChildrenOf, Inside, Within, DurationOf, Durations

(* An event opens: the one that was on top is credited up to its start.    *)
LEMMA OpensCredit ==
  ASSUME IInv, Typed, SelfInv, RowsNumbered, NoneApart, ReplayEnd, Kept, NEW n, Replays(n), n.start
  PROVE  BeforeCredit' /\ AfterCredit' /\ OpenCredit'
<1> DEFINE d == n.of
<1>1. /\ pc = "replay" /\ UNCHANGED <<full, trace, threads, pc>> /\ Rows
      /\ Replayed /\ Linked /\ Nested(trace)
  BY ReplayParts DEF IInv, SelfInv
<1>2. /\ n \in left /\ d \in HostRows(trace) /\ n = Start(d) /\ End(d) \in left /\ left' = left \ {n}
      /\ stack' = Append(stack, d) /\ Enter(d, Top(stack))
  BY DEF Replays
<1>3. /\ \A e : Measured(e) => (stack # << >> /\ Last(stack) = e) \/ Credited(e)' = Credited(e)
      /\ \A e : Measured(e) /\ stack # << >> /\ Last(stack) = e => Grows(e, n)
  BY <1>1, ReplayCredits
<1>4. /\ stack \in Seq(HostRows(trace)) /\ Len(stack) \in Nat /\ DOMAIN stack = 1 .. Len(stack)
      /\ \A j \in DOMAIN stack : stack[j] \in OpenRows /\ stack[j] \in HostRows(trace)
      /\ \A j, k \in DOMAIN stack : stack[j] = stack[k] => j = k
  BY <1>1, StackRows
<1>5. stack # << >> => Len(stack) \in DOMAIN stack /\ Last(stack) = stack[Len(stack)] /\ Last(stack) \in OpenRows
  BY <1>4 DEF Last
<1>6. /\ \A e \in HostRows(trace) : Start(e) \in left => End(e) \in left
      /\ \A e \in OpenRows : ThreadOf(trace, e) \notin threads /\ Start(e) \notin left /\ End(e) \in left
  <2>1. /\ \A m \in left : ThreadOf(trace, m.of) \notin threads /\ (m.start => End(m.of) \in left)
    BY <1>1 DEF IInv, ReplayPhase
  <2> QED
    BY <2>1, NodeFields DEF OpenRows
<1>7. \A e : /\ Start(e) \in left' <=> Start(e) \in left /\ e # d
             /\ End(e) \in left' <=> End(e) \in left
  BY <1>2, NodeFields
<1>8. BeforeCredit'
  <2> SUFFICES ASSUME NEW e, Measured(e), NotBegun(e)' PROVE Credited(e)' = {}
    BY <1>1, SameTrace DEF BeforeCredit
  <2>1. NotBegun(e)
    BY <1>1, <1>7 DEF NotBegun
  <2>2. Credited(e) = {}
    BY <1>1, <2>1 DEF SelfInv, BeforeCredit
  <2>3. ~(stack # << >> /\ Last(stack) = e)
    BY <1>5, <1>6, <2>1 DEF NotBegun
  <2> QED
    BY <1>3, <2>2, <2>3
<1>9. AfterCredit'
  <2> SUFFICES ASSUME NEW e, Measured(e), Closed(e)' PROVE SelfCredit(e)'
    BY <1>1, SameTrace DEF AfterCredit
  <2>0. e \in HostRows(trace)
    BY DEF Measured
  <2>1. Closed(e)
    BY <1>1, <1>2, <1>6, <1>7, <2>0 DEF Closed
  <2>2. SelfCredit(e)
    BY <1>1, <2>1 DEF SelfInv, AfterCredit
  <2>3. ~(stack # << >> /\ Last(stack) = e)
    BY <1>5, <1>6, <2>1 DEF Closed
  <2>4. Credit(e)' = Credit(e)
    BY <1>1, <1>3, <2>3, CreditKept
  <2> QED
    BY <1>1, <2>2, <2>4, SameTrace DEF SelfCredit
<1>10. OpenCredit'
  <2>1. /\ DOMAIN stack' = 1 .. Len(stack) + 1 /\ stack'[Len(stack) + 1] = d /\ Len(stack') = Len(stack) + 1
        /\ \A i \in DOMAIN stack : stack'[i] = stack[i]
    BY <1>2, <1>4
  <2>2. \A e : ClosedChildren(e)' = ClosedChildren(e)
    BY <1>1, <1>7, SameTrace DEF ClosedChildren
  <2> SUFFICES ASSUME NEW i \in DOMAIN stack', NEW e, stack'[i] = e, Measured(e)
               PROVE  Credit(e)' = Frontier(i)' - e.ts - DurationOf(ClosedChildren(e))
    BY <1>1, <2>2, SameTrace DEF OpenCredit
  <2>3. CASE i \in DOMAIN stack
    <3>0. e = stack[i]
      BY <2>1, <2>3
    <3>1. Credit(e) = Frontier(i) - e.ts - DurationOf(ClosedChildren(e))
      BY <1>1, <2>3, <3>0 DEF SelfInv, OpenCredit
    <3>2. Frontier(i)' = stack'[i + 1].ts
      <4>1. i # Len(stack')
        BY <1>4, <2>1, <2>3
      <4> QED
        BY <4>1 DEF Frontier
    <3>3. CASE i = Len(stack)
      <4>1. stack # << >> /\ Last(stack) = e
        BY <1>4, <2>3, <3>0, <3>3 DEF Last
      <4>2. Grows(e, n)
        BY <1>3, <4>1
      <4>3. n \in NodesOf(trace) /\ Ts(n) = d.ts
        <5>1. d \in Inside(e)
          BY <1>1, <1>2, <1>5, <4>1, OpensOnTop, InsideIs DEF Replays
        <5>2. HasNodes(d) /\ d \in trace
          BY <1>1, <1>2, <5>1, HostRowFacts DEF Measured
        <5> QED
          BY <1>2, <5>2, NodesWith, NodeFields DEF Ts
      <4>4. Credit(e)' = Credit(e) + Ts(n) - Ts(last_node)
        BY <1>1, <4>2, <4>3, CreditGrows
      <4>5. Frontier(i) = Ts(last_node) /\ Frontier(i)' = Ts(n)
        BY <1>2, <2>1, <3>2, <3>3, <4>3 DEF Frontier
      <4>6. /\ Ts(n) \in Int /\ Ts(last_node) \in Int /\ e.ts \in Int
            /\ DurationOf(ClosedChildren(e)) \in Int /\ Credit(e) \in Int
        <5>1. ClosedChildren(e) \subseteq trace
          BY DEF ClosedChildren, ChildrenOf, Inside, HostRows
        <5>2. e \in HostRows(trace)
          BY DEF Measured
        <5> QED
          BY <1>1, <4>2, <4>3, <5>1, <5>2, NodeOfTrace, HostRowFacts, DurationFacts, CreditType DEF Grows
      <4> HIDE DEF d
      <4> QED
        BY <3>1, <4>4, <4>5, <4>6
    <3>4. CASE i # Len(stack)
      <4>1. i < Len(stack) /\ i + 1 \in DOMAIN stack
        BY <1>4, <2>3, <3>4
      <4>2. Frontier(i)' = Frontier(i)
        BY <2>1, <3>2, <3>4, <4>1 DEF Frontier
      <4>3. ~(stack # << >> /\ Last(stack) = e)
        BY <1>4, <1>5, <2>3, <3>0, <3>4
      <4>4. Credit(e)' = Credit(e)
        BY <1>1, <1>3, <4>3, CreditKept
      <4> QED
        BY <3>1, <4>2, <4>4
    <3> QED
      BY <3>3, <3>4
  <2>4. CASE i = Len(stack) + 1
    <3>1. e = d
      BY <2>1, <2>4
    <3>2. Credited(d) = {}
      <4>1. NotBegun(d) /\ Measured(d)
        BY <1>2, <3>1 DEF NotBegun
      <4> QED
        BY <1>1, <4>1 DEF SelfInv, BeforeCredit
    <3>3. Credited(d)' = {}
      <4>1. ~(stack # << >> /\ Last(stack) = d)
        BY <1>2, <1>5, <1>6
      <4> QED
        BY <1>3, <3>1, <3>2, <4>1
    <3>4. Credit(d)' = 0
      <4>1. PICK w : w = Weights'
        OBVIOUS
      <4>2. SumFunctionOnSet(w, {}) = 0
        BY FS_EmptySet, SumRecursion
      <4> QED
        BY <3>3, <4>1, <4>2 DEF Credit
    <3>5. Frontier(i)' = d.ts
      <4>1. last_node' = n
        BY <1>2, <3>1 DEF Enter, Measured
      <4> QED
        BY <1>2, <2>1, <2>4, <4>1, NodeFields DEF Frontier, Ts
    <3>6. ClosedChildren(d) = {}
      BY <1>1, ChildrenOpen
    <3>7. DurationOf({}) = 0 /\ d.ts \in Int
      BY <1>1, <1>2, DurationFacts, HostRowFacts, {} \subseteq trace
    <3> HIDE DEF d
    <3> QED
      BY <3>1, <3>4, <3>5, <3>6, <3>7
  <2> QED
    BY <1>4, <2>1, <2>3, <2>4
<1> QED
  BY <1>8, <1>9, <1>10

(* An event closes: it has its self time, and is a closed child.           *)
LEMMA ClosesCredit ==
  ASSUME IInv, Typed, SelfInv, RowsNumbered, NoneApart, ReplayEnd, Kept, NEW n, Replays(n), ~n.start
  PROVE  BeforeCredit' /\ AfterCredit' /\ OpenCredit'
<1> DEFINE d == n.of
           top == Len(stack)
<1>1. /\ pc = "replay" /\ UNCHANGED <<full, trace, threads, pc>> /\ Rows
      /\ Replayed /\ Linked /\ Nested(trace)
  BY ReplayParts DEF IInv, SelfInv
<1>2. /\ n \in left /\ d \in HostRows(trace) /\ n = End(d) /\ left' = left \ {n}
      /\ stack' = Front(stack) /\ Exit(d, Top(Front(stack)))
      /\ top \in Nat \ {0} /\ Last(stack) = d /\ stack[top] = d
  BY DEF Replays
<1>3. /\ \A e : Measured(e) => (stack # << >> /\ Last(stack) = e) \/ Credited(e)' = Credited(e)
      /\ \A e : Measured(e) /\ stack # << >> /\ Last(stack) = e => Grows(e, n)
  BY <1>1, ReplayCredits
<1>4. /\ stack \in Seq(HostRows(trace)) /\ DOMAIN stack = 1 .. top
      /\ \A j \in DOMAIN stack : stack[j] \in OpenRows /\ stack[j] \in HostRows(trace)
      /\ \A j, k \in DOMAIN stack : stack[j] = stack[k] => j = k
  BY <1>1, StackRows
<1>5. /\ top \in DOMAIN stack /\ stack # << >> /\ d \in OpenRows
      /\ DOMAIN stack' = 1 .. top - 1 /\ Len(stack') = top - 1
      /\ \A i \in DOMAIN stack' : stack'[i] = stack[i] /\ i \in DOMAIN stack
  <2>1. top \in DOMAIN stack /\ stack # << >>
    BY <1>2, <1>4
  <2>2. stack' = [i \in 1 .. top - 1 |-> stack[i]]
    BY <1>2 DEF Front
  <2>3. DOMAIN stack' = 1 .. top - 1 /\ Len(stack') = top - 1
    BY <1>2, <2>2
  <2> QED
    BY <1>2, <1>4, <2>1, <2>2, <2>3
<1>6. \A e \in OpenRows : ThreadOf(trace, e) \notin threads /\ Start(e) \notin left /\ End(e) \in left
  <2>1. \A m \in left : ThreadOf(trace, m.of) \notin threads
    BY <1>1 DEF IInv, ReplayPhase
  <2> QED
    BY <2>1, NodeFields DEF OpenRows
<1>7. \A e : /\ Start(e) \in left' <=> Start(e) \in left
             /\ End(e) \in left' <=> End(e) \in left /\ e # d
  BY <1>2, NodeFields
<1>8. BeforeCredit'
  <2> SUFFICES ASSUME NEW e, Measured(e), NotBegun(e)' PROVE Credited(e)' = {}
    BY <1>1, SameTrace DEF BeforeCredit
  <2>1. NotBegun(e)
    BY <1>1, <1>7 DEF NotBegun
  <2>2. Credited(e) = {}
    BY <1>1, <2>1 DEF SelfInv, BeforeCredit
  <2>3. e # d
    BY <1>5, <1>6, <2>1 DEF NotBegun
  <2> QED
    BY <1>2, <1>3, <2>2, <2>3
<1>9. ASSUME Measured(d)
      PROVE  /\ Credit(d)' = Credit(d) + d.ts + d.dur - Ts(last_node)
             /\ Credit(d) = Ts(last_node) - d.ts - DurationOf(ChildrenOf(d))
             /\ Ts(last_node) \in Int
  <2>1. Grows(d, n)
    BY <1>2, <1>3, <1>5, <1>9
  <2>2. n \in NodesOf(trace) /\ Ts(n) = d.ts + d.dur
    <3>1. HasNodes(d) /\ d \in trace
      BY <1>1, <1>2, <1>9, HostRowFacts DEF Measured
    <3> QED
      BY <1>2, <3>1, NodesWith, NodeFields DEF Ts
  <2>3. Credit(d)' = Credit(d) + Ts(n) - Ts(last_node)
    BY <1>1, <2>1, <2>2, CreditGrows
  <2>4. Credit(d) = Frontier(top) - d.ts - DurationOf(ClosedChildren(d))
    BY <1>1, <1>2, <1>5, <1>9 DEF SelfInv, OpenCredit
  <2>5. ClosedChildren(d) = ChildrenOf(d)
    BY <1>1, ChildrenClosed
  <2>6. Frontier(top) = Ts(last_node)
    BY DEF Frontier
  <2>7. Ts(last_node) \in Int /\ Credit(d) \in Int /\ d.ts \in Int /\ d.dur \in Int
    BY <1>1, <1>2, <2>1, NodeOfTrace, CreditType, HostRowFacts DEF Grows
  <2> HIDE DEF d, top
  <2> QED
    BY <2>2, <2>3, <2>4, <2>5, <2>6, <2>7
<1>10. AfterCredit'
  <2> SUFFICES ASSUME NEW e, Measured(e), Closed(e)' PROVE SelfCredit(e)'
    BY <1>1, SameTrace DEF AfterCredit
  <2>1. CASE e = d
    <3>1. DurationOf(ChildrenOf(d)) \in Int /\ d.ts \in Int /\ d.dur \in Int
      <4>1. ChildrenOf(d) \subseteq trace
        BY DEF ChildrenOf, Inside, HostRows
      <4> QED
        BY <1>1, <1>2, <4>1, DurationFacts, HostRowFacts
    <3>2. Credit(d)' = d.dur - DurationOf(ChildrenOf(d))
      <4>1. Measured(d)
        BY <2>1
      <4> HIDE DEF d
      <4> QED
        BY <1>9, <3>1, <4>1
    <3> QED
      BY <1>1, <2>1, <3>2, SameTrace DEF SelfCredit
  <2>2. CASE e # d
    <3>1. SelfCredit(e)
      BY <1>1, <1>7, <2>2 DEF Closed, SelfInv, AfterCredit
    <3>2. Credit(e)' = Credit(e)
      BY <1>1, <1>2, <1>3, <2>2, CreditKept
    <3> QED
      BY <1>1, <3>1, <3>2, SameTrace DEF SelfCredit
  <2> QED
    BY <2>1, <2>2
<1>11. OpenCredit'
  <2> SUFFICES ASSUME NEW i \in DOMAIN stack', NEW e, stack'[i] = e, Measured(e)
               PROVE  Credit(e)' = Frontier(i)' - e.ts - DurationOf(ClosedChildren(e)')
    BY <1>1, SameTrace DEF OpenCredit
  <2>1. i \in DOMAIN stack /\ e = stack[i] /\ i # top /\ i \in 1 .. top - 1
    BY <1>2, <1>5
  <2>2. e # d
    BY <1>2, <1>4, <1>5, <2>1
  <2>3. Credit(e)' = Credit(e)
    BY <1>1, <1>2, <1>3, <2>2, CreditKept
  <2>4. Credit(e) = stack[i + 1].ts - e.ts - DurationOf(ClosedChildren(e))
    BY <1>1, <2>1 DEF SelfInv, OpenCredit, Frontier
  <2>5. ClosedChildren(e)' = {c \in ChildrenOf(e) : c = d \/ End(c) \notin left}
    BY <1>1, <1>7, SameTrace DEF ClosedChildren
  <2>6. d \in ChildrenOf(e) <=> i = top - 1
    BY <1>1, <2>1, TopIsChild
  <2>7. CASE i = top - 1
    <3>1. ClosedChildren(e)' = ClosedChildren(e) \cup {d} /\ d \notin ClosedChildren(e)
      BY <1>5, <1>6, <2>5, <2>6, <2>7 DEF ClosedChildren
    <3>2. Frontier(i)' = d.ts + d.dur
      <4>1. d \in Inside(e)
        BY <2>6, <2>7 DEF ChildrenOf
      <4>2. HasNodes(d)
        BY <4>1 DEF Measured
      <4>3. last_node' = End(d)
        BY <1>2, <4>2 DEF Exit
      <4> QED
        BY <1>5, <2>7, <4>3, NodeFields DEF Frontier, Ts
    <3>3. stack[i + 1] = d
      BY <1>2, <2>7
    <3>4. ClosedChildren(e) \subseteq trace /\ d \in trace
      BY <1>1, <1>2, HostRowFacts DEF ClosedChildren, ChildrenOf, Inside, HostRows
    <3>5. /\ DurationOf(ClosedChildren(e) \cup {d}) = DurationOf(ClosedChildren(e)) + d.dur
          /\ DurationOf(ClosedChildren(e)) \in Int
      BY <1>1, <3>1, <3>4, DurationFacts
    <3>6. d.ts \in Int /\ d.dur \in Int /\ e.ts \in Int
      BY <1>1, <1>2, HostRowFacts DEF Measured
    <3> HIDE DEF d, top
    <3> QED
      BY <2>3, <2>4, <3>1, <3>2, <3>3, <3>5, <3>6
  <2>8. CASE i # top - 1
    <3>1. ClosedChildren(e)' = ClosedChildren(e)
      BY <2>5, <2>6, <2>8 DEF ClosedChildren
    <3>2. Frontier(i)' = stack[i + 1].ts
      <4>1. i # Len(stack') /\ i + 1 \in DOMAIN stack'
        BY <1>2, <1>5, <2>1, <2>8
      <4>2. stack'[i + 1] = stack[i + 1]
        BY <1>5, <4>1
      <4> QED
        BY <4>1, <4>2 DEF Frontier
    <3> QED
      BY <2>3, <2>4, <3>1, <3>2
  <2> QED
    BY <2>7, <2>8
<1> QED
  BY <1>8, <1>10, <1>11

-----------------------------------------------------------------------------
(* The credits in the other steps. *)

(* The window is cut out.                                                  *)
LEMMA ClipSelf == IInv /\ Typed /\ WindowsNest /\ SelfInv /\ Clip => SelfInv'
<1> SUFFICES ASSUME IInv, Typed, WindowsNest, SelfInv, Clip PROVE SelfInv'
  OBVIOUS
<1> DEFINE instances == Instances(full, asked.first, asked.last)
<1>1. /\ pc = "clip" /\ UNCHANGED <<full, asked, edges, edge_to_event>> /\ Rows /\ asked \in Asked
      /\ DOMAIN edge_to_event = {}
  <2>1. edges = << >> /\ DOMAIN edge_to_event \subseteq DOMAIN edges /\ asked \in Asked
    BY TypedParts DEF Clip, IInv, Begun, Typed, TypeOK
  <2>2. DOMAIN edges = {}
    BY <2>1
  <2> QED
    BY <2>1, <2>2 DEF Clip, input, graph, IInv
<1>2. Nested(trace)' /\ pc' \in {"returned", "raised", "locks"}
  <2>1. CASE instances = {}
    <3>1. trace' = trace /\ pc' \in {"returned", "raised"}
      BY <2>1 DEF Clip
    <3> QED
      BY <3>1 DEF SelfInv
  <2>2. CASE instances # {}
    <3>1. trace' = Clipped(full, instances) /\ pc' = "locks"
      BY <2>2 DEF Clip
    <3>2. Nested(Clipped(full, instances))
      BY <1>1 DEF WindowsNest, Rows
    <3> QED
      BY <3>1, <3>2
  <2> QED
    BY <2>1, <2>2
<1>3. \A e : Credited(e)' = {}
  BY <1>1 DEF Credited
<1> QED
  BY <1>2, <1>3 DEF SelfInv, Replayed, Linked, BeforeCredit, AfterCredit, OpenCredit

(* The locks credit the calls that take them.                              *)
LEMMA PassLockSelf == IInv /\ SelfInv /\ PassLock => SelfInv'
<1> SUFFICES ASSUME IInv, SelfInv, PassLock PROVE SelfInv'
  OBVIOUS
<1>1. pc = "locks" /\ pc' = "locks" /\ UNCHANGED <<full, trace>> /\ LockPhase /\ Nested(trace)
  BY DEF PassLock, input, IInv, SelfInv
<1>2. PICK n \in left :
        edge_to_event' = edge_to_event
        \/ edge_to_event' = With(edge_to_event, [p \in {<<Start(n.of), n>>} \cap DOMAIN LockEdges(n) |-> n.of.index])
  BY DEF PassLock, graph
<1>3. Locks(n.of) /\ n.of \in trace
  BY <1>1, <1>2, NodeCases DEF LockPhase, LockNodes, NodesOf
<1>4. ASSUME NEW e, Measured(e) PROVE Credited(e)' = {}
  <2>1. Credited(e) = {}
    BY <1>1, <1>4 DEF SelfInv, BeforeCredit
  <2>2. n.of.index # e.index
    <3>1. e \in full /\ n.of \in full /\ Rows
      BY <1>3, <1>4 DEF Measured, HostRows, IInv, Rows
    <3>2. ~Locks(e)
      BY <1>4 DEF Measured
    <3> QED
      BY <1>3, <3>1, <3>2, UniqueIndex
  <2>3. CASE edge_to_event' = edge_to_event
    BY <2>1, <2>3 DEF Credited
  <2>4. CASE edge_to_event' = With(edge_to_event, [p \in {<<Start(n.of), n>>} \cap DOMAIN LockEdges(n) |-> n.of.index])
    <3> DEFINE new == [p \in {<<Start(n.of), n>>} \cap DOMAIN LockEdges(n) |-> n.of.index]
    <3>1. edge_to_event' = With(edge_to_event, new) /\ \A p \in DOMAIN new : new[p] = n.of.index
      BY <2>4
    <3> HIDE DEF new
    <3> QED
      BY <2>1, <2>2, <3>1, WithDomain DEF Credited
  <2> QED
    BY <1>2, <2>3, <2>4
<1>5. \A e : Measured(e)' <=> Measured(e)
  BY <1>1, SameTrace
<1> QED
  BY <1>1, <1>4, <1>5 DEF SelfInv, Replayed, Linked, BeforeCredit, AfterCredit, OpenCredit

(* Then every thread is to come.                                           *)
LEMMA FinishLocksSelf == IInv /\ SelfInv /\ FinishLocks => SelfInv'
<1> SUFFICES ASSUME IInv, SelfInv, FinishLocks PROVE SelfInv'
  OBVIOUS
<1>1. /\ pc = "locks" /\ pc' = "threads" /\ threads' = HostThreads(trace)
      /\ UNCHANGED <<trace, edges, edge_to_event>> /\ Nested(trace)
  BY DEF FinishLocks, input, graph, SelfInv
<1>2. \A e : Measured(e) => Credited(e)' = {} /\ ThreadOf(trace, e) \in threads'
  BY <1>1 DEF SelfInv, BeforeCredit, Credited, Measured, HostThreads
<1> QED
  BY <1>1, <1>2, SameTrace DEF SelfInv, Replayed, Linked, BeforeCredit, AfterCredit, OpenCredit, Closed

(* The rows of the next thread have not begun.                             *)
LEMMA StartThreadSelf == IInv /\ Typed /\ NoneApart /\ SelfInv /\ StartThread => SelfInv'
<1> SUFFICES ASSUME IInv, Typed, NoneApart, SelfInv, StartThread PROVE SelfInv'
  OBVIOUS
<1>1. PICK t \in threads : threads' = threads \ {t} /\ left' = Nodes(ThreadRows(trace, t))
  BY DEF StartThread
<1>2. /\ pc = "threads" /\ pc' = "replay" /\ stack' = << >> /\ Rows
      /\ UNCHANGED <<full, trace, edges, edge_to_event>> /\ Nested(trace) /\ left = {}
  BY DEF StartThread, input, graph, SelfInv, IInv, ThreadPhase
<1>3. Replayed' /\ Linked'
  BY StartThreadReplays, StartThreadLinks
<1>4. \A e : Start(e) \in left' => ThreadOf(trace, e) = t
  BY <1>1, NodeCases, NodeFields DEF ThreadRows
<1>5. \A e \in HostRows(trace) : ThreadOf(trace, e) = t => Start(e) \in left'
  BY <1>1, NodesIn DEF ThreadRows
<1>6. \A e : Credited(e)' = Credited(e)
  BY <1>2 DEF Credited
<1>7. BeforeCredit'
  <2> SUFFICES ASSUME NEW e, Measured(e), NotBegun(e)' PROVE Credited(e) = {}
    BY <1>2, <1>6, SameTrace DEF BeforeCredit
  <2>1. ThreadOf(trace, e) \in threads
    BY <1>1, <1>2, <1>4 DEF NotBegun
  <2> QED
    BY <1>2, <2>1 DEF SelfInv, BeforeCredit, NotBegun
<1>8. AfterCredit'
  <2> SUFFICES ASSUME NEW e, Measured(e), Closed(e)' PROVE SelfCredit(e)'
    BY <1>2, SameTrace DEF AfterCredit
  <2>1. e \in HostRows(trace)
    BY DEF Measured
  <2>2. Closed(e)
    BY <1>1, <1>2, <1>5, <2>1 DEF Closed
  <2>3. SelfCredit(e)
    BY <1>2, <2>2 DEF SelfInv, AfterCredit
  <2>4. Credit(e)' = Credit(e)
    BY <1>2, <1>6 DEF Credit, Weights
  <2> QED
    BY <1>2, <2>3, <2>4, SameTrace DEF SelfCredit
<1>9. OpenCredit'
  BY <1>2 DEF OpenCredit
<1> QED
  BY <1>2, <1>3, <1>7, <1>8, <1>9 DEF SelfInv

(* The replay.                                                             *)
LEMMA ReplayEndSelf ==
  IInv /\ Typed /\ RowsNumbered /\ NoneApart /\ SelfInv /\ ReplayEnd => SelfInv'
<1> SUFFICES ASSUME IInv, Typed, RowsNumbered, NoneApart, SelfInv, ReplayEnd PROVE SelfInv'
  OBVIOUS
<1>1. Replayed /\ Linked /\ Nested(trace)
  BY DEF SelfInv
<1>2. Replayed' /\ Linked'
  BY <1>1, ReplayEndReplays, ReplayEndLinks
<1>3. Kept
  BY ReplayEndStep
<1>4. PICK n : Replays(n)
  BY <1>1, ReplayNext
<1>5. BeforeCredit' /\ AfterCredit' /\ OpenCredit'
  BY <1>3, <1>4, OpensCredit, ClosesCredit
<1>6. Nested(trace)'
  <2>1. trace' = trace
    BY DEF ReplayEnd
  <2> QED
    BY <1>1, <2>1
<1> QED
  BY <1>2, <1>5, <1>6 DEF SelfInv

(* A thread that was replayed is closed.                                   *)
LEMMA FinishThreadSelf == IInv /\ SelfInv /\ (FinishThread \/ StartKernels) => SelfInv'
<1> SUFFICES ASSUME IInv, SelfInv, FinishThread \/ StartKernels PROVE SelfInv'
  OBVIOUS
<1>1. /\ UNCHANGED <<trace, threads, edges, edge_to_event>> /\ Nested(trace)
      /\ pc \in {"replay", "threads"} /\ left = {}
  BY DEF FinishThread, StartKernels, input, graph, SelfInv, IInv, ThreadPhase
<1>2. /\ \A e : Credited(e)' = Credited(e) /\ Credit(e)' = Credit(e)
      /\ \A e : SelfCredit(e)' <=> SelfCredit(e)
  BY <1>1, SameTrace DEF Credited, Credit, Weights, SelfCredit
<1>3. CASE FinishThread
  <2>1. pc' = "threads" /\ left' = left
    BY <1>3 DEF FinishThread
  <2>2. \A e : (NotBegun(e)' <=> NotBegun(e)) /\ (Closed(e)' <=> Closed(e))
    BY <1>1, <2>1 DEF NotBegun, Closed
  <2> QED
    BY <1>1, <1>2, <2>1, <2>2, SameTrace DEF SelfInv, Replayed, Linked, BeforeCredit, AfterCredit, OpenCredit
<1>4. CASE StartKernels
  <2>1. pc' \in {"raised", "kernels"} /\ threads = {} /\ pc = "threads"
    BY <1>4 DEF StartKernels
  <2>2. \A e : Closed(e)
    BY <1>1, <2>1 DEF Closed
  <2> QED
    BY <1>1, <1>2, <2>1, <2>2, SameTrace DEF SelfInv, Replayed, Linked, BeforeCredit, AfterCredit, OpenCredit
<1> QED
  BY <1>3, <1>4

(* A kernel is credited with edges of its own, and of the kernel before.   *)
LEMMA KernelsCreditKernels ==
  ASSUME IInv, Typed, PassDeviceRow, NEW e, Measured(e)
  PROVE  Credited(e)' = Credited(e)
<1>1. PICK r \in left : SyncHost(r) \/ SyncStream(r) \/ AddKernel(r)
  BY DEF PassDeviceRow
<1>2. /\ pc = "kernels" /\ Rows /\ r \in DeviceRows(trace) /\ e \in full /\ e.stream = -1
      /\ DOMAIN edge_to_event \subseteq DOMAIN edges
      /\ \A s \in DOMAIN last_on : GpuEnd(last_on[s]) /\ last_on[s] \in NodesOf(trace)
      /\ \A p \in DOMAIN edges : HostPair(p) \/ KernelPair(p) \/ SyncPair(p)
  BY <1>1, TypedParts DEF PassDeviceRow, IInv, KernelPhase, Measured, HostRows, Rows
<1>3. CASE SyncHost(r) \/ SyncStream(r)
  BY <1>3 DEF SyncHost, SyncStream, graph, Credited
<1>4. CASE AddKernel(r)
  <2>1. r \in trace /\ r.stream # -1
    BY <1>2, <1>4, KernelsOfDevice DEF AddKernel
  <2>2. PICK D : /\ D \subseteq {last_on[s] : s \in DOMAIN last_on}
                 /\ edge_to_event' =
                      With(edge_to_event,
                           [p \in DOMAIN EdgesInto({Start(r)}, End(r), "operator", FALSE)
                                    \cup DOMAIN EdgesInto(D, Start(r), "kernel delay", FALSE)
                              |-> p[1].of.index])
    <3> DEFINE previous == {last_on[s] : s \in DOMAIN last_on \cap {r.stream}}
    <3>1. PICK delayed :
            edge_to_event' =
              With(edge_to_event,
                   [p \in DOMAIN EdgesInto({Start(r)}, End(r), "operator", FALSE)
                            \cup DOMAIN EdgesInto(IF delayed THEN previous ELSE {}, Start(r), "kernel delay", FALSE)
                      |-> p[1].of.index])
      BY <1>4, Zenon DEF AddKernel
    <3>2. (IF delayed THEN previous ELSE {}) \subseteq {last_on[s] : s \in DOMAIN last_on}
      OBVIOUS
    <3> HIDE DEF previous
    <3> QED
      BY <3>1, <3>2, Zenon
  <2> DEFINE pairs == DOMAIN EdgesInto({Start(r)}, End(r), "operator", FALSE)
                        \cup DOMAIN EdgesInto(D, Start(r), "kernel delay", FALSE)
             new == [p \in pairs |-> p[1].of.index]
  <2>3. \A p \in pairs : \/ p = <<Start(r), End(r)>>
                         \/ \E m \in D : p = <<m, Start(r)>>
    BY DEF EdgesInto
  <2>4. edge_to_event' = With(edge_to_event, new) /\ DOMAIN new = pairs
        /\ \A p \in pairs : new[p] = p[1].of.index
    BY <2>2
  <2> HIDE DEF pairs, new
  <2>5. ASSUME NEW p \in pairs PROVE new[p] # e.index /\ p \notin DOMAIN edge_to_event
    <3>1. p[2].of = r /\ (p[2].start \/ p[1].start)
      BY <2>3, NodeFields
    <3>2. p[1].of \in full /\ p[1].of.stream # -1
      <4>1. CASE p = <<Start(r), End(r)>>
        BY <1>2, <2>1, <4>1, NodeFields DEF Rows
      <4>2. CASE \E m \in D : p = <<m, Start(r)>>
        <5>0. PICK m \in D : p = <<m, Start(r)>>
          BY <4>2
        <5>1. PICK s \in DOMAIN last_on : p[1] = last_on[s]
          BY <2>2, <5>0
        <5> QED
          BY <1>2, <5>1, NodeOfTrace DEF GpuEnd
      <4> QED
        BY <2>3, <4>1, <4>2
    <3>3. new[p] # e.index
      BY <1>2, <2>4, <3>2, UniqueIndex
    <3>4. ~HostPair(p)
      <4>1. \A m \in HostNodes : m.of.stream = -1
        BY NodeCases DEF HostNodes, HostRows
      <4> QED
        BY <2>1, <3>1, <4>1 DEF HostPair
    <3>5. ~KernelPair(p) /\ ~SyncPair(p)
      BY <1>1, <3>1 DEF KernelPair, SyncPair, GpuEnd
    <3> QED
      BY <1>2, <3>3, <3>4, <3>5
  <2> QED
    BY <2>4, <2>5, WithDomain DEF Credited
<1> QED
  BY <1>1, <1>3, <1>4

(* The kernels and the search leave the credits of the host.               *)
LEMMA LastSelf ==
  IInv /\ Typed /\ SelfInv /\ (PassDeviceRow \/ FinishKernels \/ FindPath) => SelfInv'
<1> SUFFICES ASSUME IInv, Typed, SelfInv, PassDeviceRow \/ FinishKernels \/ FindPath PROVE SelfInv'
  OBVIOUS
<1>1. Kept /\ trace' = trace /\ Nested(trace) /\ Rows
  BY PassDeviceRowStep, LastSteps DEF PassDeviceRow, FinishKernels, FindPath, SelfInv, IInv
<1>2. /\ pc \in {"kernels", "built"}
      /\ pc' \in {"kernels", "built", "raised", "returned"}
  BY DEF PassDeviceRow, SyncHost, SyncStream, AddKernel, FinishKernels, FindPath
<1>3. ASSUME NEW e, Measured(e) PROVE SelfCredit(e)'
  <2>1. Credited(e)' = Credited(e)
    <3>1. CASE PassDeviceRow
      BY <1>3, <3>1, KernelsCreditKernels
    <3>2. CASE FinishKernels \/ FindPath
      BY <3>2 DEF FinishKernels, FindPath, graph, Credited
    <3> QED
      BY <3>1, <3>2
  <2>2. Credit(e)' = Credit(e)
    BY <1>1, <2>1, CreditKept
  <2>3. SelfCredit(e)
    BY <1>2, <1>3 DEF SelfInv, AfterCredit
  <2> QED
    BY <1>1, <2>2, <2>3, SameTrace DEF SelfCredit
<1> QED
  BY <1>1, <1>2, <1>3, SameTrace DEF SelfInv, Replayed, Linked, BeforeCredit, AfterCredit, OpenCredit

(* A step that changes nothing.                                            *)
LEMMA StutterSelf == SelfInv /\ UNCHANGED vars => SelfInv'
<1> SUFFICES ASSUME SelfInv, UNCHANGED vars PROVE SelfInv'
  OBVIOUS
<1> USE DEF vars, input, locals, graph
<1>1. Nested(trace)' /\ Replayed'
  BY DEF SelfInv, Replayed, OneThread, PassedFirst, StackIsOpen, StackNests, OpenRows
<1>2. Linked'
  BY SameTrace DEF SelfInv, Linked, TopIsCredited, CreditedIsTop, CreditsNext
<1>3. \A e : Credited(e)' = Credited(e) /\ Credit(e)' = Credit(e)
  BY DEF Credited, Credit, Weights
<1>4. \A e : (SelfCredit(e)' <=> SelfCredit(e)) /\ ClosedChildren(e)' = ClosedChildren(e)
  BY <1>3, SameTrace DEF SelfCredit, ClosedChildren
<1>5. \A e : (NotBegun(e)' <=> NotBegun(e)) /\ (Closed(e)' <=> Closed(e))
  BY DEF NotBegun, Closed
<1>6. BeforeCredit' /\ AfterCredit'
  BY <1>3, <1>4, <1>5, SameTrace DEF SelfInv, BeforeCredit, AfterCredit
<1>7. \A i : Frontier(i)' = Frontier(i)
  BY DEF Frontier
<1>8. OpenCredit'
  BY <1>3, <1>4, <1>7, SameTrace DEF SelfInv, OpenCredit
<1> QED
  BY <1>1, <1>2, <1>6, <1>8 DEF SelfInv

(* The invariant holds at the start, and every step keeps it.             *)
LEMMA SelfInductive ==
  IInv /\ Typed /\ SelfInv /\ WindowsNest /\ RowsNumbered /\ NoneApart /\ [Next]_vars => SelfInv'
  BY ClipSelf, PassLockSelf, FinishLocksSelf, StartThreadSelf, ReplayEndSelf, FinishThreadSelf,
     LastSelf, StutterSelf
  DEF Next

LEMMA SelfBegins == Init => SelfInv
<1> SUFFICES ASSUME Init PROVE SelfInv
  OBVIOUS
<1>1. pc = "clip" /\ Nested(trace)
  BY DEF Init, Nested, HostRows
<1> QED
  BY <1>1 DEF SelfInv, Replayed, Linked, BeforeCredit, AfterCredit, OpenCredit

(* For every trace in which the events of one thread are calls of one      *)
(* another, every window and choice of options: the edges credited to an   *)
(* event last as long as the event without its children, unless the locks  *)
(* or a synchronization answer for it (_attribute_edge).                   *)
THEOREM SelfTimesAddUp ==
  ASSUME WindowsNest, RowsNumbered, NoneApart
  PROVE  Spec => []SelfTime
<1>1. Init => SelfInv
  BY SelfBegins
<1>2. IInv /\ Typed /\ SelfInv /\ [Next]_vars => SelfInv'
  BY SelfInductive
<1>3. IInv /\ Typed /\ SelfInv => SelfTime
  <2> SUFFICES ASSUME IInv, Typed, SelfInv, pc = "built", NEW e \in HostRows(trace),
                      HasNodes(e) /\ ~Locks(e) /\ ~Blocks(e) /\ (\A d \in Inside(e) : HasNodes(d))
               PROVE  WeightsSummed(Credited(e)) = e.dur - DursSummed(ChildrenOf(e))
    BY DEF SelfTime, WeightsSummed, DursSummed, Credited
  <2>1. SelfCredit(e)
    BY DEF SelfInv, AfterCredit, Measured
  <2>2. Rows /\ ChildrenOf(e) \subseteq trace
    BY DEF IInv, ChildrenOf, Inside, HostRows
  <2>3. IsFiniteSet(Credited(e)) /\ Credited(e) \subseteq DOMAIN edges /\ IsFiniteSet(ChildrenOf(e))
    BY <2>2, CreditedFinite, DurationFacts
  <2>4. PICK C, D : C = Credited(e) /\ D = ChildrenOf(e)
    OBVIOUS
  <2>5. WeightsSummed(C) = SumFunctionOnSet(Weights, C)
    BY <2>3, <2>4, WeightsSummedIs
  <2>6. DursSummed(D) = DurationOf(D)
    BY <2>2, <2>3, <2>4, DursSummedIs
  <2> QED
    BY <2>1, <2>4, <2>5, <2>6 DEF SelfCredit, Credit
<1>4. IInv /\ Typed /\ [Next]_vars => Typed'
  BY ClipTyped, LocksTyped, ThreadsTyped, ReplayTyped, DeviceTyped, EndTyped DEF Next
<1> QED
  BY InitTyped, <1>1, <1>2, <1>3, <1>4, Inductive, PTL DEF Spec

-----------------------------------------------------------------------------
(* Paths.  Every edge leads forward in an order of the nodes: by time, and *)
(* at one time from ends on the device over nodes of the host to starts on *)
(* the device.                                                             *)

Finish(e) == e.ts + e.dur
Kernels(rows) == {k \in DeviceRows(rows) : ~IsSync(k)}

(* What runs on the device is linked to a call of the host, and a kernel   *)
(* does not start before its launch.                                       *)
LinkedToHost(rows) ==
  \A r \in DeviceRows(rows), c \in rows :
    c.index = r.index_correlation => c.stream = -1 /\ (~IsSync(r) => c.ts <= r.ts)

(* The kernels of a stream last, and run one after the other.              *)
KernelsInTurn(rows) ==
  \A k \in Kernels(rows) :
    /\ k.dur > 0
    /\ \A l \in Kernels(rows) : l.stream = k.stream /\ l # k /\ l.ts >= k.ts => l.ts >= Finish(k)

(* A call that synchronizes returns after the kernels it waited for: the   *)
(* last before the event, or those that started before it returned.        *)
Awaited(rows, r) ==
  IF r.name = "Event Sync"
  THEN {k \in rows : \E c \in PreviousLaunch(rows, r) : k.index = c.index_correlation}
  ELSE {k \in Kernels(rows) : k.ts <= Finish(r) /\ (r.name = "Stream Sync" => k.stream = r.stream)}
CallsWait(rows) ==
  \A r \in DeviceRows(rows), c \in rows :
    IsSync(r) /\ r.name # "Stream Wait Event" /\ c.index = r.index_correlation =>
      \A k \in Awaited(rows, r) : Finish(k) <= Finish(c)

(* A stream waits for an event of another one: what it runs next starts    *)
(* after what ran before the event.                                        *)
StreamsWait(rows) ==
  \A r \in DeviceRows(rows) :
    r.name = "Stream Wait Event" /\ (\E c \in rows : c.index = r.index_correlation) =>
      \A c \in PreviousLaunch(rows, r), d \in NextLaunch(rows, r), k, l \in rows :
        k.index = c.index_correlation /\ l.index = d.index_correlation =>
          k.stream # l.stream /\ Finish(k) <= l.ts

(* What the device does is in the order that CUDA promises.                *)
DevicesInOrder ==
  \A rows \in Traces : LinkedToHost(rows) /\ KernelsInTurn(rows) /\ CallsWait(rows) /\ StreamsWait(rows)

(* The calls of one thread that take the lock come in one order in the two *)
(* sorts, by time and index and by the ends of events.                     *)
LocksInOrder(rows) ==
  \A m, n \in LockNodes(rows) :
    m # n /\ ThreadOf(rows, m.of) = ThreadOf(rows, n.of) /\ EventBefore(m, n) => NodeBefore(m, n)
LocksAgree ==
  \A rows \in Traces, a \in Asked : LocksInOrder(Clipped(rows, Instances(rows, a.first, a.last)))

-----------------------------------------------------------------------------
(* The order of the nodes. *)

Sooner(m, n) == m # n /\ ThreadOf(trace, m.of) = ThreadOf(trace, n.of) /\ EventBefore(m, n)

(* On the host: in the order of a thread, or over calls that take the lock. *)
HostBefore(m, n) ==
  \/ Sooner(m, n)
  \/ \E a, b \in LockNodes(trace) :
       (m = a \/ Sooner(m, a)) /\ NodeBefore(a, b) /\ (b = n \/ Sooner(b, n))

Turn(n) == IF n.of.stream = -1 THEN 1 ELSE IF n.start THEN 2 ELSE 0
Precedes(m, n) ==
  \/ Ts(m) < Ts(n)
  \/ Ts(m) = Ts(n) /\ Turn(m) < Turn(n)
  \/ Ts(m) = Ts(n) /\ Turn(m) = 1 /\ Turn(n) = 1 /\ HostBefore(m, n)

(* An end of an event of the host, as a record.                            *)
LEMMA HostEnds ==
  ASSUME Rows, RowsNumbered, NEW n \in HostNodes
  PROVE  /\ n.of \in HostRows(trace) /\ n.start \in BOOLEAN /\ Lasting(n.of) /\ Ts(n) \in Int
         /\ n.start => n = Start(n.of) /\ EventEnd(n) = OpenEnd(n.of) /\ Ts(n) = n.of.ts
         /\ ~n.start => n = End(n.of) /\ EventEnd(n) = CloseEnd(n.of) /\ Ts(n) = n.of.ts + n.of.dur
<1>1. /\ n.of \in HostRows(trace) /\ n.start \in BOOLEAN
      /\ n.start => n = Start(n.of)
      /\ ~n.start => n = End(n.of)
  BY NodeCases DEF HostNodes
<1>2. Lasting(n.of)
  BY <1>1, HostLasting
<1> QED
  BY <1>1, <1>2 DEF Ts, EventEnd, Lasting

(* Two nodes of the host are compared by time, and at one time by what     *)
(* they are of.                                                            *)
LEMMA HostCompared ==
  ASSUME Rows, RowsNumbered, NEW m \in HostNodes, NEW n \in HostNodes, m # n
  PROVE  EventBefore(m, n) <=>
           \/ Ts(m) < Ts(n)
           \/ /\ Ts(m) = Ts(n)
              /\ \/ ~m.start /\ n.start
                 \/ /\ m.start /\ n.start
                    /\ m.of.dur > n.of.dur \/ (m.of.dur = n.of.dur /\ m.of.index < n.of.index)
                 \/ /\ ~m.start /\ ~n.start
                    /\ m.of.dur < n.of.dur \/ (m.of.dur = n.of.dur /\ m.of.index > n.of.index)
<1>1. CASE m.of = n.of
  <2>1. m.start # n.start
    BY <1>1, HostEnds
  <2> QED
    BY <1>1, <2>1, HostEnds DEF EventBefore, LessThan, OpenEnd, CloseEnd, Open, Close, Lasting
<1>2. CASE m.of # n.of
  <2>1. m.of.index # n.of.index
    BY <1>2, HostEnds, HostIndex
  <2> DEFINE d == m.of
             e == n.of
  <2>2. Lasting(d) /\ Lasting(e) /\ d.index # e.index
    BY <2>1, HostEnds
  <2> USE DEF LessThan, LessThanAtSameTime, OpenEnd, CloseEnd, Open, Close, Lasting
  <2>3. CASE m.start /\ n.start
    <3>1. EventBefore(m, n) <=> LessThan(OpenEnd(d), OpenEnd(e))
      BY <2>3, HostEnds DEF EventBefore
    <3> HIDE DEF d, e
    <3>2. LessThan(OpenEnd(d), OpenEnd(e)) <=>
            d.ts < e.ts \/ (d.ts = e.ts /\ (d.dur > e.dur \/ (d.dur = e.dur /\ d.index < e.index)))
      BY <2>2
    <3> QED
      BY <2>2, <2>3, <3>1, <3>2, HostEnds DEF d, e
  <2>4. CASE m.start /\ ~n.start
    <3>1. EventBefore(m, n) <=> LessThan(OpenEnd(d), CloseEnd(e))
      BY <2>4, HostEnds DEF EventBefore
    <3> HIDE DEF d, e
    <3>2. LessThan(OpenEnd(d), CloseEnd(e)) <=> d.ts < e.ts + e.dur
      BY <2>2
    <3> QED
      BY <2>2, <2>4, <3>1, <3>2, HostEnds DEF d, e
  <2>5. CASE ~m.start /\ n.start
    <3>1. EventBefore(m, n) <=> LessThan(CloseEnd(d), OpenEnd(e))
      BY <2>5, HostEnds DEF EventBefore
    <3> HIDE DEF d, e
    <3>2. LessThan(CloseEnd(d), OpenEnd(e)) <=> d.ts + d.dur <= e.ts
      BY <2>2
    <3> QED
      BY <2>2, <2>5, <3>1, <3>2, HostEnds DEF d, e
  <2>6. CASE ~m.start /\ ~n.start
    <3>1. EventBefore(m, n) <=> LessThan(CloseEnd(d), CloseEnd(e))
      BY <2>6, HostEnds DEF EventBefore
    <3> HIDE DEF d, e
    <3>2. LessThan(CloseEnd(d), CloseEnd(e)) <=>
            \/ d.ts + d.dur < e.ts + e.dur
            \/ d.ts + d.dur = e.ts + e.dur /\ (d.dur < e.dur \/ (d.dur = e.dur /\ d.index > e.index))
      BY <2>2
    <3> QED
      BY <2>2, <2>6, <3>1, <3>2, HostEnds DEF d, e
  <2> QED
    BY <2>3, <2>4, <2>5, <2>6, HostEnds
<1> QED
  BY <1>1, <1>2

LEMMA SoonerIsOrder ==
  ASSUME Rows, RowsNumbered, NEW m \in HostNodes, NEW n \in HostNodes, Sooner(m, n)
  PROVE  /\ Ts(m) <= Ts(n) /\ ~Sooner(n, m) /\ ~Sooner(m, m)
         /\ \A o \in HostNodes : Sooner(n, o) => Sooner(m, o)
<1>1. m # n /\ EventBefore(m, n) /\ ThreadOf(trace, m.of) = ThreadOf(trace, n.of)
  BY DEF Sooner
<1>2. Ts(m) \in Int /\ Ts(n) \in Int /\ Lasting(m.of) /\ Lasting(n.of) /\ m.start \in BOOLEAN /\ n.start \in BOOLEAN
  BY HostEnds
<1>3. Ts(m) <= Ts(n) /\ ~EventBefore(n, m)
  BY <1>1, <1>2, HostCompared DEF Lasting
<1>4. ASSUME NEW o \in HostNodes, Sooner(n, o) PROVE Sooner(m, o)
  <2>1. n # o /\ EventBefore(n, o) /\ ThreadOf(trace, n.of) = ThreadOf(trace, o.of)
    BY <1>4 DEF Sooner
  <2>2. Ts(o) \in Int /\ Lasting(o.of) /\ o.start \in BOOLEAN
    BY HostEnds
  <2>3. m # o
    BY <1>3, <2>1
  <2>4. EventBefore(m, o)
    BY <1>1, <1>2, <2>1, <2>2, <2>3, HostCompared DEF Lasting
  <2> QED
    BY <1>1, <2>1, <2>3, <2>4 DEF Sooner
<1> QED
  BY <1>3, <1>4 DEF Sooner

LEMMA NodeBeforeIsOrder ==
  ASSUME Rows, RowsNumbered, NEW m \in HostNodes, NEW n \in HostNodes
  PROVE  /\ NodeBefore(m, n) => Ts(m) <= Ts(n)
         /\ ~NodeBefore(m, m)
         /\ \A o \in HostNodes : NodeBefore(m, n) /\ NodeBefore(n, o) => NodeBefore(m, o)
<1>1. \A o \in HostNodes : Ts(o) \in Int /\ o.of.index \in Nat /\ o.start \in BOOLEAN
  BY HostEnds DEF Lasting
<1> QED
  BY <1>1 DEF NodeBefore

LEMMA HostBeforeIsOrder ==
  ASSUME Rows, RowsNumbered, LocksInOrder(trace), NEW m \in HostNodes, NEW n \in HostNodes, HostBefore(m, n)
  PROVE  /\ Ts(m) <= Ts(n) /\ m # n
         /\ \A o \in HostNodes : HostBefore(n, o) => HostBefore(m, o)
<1> DEFINE L == LockNodes(trace)
           Until(x, y) == x = y \/ Sooner(x, y)
           Over(x, y, a, b) == Until(x, a) /\ NodeBefore(a, b) /\ Until(b, y)
<1>1. \A a \in L : a \in HostNodes
  BY LocksOfHost
<1>2. \A x, y \in HostNodes : HostBefore(x, y) <=> Sooner(x, y) \/ \E a, b \in L : Over(x, y, a, b)
  BY DEF HostBefore
<1>3. \A a, b \in L : Until(a, b) => a = b \/ NodeBefore(a, b)
  BY DEF LocksInOrder, Sooner
<1>4. \A x, y, z \in HostNodes : Until(x, y) /\ Until(y, z) => Until(x, z)
  BY SoonerIsOrder
<1>5. \A x, y \in HostNodes : Until(x, y) => Ts(x) <= Ts(y) /\ Ts(x) \in Int /\ Ts(y) \in Int
  BY SoonerIsOrder, HostEnds
<1>6. \A x, y, z \in HostNodes : NodeBefore(x, y) /\ NodeBefore(y, z) => NodeBefore(x, z)
  BY NodeBeforeIsOrder
<1>7. \A x, y \in HostNodes : NodeBefore(x, y) => Ts(x) <= Ts(y) /\ x # y
  BY NodeBeforeIsOrder
<1>8. \A x, y \in HostNodes : Sooner(x, y) => Until(x, y) /\ x # y
  BY DEF Sooner
<1>9. \A x, y, z \in HostNodes : Sooner(x, y) /\ Sooner(y, z) => Sooner(x, z)
  BY SoonerIsOrder
<1> HIDE DEF L, Until
<1>10. Ts(m) <= Ts(n) /\ m # n
  <2>1. CASE Sooner(m, n)
    BY <1>5, <1>8, <2>1
  <2>2. CASE \E a, b \in L : Over(m, n, a, b)
    <3>1. PICK a \in L, b \in L : Until(m, a) /\ NodeBefore(a, b) /\ Until(b, n)
      BY <2>2
    <3>2. a \in HostNodes /\ b \in HostNodes
      BY <1>1
    <3>3. Ts(m) <= Ts(n)
      <4>1. Ts(m) <= Ts(a) /\ Ts(m) \in Int /\ Ts(a) \in Int
        BY <1>5, <3>1, <3>2
      <4>2. Ts(b) <= Ts(n) /\ Ts(b) \in Int /\ Ts(n) \in Int
        BY <1>5, <3>1, <3>2
      <4>3. Ts(a) <= Ts(b)
        BY <1>7, <3>1, <3>2
      <4> QED
        BY <4>1, <4>2, <4>3
    <3>4. m # n
      <4> SUFFICES ASSUME m = n PROVE FALSE
        OBVIOUS
      <4>1. Until(b, a)
        BY <1>4, <3>1, <3>2
      <4>2. b = a \/ NodeBefore(b, a)
        BY <1>3, <4>1
      <4> QED
        BY <1>6, <1>7, <3>1, <3>2, <4>2
    <3> QED
      BY <3>3, <3>4
  <2> QED
    BY <1>2, <2>1, <2>2
<1>11. ASSUME NEW o \in HostNodes, HostBefore(n, o) PROVE HostBefore(m, o)
  <2>1. CASE Sooner(m, n) /\ Sooner(n, o)
    BY <1>2, <1>9, <2>1
  <2>2. ASSUME Sooner(m, n), NEW a \in L, NEW b \in L, Over(n, o, a, b) PROVE HostBefore(m, o)
    <3>1. Until(m, a)
      BY <1>1, <1>4, <1>8, <2>2
    <3> QED
      BY <1>2, <2>2, <3>1
  <2>3. ASSUME Sooner(n, o), NEW a \in L, NEW b \in L, Over(m, n, a, b) PROVE HostBefore(m, o)
    <3>1. Until(b, o)
      BY <1>1, <1>4, <1>8, <2>3
    <3> QED
      BY <1>2, <2>3, <3>1
  <2>4. ASSUME NEW a \in L, NEW b \in L, Over(m, n, a, b), NEW c \in L, NEW d \in L, Over(n, o, c, d)
        PROVE  HostBefore(m, o)
    <3>1. a \in HostNodes /\ b \in HostNodes /\ c \in HostNodes /\ d \in HostNodes
      BY <1>1
    <3>2. b = c \/ NodeBefore(b, c)
      <4>1. Until(b, c)
        BY <1>4, <2>4, <3>1
      <4> QED
        BY <1>3, <4>1
    <3>3. NodeBefore(a, d)
      BY <1>6, <2>4, <3>1, <3>2
    <3> QED
      BY <1>2, <2>4, <3>3
  <2> QED
    BY <1>2, <1>11, <2>1, <2>2, <2>3, <2>4
<1> QED
  BY <1>10, <1>11

(* The nodes of the graph are in a strict order.                           *)
LEMMA PrecedesIsOrder ==
  ASSUME Rows, RowsNumbered, LocksInOrder(trace), NEW m \in GraphNodes, NEW n \in GraphNodes, Precedes(m, n)
  PROVE  /\ Ts(m) <= Ts(n) /\ m # n
         /\ \A o \in GraphNodes : Precedes(n, o) => Precedes(m, o)
<1>1. \A x \in GraphNodes : Ts(x) \in Int /\ Turn(x) \in Int /\ (Turn(x) = 1 => x \in HostNodes)
  <2> SUFFICES ASSUME NEW x \in GraphNodes
               PROVE  Ts(x) \in Int /\ Turn(x) \in Int /\ (Turn(x) = 1 => x \in HostNodes)
    OBVIOUS
  <2>1. x \in NodesOf(trace) /\ x \in Nodes(trace)
    BY DEF GraphNodes, NodesOf
  <2>2. Ts(x) \in Int /\ x.of \in trace
    BY <2>1, NodeOfTrace
  <2>3. ASSUME Turn(x) = 1 PROVE x \in HostNodes
    <3>1. x.of \in HostRows(trace)
      BY <2>2, <2>3 DEF Turn, HostRows
    <3> QED
      BY <2>1, <3>1, NodeCases, NodesIn DEF HostNodes
  <2> QED
    BY <2>2, <2>3 DEF Turn
<1>2. Ts(m) <= Ts(n)
  BY <1>1 DEF Precedes
<1>3. m # n
  BY <1>1, HostBeforeIsOrder DEF Precedes
<1>4. ASSUME NEW o \in GraphNodes, Precedes(n, o) PROVE Precedes(m, o)
  <2>1. CASE Ts(m) = Ts(n) /\ Turn(m) = 1 /\ Turn(n) = 1 /\ HostBefore(m, n)
             /\ Ts(n) = Ts(o) /\ Turn(o) = 1 /\ HostBefore(n, o)
    BY <1>1, <2>1, HostBeforeIsOrder DEF Precedes
  <2>2. Ts(m) \in Int /\ Ts(n) \in Int /\ Ts(o) \in Int /\ Turn(m) \in Int /\ Turn(n) \in Int /\ Turn(o) \in Int
    BY <1>1
  <2> HIDE DEF Turn
  <2> QED
    BY <1>4, <2>1, <2>2 DEF Precedes
<1> QED
  BY <1>2, <1>3, <1>4

-----------------------------------------------------------------------------
(* What an edge is: it leads forward, weighs the time it takes or nothing, *)
(* and a synchronization joins different streams.                          *)
Onward(m, n, edge) ==
  /\ Precedes(m, n)
  /\ edge.weight = 0 \/ edge.weight = Ts(n) - Ts(m)
  /\ edge.type = "sync" => m.of.stream # n.of.stream
Forward == \A p \in DOMAIN edges : Onward(p[1], p[2], edges[p])

(* The sets of the ends of walks, edge by edge.                            *)
LEMMA WalkSteps ==
  ASSUME Typed
  PROVE  /\ Walks[0] = GraphNodes
         /\ \A k \in Nat : /\ Walks[k] \subseteq GraphNodes
                           /\ Walks[k + 1] = {p[2] : p \in {q \in DOMAIN edges : q[1] \in Walks[k]}}
<1> DEFINE D == SUBSET GraphNodes
           longer(b) == {p[2] : p \in {q \in DOMAIN edges : q[1] \in b}}
           step == [b \in D |-> longer(b)]
<1>1. \A b \in D : longer(b) \in D
  BY WeightsOfEdges
<1>2. GraphNodes \in D /\ step \in [D -> D] /\ \A b \in D : step[b] = longer(b)
  <2> HIDE DEF longer
  <2> QED
    BY <1>1
<1>3. PICK f \in [Nat -> D] : f[0] = GraphNodes /\ \A k \in Nat : f[k + 1] = step[f[k]]
  <2> HIDE DEF D, step
  <2>1. PICK DD, bb, ss : DD = D /\ bb = GraphNodes /\ ss = step
    OBVIOUS
  <2>2. bb \in DD /\ ss \in [DD -> DD]
    BY <1>2, <2>1
  <2>3. \E f \in [Nat -> DD] : f[0] = bb /\ \A k \in Nat : f[k + 1] = ss[f[k]]
    BY <2>2, Iterates
  <2> QED
    BY <2>1, <2>3
<1>4. f = [k \in Nat |-> IF k = 0 THEN GraphNodes ELSE longer(f[k - 1])]
  <2>1. ASSUME NEW k \in Nat PROVE f[k] = IF k = 0 THEN GraphNodes ELSE longer(f[k - 1])
    <3>1. CASE k = 0
      BY <1>3, <3>1
    <3>2. CASE k # 0
      <4>1. k - 1 \in Nat /\ (k - 1) + 1 = k
        BY <3>2
      <4>2. f[k - 1] \in D /\ f[(k - 1) + 1] = step[f[k - 1]]
        BY <1>3, <4>1
      <4> HIDE DEF D, longer, step
      <4> QED
        BY <1>2, <3>2, <4>1, <4>2
    <3> QED
      BY <3>1, <3>2
  <2> HIDE DEF D, longer
  <2> QED
    BY <1>3, <2>1
<1>5. Walks = [k \in Nat |-> IF k = 0 THEN GraphNodes ELSE longer(Walks[k - 1])]
  BY <1>4 DEF Walks
<1>6. ASSUME NEW k \in Nat PROVE Walks[k + 1] = longer(Walks[k])
  <2>1. k + 1 \in Nat /\ k + 1 # 0 /\ (k + 1) - 1 = k
    OBVIOUS
  <2> HIDE DEF longer
  <2> QED
    BY <1>5, <2>1
<1>7. Nat \subseteq {k \in Nat : Walks[k] \in D}
  <2> DEFINE S == {k \in Nat : Walks[k] \in D}
  <2> HIDE DEF D, longer
  <2>1. 0 \in S
    BY <1>2, <1>5
  <2>2. ASSUME NEW k \in Nat, k \in S PROVE k + 1 \in S
    BY <1>1, <1>6, <2>2
  <2> HIDE DEF S
  <2>3. Nat \subseteq S
    BY <2>1, <2>2, Naturals
  <2> QED
    BY <2>3 DEF S
<1>8. Walks[0] = GraphNodes
  <2> HIDE DEF longer
  <2> QED
    BY <1>5
<1> QED
  BY <1>6, <1>7, <1>8

(* A walk of k edges comes to a node that k nodes precede, so none is as   *)
(* long as the graph has nodes.                                            *)
LEMMA NoCycles ==
  ASSUME Rows, Typed, RowsNumbered, LocksInOrder(trace), Forward
  PROVE  ~HasCycles
<1> DEFINE Below(n) == {m \in GraphNodes : Precedes(m, n)}
           S == {k \in Nat : \A n \in Walks[k] : k <= Cardinality(Below(n))}
<1>1. \A n : Below(n) \subseteq GraphNodes /\ IsFiniteSet(Below(n)) /\ Cardinality(Below(n)) \in Nat
  BY FinitelyManyNodes, FS_Subset, FS_CardinalityType
<1>2. 0 \in S
  BY <1>1
<1>3. ASSUME NEW k \in Nat, k \in S PROVE k + 1 \in S
  <2> SUFFICES ASSUME NEW n \in Walks[k + 1] PROVE k + 1 <= Cardinality(Below(n))
    OBVIOUS
  <2>1. PICK p \in DOMAIN edges : p[1] \in Walks[k] /\ p[2] = n
    BY WalkSteps
  <2>2. p[1] \in GraphNodes /\ n \in GraphNodes /\ Precedes(p[1], n)
    BY <2>1, WeightsOfEdges DEF Forward, Onward
  <2>3. k <= Cardinality(Below(p[1]))
    BY <1>3, <2>1
  <2>4. p[1] \notin Below(p[1])
    BY <2>2, PrecedesIsOrder
  <2>5. Below(p[1]) \cup {p[1]} \subseteq Below(n)
    BY <2>2, PrecedesIsOrder
  <2> HIDE DEF Below
  <2>6. Cardinality(Below(p[1]) \cup {p[1]}) = Cardinality(Below(p[1])) + 1
    BY <1>1, <2>4, FS_AddElement
  <2>7. Cardinality(Below(p[1]) \cup {p[1]}) <= Cardinality(Below(n))
    BY <1>1, <2>5, FS_Subset
  <2> QED
    BY <1>1, <2>3, <2>6, <2>7
<1>4. Nat \subseteq S
  <2> HIDE DEF S
  <2> QED
    BY <1>2, <1>3, Naturals
<1> DEFINE N == Cardinality(GraphNodes)
<1>5. N \in Nat /\ IsFiniteSet(GraphNodes)
  BY FinitelyManyNodes
<1>6. ASSUME NEW n \in Walks[N] PROVE FALSE
  <2>1. N <= Cardinality(Below(n))
    BY <1>4, <1>5
  <2>2. n \in GraphNodes
    BY <1>5, WalkSteps
  <2>3. n \notin Below(n)
    BY <2>2, PrecedesIsOrder
  <2> HIDE DEF Below
  <2>4. Cardinality(GraphNodes \ {n}) = N - 1 /\ IsFiniteSet(GraphNodes \ {n})
    BY <1>5, <2>2, FS_RemoveElement
  <2>5. Below(n) \subseteq GraphNodes \ {n}
    BY <1>1, <2>3
  <2>6. Cardinality(Below(n)) <= Cardinality(GraphNodes \ {n})
    BY <2>4, <2>5, FS_Subset
  <2> QED
    BY <1>1, <1>5, <2>1, <2>4, <2>6
<1> QED
  BY <1>6 DEF HasCycles

(* A walk does not last longer than from the first node to its end.        *)
LEMMA WalksFit ==
  ASSUME Rows, Typed, RowsNumbered, LocksInOrder(trace), Forward,
         NEW first \in GraphNodes, \A n \in GraphNodes : Ts(first) <= Ts(n), NEW k \in Nat
  PROVE  \A n \in GraphNodes : Dist[k][n] <= Ts(n) - Ts(first)
<1> DEFINE S == {i \in Nat : \A n \in GraphNodes : Dist[i][n] <= Ts(n) - Ts(first)}
<1>1. \A n \in GraphNodes : Ts(n) \in Int
  BY NodeOfTrace DEF GraphNodes
<1>2. 0 \in S
  BY <1>1, DistSteps
<1>3. ASSUME NEW i \in Nat, i \in S PROVE i + 1 \in S
  <2> SUFFICES ASSUME NEW n \in GraphNodes PROVE Dist[i + 1][n] <= Ts(n) - Ts(first)
    OBVIOUS
  <2> DEFINE into == {q \in DOMAIN edges : q[2] = n}
             f == [p \in into |-> Dist[i][p[1]] + WeightOf(p)]
             lengths == {0} \cup {f[p] : p \in into}
  <2>1. Dist[i + 1][n] = Max({0} \cup {Dist[i][p[1]] + WeightOf(p) : p \in into})
    BY DistSteps
  <2>2. {Dist[i][p[1]] + WeightOf(p) : p \in into} = {f[p] : p \in into}
    OBVIOUS
  <2>3. Dist[i + 1][n] = Max(lengths)
    <3> HIDE DEF into, f
    <3> QED
      BY <2>1, <2>2
  <2>4. \A p \in into : f[p] \in Int /\ f[p] <= Ts(n) - Ts(first)
    <3> SUFFICES ASSUME NEW p \in into PROVE f[p] \in Int /\ f[p] <= Ts(n) - Ts(first)
      OBVIOUS
    <3>1. p[1] \in GraphNodes /\ p[2] = n /\ WeightOf(p) \in Int /\ p \in DOMAIN edges
      BY WeightsOfEdges
    <3>2. Dist[i][p[1]] \in Int /\ Dist[i][p[1]] <= Ts(p[1]) - Ts(first)
      BY <1>3, <3>1, DistSteps
    <3>3. Precedes(p[1], n) /\ (edges[p].weight = 0 \/ edges[p].weight = Ts(n) - Ts(p[1]))
      BY <3>1 DEF Forward, Onward
    <3>4. Ts(p[1]) <= Ts(n)
      BY <3>1, <3>3, PrecedesIsOrder
    <3>5. WeightOf(p) <= Ts(n) - Ts(p[1])
      BY <1>1, <3>1, <3>3, <3>4 DEF WeightOf
    <3> HIDE DEF into
    <3> QED
      BY <1>1, <3>1, <3>2, <3>5
  <2>5. IsFiniteSet(into)
    BY EdgesFinite, FS_Subset
  <2>6. IsFiniteSet(lengths) /\ lengths \subseteq Int /\ lengths # {}
    <3>1. lengths \subseteq Int /\ lengths # {}
      <4> HIDE DEF f
      <4> QED
        BY <2>4
    <3>2. IsFiniteSet({f[p] : p \in into})
      <4> HIDE DEF f, into
      <4> QED
        BY <2>5, Image
    <3>3. IsFiniteSet({0})
      BY FS_Singleton
    <3> HIDE DEF f, into
    <3> QED
      BY <3>1, <3>2, <3>3, FS_Union
  <2>7. Max(lengths) \in lengths
    <3> HIDE DEF lengths
    <3> QED
      BY <2>6, Greatest
  <2>8. 0 <= Ts(n) - Ts(first)
    BY <1>1
  <2> HIDE DEF f, into
  <2> QED
    BY <2>3, <2>4, <2>7, <2>8
<1>4. Nat \subseteq S
  <2> HIDE DEF S
  <2> QED
    BY <1>2, <1>3, Naturals
<1> QED
  BY <1>4

LEMMA PathFits ==
  ASSUME Rows, Typed, RowsNumbered, LocksInOrder(trace), Forward, LongestPath # 0
  PROVE  \E m, n \in GraphNodes : LongestPath <= Ts(n) - Ts(m)
<1> DEFINE N == Cardinality(GraphNodes)
           dist == Dist[N]
           lengths == {0} \cup {dist[n] : n \in GraphNodes}
<1>1. N \in Nat /\ IsFiniteSet(GraphNodes)
  BY FinitelyManyNodes
<1>2. dist \in [GraphNodes -> Int]
  BY <1>1, DistSteps
<1>3. LongestPath = Max(lengths)
  BY DEF LongestPath
<1>4. IsFiniteSet(lengths) /\ lengths \subseteq Int /\ lengths # {}
  <2> HIDE DEF dist, N
  <2>1. IsFiniteSet({dist[n] : n \in GraphNodes})
    BY <1>1, Image
  <2>2. lengths \subseteq Int /\ lengths # {}
    BY <1>2
  <2>3. IsFiniteSet({0})
    BY FS_Singleton
  <2> QED
    BY <2>1, <2>2, <2>3, FS_Union
<1>5. Max(lengths) \in lengths
  <2> HIDE DEF lengths
  <2> QED
    BY <1>4, Greatest
<1>6. PICK n \in GraphNodes : LongestPath = dist[n]
  <2> HIDE DEF dist
  <2> QED
    BY <1>3, <1>5
<1> DEFINE time == [x \in GraphNodes |-> Ts(x)]
           times == {time[x] : x \in GraphNodes}
<1>7. \A x \in GraphNodes : Ts(x) \in Int /\ time[x] = Ts(x)
  BY NodeOfTrace DEF GraphNodes
<1>8. IsFiniteSet(times) /\ times \subseteq Int /\ times # {}
  <2>1. times \subseteq Int /\ times # {}
    BY <1>6, <1>7
  <2> HIDE DEF time
  <2> QED
    BY <1>1, <2>1, Image
<1>9. Min(times) \in times /\ \A t \in times : Min(times) <= t
  <2> HIDE DEF times
  <2> QED
    BY <1>8, LeastInteger
<1>10. PICK m \in GraphNodes : Min(times) = time[m]
  <2> HIDE DEF time
  <2> QED
    BY <1>9
<1>11. \A x \in GraphNodes : Ts(m) <= Ts(x)
  BY <1>7, <1>9, <1>10
<1>12. dist[n] <= Ts(n) - Ts(m)
  <2> HIDE DEF N
  <2> QED
    BY <1>1, <1>11, WalksFit
<1> QED
  BY <1>6, <1>12

(* The path of a graph whose edges lead forward.                           *)
LEMMA ForwardIsValid ==
  ASSUME Rows, Typed, RowsNumbered, LocksInOrder(trace), Forward
  PROVE  IsValid
<1>1. \A p \in DOMAIN edges : edges[p].weight \in Int /\ 0 <= edges[p].weight
  <2> SUFFICES ASSUME NEW p \in DOMAIN edges PROVE edges[p].weight \in Int /\ 0 <= edges[p].weight
    OBVIOUS
  <2>1. p[1] \in GraphNodes /\ p[2] \in GraphNodes
    BY WeightsOfEdges
  <2>2. Precedes(p[1], p[2]) /\ (edges[p].weight = 0 \/ edges[p].weight = Ts(p[2]) - Ts(p[1]))
    BY DEF Forward, Onward
  <2>3. Ts(p[1]) <= Ts(p[2]) /\ Ts(p[1]) \in Int /\ Ts(p[2]) \in Int
    BY <2>1, <2>2, PrecedesIsOrder, NodeOfTrace DEF GraphNodes
  <2> QED
    BY <2>2, <2>3
<1>2. ~NegativeWeights
  BY <1>1 DEF NegativeWeights
<1>3. ~SyncOnSameStream
  BY DEF SyncOnSameStream, Forward, Onward
<1> QED
  BY <1>2, <1>3, NoCycles DEF IsValid

-----------------------------------------------------------------------------
(* The passes over the host.  The loops go through the nodes in their      *)
(* orders, so an edge leads from a node that was passed to the next one.   *)
LocksPassed ==
  pc = "locks" =>
    \A n \in left : /\ \A m \in starts : NodeBefore(m, n)
                    /\ last_node # None => NodeBefore(last_node, n)
LastPassed ==
  pc = "replay" /\ last_node # None =>
    /\ last_node \notin left
    /\ \A n \in left : ThreadOf(trace, n.of) = ThreadOf(trace, last_node.of)

(* The last node of a stream is the end of one of its kernels, and what    *)
(* waits for a kernel is of another stream and starts after it.            *)
LastOn ==
  pc = "kernels" =>
    \A s \in DOMAIN last_on :
      \E k \in Handled : ~IsSync(k) /\ k.stream = s /\ last_on[s] = End(k)
Promised ==
  pc = "kernels" =>
    \A i \in DOMAIN kernel_sync :
      kernel_sync[i] # None =>
        \A k, l \in full :
          k.index = kernel_sync[i] /\ l.index = i =>
            k.stream # -1 /\ k.stream # l.stream /\ Finish(k) <= l.ts

Unfinished ==
  /\ pc \in {"clip", "locks", "threads", "replay"} => kernel_sync = << >>
  /\ pc \notin {"returned", "raised"} => result = None

PathInv ==
  /\ LocksInOrder(trace) /\ Forward
  /\ LocksPassed /\ LastPassed /\ LastOn /\ Promised
  /\ Unfinished /\ PathFitsWindow

LEMMA TurnOfHost == ASSUME Rows, RowsNumbered, NEW n \in HostNodes PROVE Turn(n) = 1 /\ Ts(n) \in Int
<1>1. n.of.stream = -1 /\ Ts(n) \in Int
  BY HostEnds DEF HostRows
<1> QED
  BY <1>1 DEF Turn

LEMMA HostForward ==
  ASSUME Rows, RowsNumbered, NEW m \in HostNodes, NEW n \in HostNodes,
         Sooner(m, n) \/ (m \in LockNodes(trace) /\ n \in LockNodes(trace) /\ NodeBefore(m, n))
  PROVE  Precedes(m, n)
<1>1. Turn(m) = 1 /\ Turn(n) = 1 /\ Ts(m) \in Int /\ Ts(n) \in Int
  BY TurnOfHost
<1>2. Ts(m) <= Ts(n)
  BY SoonerIsOrder, NodeBeforeIsOrder
<1>3. HostBefore(m, n)
  BY DEF HostBefore
<1> QED
  BY <1>1, <1>2, <1>3 DEF Precedes

LEMMA EdgeOnward ==
  ASSUME NEW m, NEW n, Precedes(m, n), NEW type, NEW zero_weight, type = "sync" => m.of.stream # n.of.stream
  PROVE  Onward(m, n, Edge(m, n, type, zero_weight))
  BY DEF Onward, Edge

LEMMA ForwardWith ==
  ASSUME Forward, UNCHANGED trace, NEW new, edges' = With(edges, new),
         \A p \in DOMAIN new : Onward(p[1], p[2], new[p])
  PROVE  Forward'
<1>1. \A m, n, edge : Onward(m, n, edge)' <=> Onward(m, n, edge)
  BY DEF Onward, Precedes, HostBefore, Sooner
<1>2. \A p \in DOMAIN edges' : Onward(p[1], p[2], edges'[p])
  BY WithDomain DEF Forward
<1> QED
  BY <1>1, <1>2 DEF Forward

LEMMA ForwardKept ==
  ASSUME Forward, UNCHANGED <<trace, edges>>
  PROVE  Forward'
  BY DEF Forward, Onward, Precedes, HostBefore, Sooner

LEMMA LocksKept ==
  ASSUME LocksInOrder(trace), UNCHANGED trace
  PROVE  LocksInOrder(trace)'
  BY DEF LocksInOrder

(* What fits the window does so as long as there is no other path.         *)
LEMMA FitsKept ==
  ASSUME PathFitsWindow, UNCHANGED <<trace, result>>
  PROVE  PathFitsWindow'
  BY DEF PathFitsWindow, GraphNodes

LEMMA ClipForward == IInv /\ Typed /\ LocksAgree /\ PathInv /\ Clip => PathInv'
<1> SUFFICES ASSUME IInv, Typed, LocksAgree, PathInv, Clip PROVE PathInv'
  OBVIOUS
<1> DEFINE instances == Instances(full, asked.first, asked.last)
<1>1. /\ pc = "clip" /\ Rows /\ Begun
      /\ UNCHANGED <<starts, last_node, last_on, kernel_sync, edges, result>>
  BY DEF IInv, Clip, locals, graph
<1>2. asked \in Asked /\ full \in Traces
  BY <1>1 DEF Typed, TypeOK, Rows
<1>3. /\ pc' \in {"locks", "returned", "raised"}
      /\ trace' = trace \/ trace' = Clipped(full, instances)
  BY DEF Clip
<1>4. LocksInOrder(trace)'
  <2>1. CASE trace' = trace
    BY <2>1, LocksKept DEF PathInv
  <2>2. CASE trace' = Clipped(full, instances)
    <3>1. LocksInOrder(Clipped(full, instances))
      BY <1>2 DEF LocksAgree
    <3> HIDE DEF instances
    <3>2. LocksInOrder(trace')
      BY <2>2, <3>1
    <3> QED
      BY <3>2 DEF LocksInOrder
  <2> QED
    BY <1>3, <2>1, <2>2
<1>5. Forward'
  BY <1>1 DEF Begun, Forward
<1>6. starts' = {} /\ last_node' = None /\ result' = None /\ kernel_sync' = << >>
  BY <1>1 DEF Begun, PathInv, Unfinished
<1>7. LocksPassed' /\ LastPassed' /\ LastOn' /\ Promised' /\ Unfinished' /\ PathFitsWindow'
  BY <1>3, <1>6 DEF LocksPassed, LastPassed, LastOn, Promised, Unfinished, PathFitsWindow
<1> QED
  BY <1>4, <1>5, <1>7 DEF PathInv

LEMMA PassLockForward == IInv /\ Typed /\ RowsNumbered /\ PathInv /\ PassLock => PathInv'
<1> SUFFICES ASSUME IInv, Typed, RowsNumbered, PathInv, PassLock PROVE PathInv'
  OBVIOUS
<1>1. /\ pc = "locks" /\ pc' = "locks" /\ Rows /\ LockPhase
      /\ UNCHANGED <<trace, kernel_sync, result>>
      /\ Forward /\ LocksPassed
  BY DEF IInv, PassLock, input, PathInv
<1>2. PICK n \in left :
        /\ \A m \in left \ {n} : NodeBefore(n, m)
        /\ left' = left \ {n} /\ last_node' = n
        /\ IF n.start
           THEN starts' = starts \cup {n} /\ UNCHANGED graph
           ELSE starts' = {} /\ edges' = With(edges, LockEdges(n))
  BY <1>1 DEF PassLock
<1>3. /\ \A m \in starts : NodeBefore(m, n) /\ m \in LockNodes(trace)
      /\ last_node # None => NodeBefore(last_node, n) /\ last_node \in LockNodes(trace)
      /\ n \in LockNodes(trace) /\ n \in HostNodes
  BY <1>1, LocksOfHost DEF LocksPassed, LockPhase
<1>4. Forward'
  <2>1. CASE n.start
    BY <1>1, <1>2, <2>1, ForwardKept DEF graph
  <2>2. CASE ~n.start
    <3> SUFFICES ASSUME NEW p \in DOMAIN LockEdges(n)
                 PROVE  Onward(p[1], p[2], LockEdges(n)[p])
      BY <1>1, <1>2, <2>2, ForwardWith
    <3>1. PICK m : p = <<m, n>> /\ (m \in starts \/ (m = last_node /\ last_node # None))
      BY DEF LockEdges
    <3>2. LockEdges(n)[p] = Edge(p[1], n, IF p[1].of = n.of THEN "operator" ELSE "dependency", FALSE)
      BY DEF LockEdges
    <3>3. m \in LockNodes(trace) /\ NodeBefore(m, n)
      BY <1>3, <3>1
    <3>4. Precedes(m, n)
      BY <1>1, <1>3, <3>3, LocksOfHost, HostForward
    <3>5. Onward(m, n, Edge(m, n, IF m.of = n.of THEN "operator" ELSE "dependency", FALSE))
      BY <3>4, EdgeOnward
    <3>6. p[1] = m /\ p[2] = n
      BY <3>1
    <3> HIDE DEF LockEdges
    <3> QED
      BY <3>2, <3>5, <3>6
  <2> QED
    BY <2>1, <2>2
<1>5. LocksPassed'
  BY <1>1, <1>2 DEF LocksPassed
<1>6. LocksInOrder(trace)' /\ PathFitsWindow'
  BY <1>1, LocksKept, FitsKept DEF PathInv
<1>7. LastPassed' /\ LastOn' /\ Promised' /\ Unfinished'
  BY <1>1 DEF LastPassed, LastOn, Promised, Unfinished, PathInv
<1> QED
  BY <1>4, <1>5, <1>6, <1>7 DEF PathInv

LEMMA OtherStepsForward ==
  IInv /\ PathInv /\ (FinishLocks \/ StartThread \/ FinishThread \/ StartKernels \/ FinishKernels \/ UNCHANGED vars)
    => PathInv'
<1> SUFFICES ASSUME IInv, PathInv,
                    FinishLocks \/ StartThread \/ FinishThread \/ StartKernels \/ FinishKernels \/ UNCHANGED vars
             PROVE  PathInv'
  OBVIOUS
<1>1. UNCHANGED <<full, trace, edges, result, last_on, kernel_sync>>
  BY DEF FinishLocks, StartThread, FinishThread, StartKernels, FinishKernels, vars, input, locals, graph
<1>2. LocksInOrder(trace)' /\ PathFitsWindow' /\ Forward'
  BY <1>1, LocksKept, FitsKept, ForwardKept DEF PathInv
<1>3. CASE UNCHANGED vars
  <2>1. UNCHANGED <<pc, left, starts, last_node>>
    BY <1>3 DEF vars, locals
  <2> QED
    BY <1>1, <1>2, <2>1
    DEF PathInv, LocksPassed, LastPassed, LastOn, Promised, Unfinished, Handled
<1>4. CASE FinishLocks \/ StartThread \/ FinishThread
  <2>1. /\ pc \in {"locks", "threads", "replay"} /\ pc' \in {"threads", "replay"}
        /\ pc' = "replay" => last_node' = None
    BY <1>4 DEF FinishLocks, StartThread, FinishThread
  <2> QED
    BY <1>1, <1>2, <2>1 DEF PathInv, LocksPassed, LastPassed, LastOn, Promised, Unfinished
<1>5. CASE StartKernels
  <2>1. pc = "threads" /\ pc' \in {"raised", "kernels"}
    BY <1>5 DEF StartKernels
  <2>2. last_on' = << >> /\ kernel_sync' = << >> /\ result' = None
    BY <1>1, <2>1 DEF IInv, KernelPhase, PathInv, Unfinished
  <2> QED
    BY <1>2, <2>1, <2>2 DEF PathInv, LocksPassed, LastPassed, LastOn, Promised, Unfinished
<1>6. CASE FinishKernels
  <2>1. pc = "kernels" /\ pc' = "built"
    BY <1>6 DEF FinishKernels
  <2> QED
    BY <1>1, <1>2, <2>1 DEF PathInv, LocksPassed, LastPassed, LastOn, Promised, Unfinished
<1> QED
  BY <1>3, <1>4, <1>5, <1>6

(* An edge of the traversal leads from the last node to the next.          *)
LEMMA LinkForward ==
  ASSUME IInv, RowsNumbered, Replayed, PathInv, pc = "replay", UNCHANGED trace,
         NEW n \in left, n \in HostNodes, NEW type, type # "sync", NEW zero_weight,
         Link(n, type, zero_weight)
  PROVE  Forward'
<1>1. Rows /\ Forward /\ PassedFirst /\ LastPassed
  BY DEF IInv, PathInv, Replayed
<1>2. CASE last_node # None /\ ~SharesLock(last_node, n)
  <2>1. edges' = With(edges, [p \in {<<last_node, n>>} |-> Edge(last_node, n, type, zero_weight)])
    BY <1>2 DEF Link, AddEdge
  <2>2. last_node \in HostNodes
    BY <1>2 DEF IInv, ReplayPhase
  <2>3. last_node \notin left /\ ThreadOf(trace, n.of) = ThreadOf(trace, last_node.of)
    BY <1>1, <1>2 DEF LastPassed
  <2>4. EventBefore(last_node, n)
    <3>1. /\ last_node.of \in HostRows(trace) /\ last_node.start \in BOOLEAN
          /\ last_node.start => last_node = Start(last_node.of)
          /\ ~last_node.start => last_node = End(last_node.of)
      BY <1>1, <2>2, HostEnds
    <3> QED
      BY <1>1, <2>3, <3>1 DEF PassedFirst
  <2>5. Precedes(last_node, n)
    BY <1>1, <2>2, <2>3, <2>4, HostForward DEF Sooner
  <2>6. Onward(last_node, n, Edge(last_node, n, type, zero_weight))
    BY <2>5, EdgeOnward
  <2> HIDE DEF Link
  <2> DEFINE new == [p \in {<<last_node, n>>} |-> Edge(last_node, n, type, zero_weight)]
  <2>7. \A p \in DOMAIN new : Onward(p[1], p[2], new[p])
    BY <2>6
  <2> HIDE DEF new
  <2>8. edges' = With(edges, new)
    BY <2>1 DEF new
  <2> QED
    BY <1>1, <2>7, <2>8, ForwardWith
<1>3. CASE ~(last_node # None /\ ~SharesLock(last_node, n))
  BY <1>1, <1>3, ForwardKept DEF Link, graph
<1> QED
  BY <1>2, <1>3

LEMMA ReplayEndForward == IInv /\ RowsNumbered /\ SelfInv /\ PathInv /\ ReplayEnd => PathInv'
<1> SUFFICES ASSUME IInv, RowsNumbered, SelfInv, PathInv, ReplayEnd PROVE PathInv'
  OBVIOUS
<1>1. /\ pc = "replay" /\ pc' = "replay" /\ Rows /\ Replayed
      /\ UNCHANGED <<full, trace, kernel_sync, result>>
  BY DEF IInv, ReplayEnd, input, SelfInv
<1>2. PICK n \in left :
        /\ left' = left \ {n} /\ n.of \in HostRows(trace) /\ n.start \in BOOLEAN
        /\ n.start => n = Start(n.of) /\ Enter(n.of, Top(stack))
        /\ ~n.start => n = End(n.of) /\ Exit(n.of, Top(Front(stack)))
  BY <1>1, ReplayParts
<1>3. n \in HostNodes
  BY <1>1 DEF IInv, ReplayPhase
<1>4. \/ UNCHANGED <<edges, last_node>>
      \/ /\ last_node' = n
         /\ \E type \in {"operator", "dependency"}, z \in BOOLEAN : Link(n, type, z)
  <2>1. CASE n.start
    BY <1>2, <2>1 DEF Enter, graph
  <2>2. CASE ~n.start
    <3>1. Blocks(n.of) \in BOOLEAN
      BY DEF Blocks
    <3> QED
      BY <1>2, <2>2, <3>1 DEF Exit, graph
  <2> QED
    BY <1>2, <2>1, <2>2
<1>5. Forward'
  BY <1>1, <1>3, <1>4, LinkForward, ForwardKept DEF PathInv
<1>6. LastPassed'
  <2>1. OneThread
    BY <1>1 DEF Replayed
  <2> QED
    BY <1>1, <1>2, <1>4, <2>1 DEF LastPassed, OneThread, PathInv
<1>7. LocksInOrder(trace)' /\ PathFitsWindow'
  BY <1>1, LocksKept, FitsKept DEF PathInv
<1>8. LocksPassed' /\ LastOn' /\ Promised' /\ Unfinished'
  BY <1>1 DEF LocksPassed, LastOn, Promised, Unfinished, PathInv
<1> QED
  BY <1>5, <1>6, <1>7, <1>8 DEF PathInv

LEMMA FindPathForward == IInv /\ Typed /\ RowsNumbered /\ PathInv /\ FindPath => PathInv'
<1> SUFFICES ASSUME IInv, Typed, RowsNumbered, PathInv, FindPath PROVE PathInv'
  OBVIOUS
<1>1. /\ Rows /\ LocksInOrder(trace) /\ Forward /\ PathFitsWindow
      /\ pc = "built" /\ pc' \in {"returned", "raised"}
      /\ UNCHANGED <<trace, edges>>
  BY DEF IInv, PathInv, FindPath, graph
<1>2. IsValid
  BY <1>1, ForwardIsValid
<1>3. \/ result' = result
      \/ LongestPath # 0 /\ result' = [success |-> TRUE, length |-> LongestPath]
  BY <1>2 DEF FindPath
<1>4. PathFitsWindow'
  <2>1. CASE result' = result
    BY <1>1, <2>1, FitsKept
  <2>2. CASE LongestPath # 0 /\ result' = [success |-> TRUE, length |-> LongestPath]
    <3>1. \E m, n \in GraphNodes : LongestPath <= Ts(n) - Ts(m)
      BY <1>1, <2>2, PathFits
    <3>2. GraphNodes' = GraphNodes
      BY <1>1 DEF GraphNodes
    <3>3. result'.success /\ result'.length = LongestPath
      BY <2>2
    <3> QED
      BY <3>1, <3>2, <3>3 DEF PathFitsWindow
  <2> QED
    BY <1>3, <2>1, <2>2
<1>5. LocksInOrder(trace)' /\ Forward'
  BY <1>1, LocksKept, ForwardKept
<1>6. LocksPassed' /\ LastPassed' /\ LastOn' /\ Promised' /\ Unfinished'
  BY <1>1 DEF LocksPassed, LastPassed, LastOn, Promised, Unfinished
<1> QED
  BY <1>4, <1>5, <1>6 DEF PathInv

-----------------------------------------------------------------------------
(* The pass over the device.                                               *)

OnwardMap(map) == \A p \in DOMAIN map : Onward(p[1], p[2], map[p])

LEMMA OnwardWith ==
  ASSUME NEW map, NEW new, OnwardMap(map), OnwardMap(new)
  PROVE  OnwardMap(With(map, new))
  BY WithDomain DEF OnwardMap

LEMMA OnwardInto ==
  ASSUME NEW nodes, NEW n, NEW type, NEW zero_weight,
         \A m \in nodes : Precedes(m, n) /\ (type = "sync" => m.of.stream # n.of.stream)
  PROVE  OnwardMap(EdgesInto(nodes, n, type, zero_weight))
<1> SUFFICES ASSUME NEW p \in DOMAIN EdgesInto(nodes, n, type, zero_weight)
             PROVE  Onward(p[1], p[2], EdgesInto(nodes, n, type, zero_weight)[p])
  BY DEF OnwardMap
<1>1. PICK m \in nodes : p = <<m, n>>
  BY DEF EdgesInto
<1>2. EdgesInto(nodes, n, type, zero_weight)[p] = Edge(m, n, type, zero_weight)
  BY <1>1 DEF EdgesInto
<1>3. Onward(m, n, Edge(m, n, type, zero_weight))
  BY EdgeOnward
<1>4. p[1] = m /\ p[2] = n
  BY <1>1
<1> QED
  BY <1>2, <1>3, <1>4

(* An end on the device comes before what is on the host, and a start      *)
(* after it, at one time.                                                  *)
LEMMA DeviceForward ==
  ASSUME NEW k, NEW e, k.stream # -1
  PROVE  /\ Finish(k) \in Int /\ Finish(e) \in Int /\ e.stream = -1 /\ Finish(k) <= Finish(e)
              => Precedes(End(k), End(e))
         /\ Finish(e) \in Int /\ k.ts \in Int /\ e.stream # -1 /\ Finish(e) <= k.ts
              => Precedes(End(e), Start(k))
         /\ e.ts \in Int /\ k.ts \in Int /\ e.stream = -1 /\ e.ts <= k.ts
              => Precedes(Start(e), Start(k))
         /\ k.ts \in Int /\ k.dur \in Int /\ k.dur > 0 => Precedes(Start(k), End(k))
<1>1. /\ Ts(End(k)) = Finish(k) /\ Ts(End(e)) = Finish(e) /\ Ts(Start(k)) = k.ts /\ Ts(Start(e)) = e.ts
      /\ Turn(End(k)) = 0 /\ Turn(Start(k)) = 2
      /\ e.stream = -1 => Turn(End(e)) = 1 /\ Turn(Start(e)) = 1
      /\ e.stream # -1 => Turn(End(e)) = 0
  BY NodeFields DEF Ts, Turn, Finish
<1> QED
  BY <1>1 DEF Precedes, Finish

LEMMA DevicesOfFull ==
  ASSUME Rows, DevicesInOrder, NEW r \in DeviceRows(trace)
  PROVE  /\ r \in DeviceRows(full) /\ r \in full
         /\ ~IsSync(r) => r \in Kernels(full)
         /\ LinkedToHost(full) /\ KernelsInTurn(full) /\ CallsWait(full) /\ StreamsWait(full)
<1>1. r \in trace /\ trace \subseteq full /\ full \in Traces
  BY DEF Rows, DeviceRows
<1> QED
  BY <1>1 DEF DeviceRows, Kernels, DevicesInOrder

LEMMA RowFacts ==
  ASSUME Rows, NEW e \in full
  PROVE  e.ts \in Int /\ e.dur \in Int /\ Finish(e) \in Int
<1>1. e.ts \in Int /\ e.dur \in Int
  BY TracesAssumption DEF Rows
<1> QED
  BY <1>1 DEF Finish

LEMMA InGraphRow ==
  ASSUME Rows, NEW index, InGraph(index)
  PROVE  RowAt(trace, index) \in trace /\ RowAt(trace, index) \in full /\ RowAt(trace, index).index = index
<1>1. PICK e \in trace : e.index = index
  BY DEF InGraph
<1>2. trace \subseteq full
  BY DEF Rows
<1>3. RowAt(trace, index) = e
  BY <1>1, <1>2, RowAtIndex
<1> QED
  BY <1>1, <1>2, <1>3

(* A kernel that a stream came to last started no later than the row at    *)
(* hand is sorted.                                                         *)
LEMMA LastStarted ==
  ASSUME Rows, LastOn, InSortOrder, pc = "kernels", left \subseteq DeviceRows(trace),
         NEW r \in left, NEW s \in DOMAIN last_on
  PROVE  \E k \in DeviceRows(trace) :
           k # r /\ ~IsSync(k) /\ k.stream = s /\ k.stream # -1 /\ last_on[s] = End(k) /\ k.ts <= SortBy(r)
<1>1. PICK k \in Handled : ~IsSync(k) /\ k.stream = s /\ last_on[s] = End(k)
  BY DEF LastOn
<1>2. k \in DeviceRows(trace) /\ k # r
  BY <1>1 DEF Handled
<1>3. SortBy(k) <= SortBy(r) /\ SortBy(k) = k.ts
  BY <1>1 DEF InSortOrder, SortBy
<1>4. k.stream # -1
  BY <1>1, <1>2, KernelsOfDevice
<1> QED
  BY <1>1, <1>2, <1>3, <1>4

LEMMA AwaitedEnded ==
  ASSUME IInv, Waiting, LastOn, pc = "kernels", DevicesInOrder, NEW r \in left,
         IsSync(r), r.name # "Stream Wait Event", InGraph(r.index_correlation), NEW m \in AwaitedNodes(r)
  PROVE  /\ Precedes(m, End(RowAt(trace, r.index_correlation)))
         /\ m.of.stream # End(RowAt(trace, r.index_correlation)).of.stream
<1> DEFINE c == RowAt(trace, r.index_correlation)
<1>1. Rows /\ InSortOrder /\ left \subseteq DeviceRows(trace) /\ r \in DeviceRows(trace)
  BY DEF IInv, Waiting
<1>2. c \in full /\ c.index = r.index_correlation
  BY <1>1, InGraphRow
<1>3. \E k \in Awaited(full, r) : m = End(k) /\ k.stream # -1 /\ k \in full
  <2>1. CASE r.name = "Event Sync"
    <3>1. PICK d \in PreviousLaunch(full, r) : InGraph(d.index_correlation) /\ m = End(LinkedRow(d))
      BY <2>1 DEF AwaitedNodes
    <3>2. LinkedRow(d) \in full /\ LinkedRow(d).index = d.index_correlation
      BY <1>1, <3>1, InGraphRow, EndInGraph DEF LinkedRow
    <3>3. LinkedRow(d).stream # -1
      <4>1. GpuEnd(m)
        BY <1>1, AwaitedAreKernels DEF IInv, KernelPhase
      <4> QED
        BY <3>1, <4>1, NodeFields DEF GpuEnd
    <3> QED
      BY <2>1, <3>1, <3>2, <3>3 DEF Awaited
  <2>2. CASE r.name # "Event Sync"
    <3>1. PICK s \in DOMAIN last_on : m = last_on[s] /\ (r.name = "Stream Sync" => s = r.stream)
      BY <2>2 DEF AwaitedNodes
    <3>2. PICK k \in DeviceRows(trace) :
            ~IsSync(k) /\ k.stream = s /\ k.stream # -1 /\ last_on[s] = End(k) /\ k.ts <= SortBy(r)
      BY <1>1, LastStarted
    <3>3. SortBy(r) = Finish(r)
      BY DEF SortBy, Finish
    <3>4. k \in Kernels(full) /\ k \in full
      BY <1>1, <3>2, DevicesOfFull
    <3> QED
      BY <2>2, <3>1, <3>2, <3>3, <3>4 DEF Awaited
  <2> QED
    BY <2>1, <2>2
<1>4. PICK k \in Awaited(full, r) : m = End(k) /\ k.stream # -1 /\ k \in full
  BY <1>3
<1>5. c.stream = -1 /\ Finish(k) <= Finish(c)
  <2>1. r \in DeviceRows(full) /\ LinkedToHost(full) /\ CallsWait(full)
    BY <1>1, DevicesOfFull
  <2> HIDE DEF c
  <2> QED
    BY <1>2, <1>4, <2>1 DEF LinkedToHost, CallsWait
<1>6. Finish(k) \in Int /\ Finish(c) \in Int
  BY <1>1, <1>2, <1>4, RowFacts
<1> HIDE DEF c
<1>7. Precedes(End(k), End(c)) /\ End(k).of.stream # End(c).of.stream
  BY <1>4, <1>5, <1>6, DeviceForward, NodeFields
<1> QED
  BY <1>4, <1>7 DEF c

LEMMA SyncHostForward ==
  ASSUME IInv, Waiting, PathInv, pc = "kernels", DevicesInOrder, NEW r \in left, SyncHost(r)
  PROVE  OnwardMap(edges')
<1>1. OnwardMap(edges)
  BY DEF PathInv, Forward, OnwardMap
<1>2. CASE ~InGraph(r.index_correlation)
  BY <1>1, <1>2 DEF SyncHost
<1>3. CASE InGraph(r.index_correlation)
  <2> DEFINE n == End(RowAt(trace, r.index_correlation))
  <2>1. edges' = With(edges, EdgesInto(AwaitedNodes(r), n, "sync", FALSE))
    BY <1>3 DEF SyncHost
  <2>2. \A m \in AwaitedNodes(r) : Precedes(m, n) /\ m.of.stream # n.of.stream
    BY <1>3, AwaitedEnded DEF SyncHost, PathInv
  <2> HIDE DEF n
  <2>3. OnwardMap(EdgesInto(AwaitedNodes(r), n, "sync", FALSE))
    BY <2>2, OnwardInto
  <2> QED
    BY <1>1, <2>1, <2>3, OnwardWith
<1> QED
  BY <1>2, <1>3

LEMMA SyncStreamPromises ==
  ASSUME IInv, Waiting, PathInv, pc = "kernels", DevicesInOrder, UNCHANGED full,
         NEW r \in left, SyncStream(r)
  PROVE  pc' = "kernels" => Promised'
<1>1. Rows /\ r \in DeviceRows(trace) /\ Promised
  BY DEF IInv, Waiting, PathInv
<1>2. CASE UNCHANGED kernel_sync
  BY <1>1, <1>2 DEF Promised
<1>3. ASSUME NEW c \in PreviousLaunch(full, r), \E e \in full : e.index = r.index_correlation,
             kernel_sync' = With(kernel_sync,
               [i \in {d.index_correlation : d \in NextLaunch(full, r)} |-> c.index_correlation])
      PROVE  Promised'
  <2> DEFINE nexts == {d.index_correlation : d \in NextLaunch(full, r)}
             new == [i \in nexts |-> c.index_correlation]
  <2>1. r.name = "Stream Wait Event" /\ StreamsWait(full) /\ r \in DeviceRows(full)
    BY <1>1, DevicesOfFull DEF SyncStream
  <2>2. ASSUME NEW i \in nexts, NEW k \in full, NEW l \in full, k.index = c.index_correlation, l.index = i
        PROVE  k.stream # -1 /\ k.stream # l.stream /\ Finish(k) <= l.ts
    <3>1. PICK d \in NextLaunch(full, r) : i = d.index_correlation
      BY <2>2
    <3>2. k.stream # l.stream /\ Finish(k) <= l.ts
      BY <1>3, <2>1, <2>2, <3>1 DEF StreamsWait
    <3>3. PICK s : c \in LaunchesOn(full, s)
      BY DEF PreviousLaunch
    <3>4. PICK x \in LinkedKernels(full, c) : TRUE
      BY <3>3 DEF LaunchesOn
    <3>5. x \in full /\ x.stream # -1 /\ x.index = c.index_correlation
      BY <3>4 DEF LinkedKernels, GpuKernels
    <3>6. x = k
      BY <1>1, <2>2, <3>5, UniqueIndex
    <3> QED
      BY <3>2, <3>5, <3>6
  <2>3. kernel_sync' = With(kernel_sync, new)
    BY <1>3
  <2>4. \A i \in DOMAIN kernel_sync' :
          \/ i \in nexts /\ kernel_sync'[i] = c.index_correlation
          \/ i \in DOMAIN kernel_sync /\ kernel_sync'[i] = kernel_sync[i]
    <3>1. DOMAIN new = nexts /\ \A i \in nexts : new[i] = c.index_correlation
      OBVIOUS
    <3> HIDE DEF new
    <3> QED
      BY <2>3, <3>1, WithDomain
  <2> HIDE DEF nexts
  <2> QED
    BY <1>1, <2>2, <2>4 DEF Promised
<1>4. \/ UNCHANGED kernel_sync
      \/ \E c \in PreviousLaunch(full, r) :
           /\ \E e \in full : e.index = r.index_correlation
           /\ kernel_sync' = With(kernel_sync,
                [i \in {d.index_correlation : d \in NextLaunch(full, r)} |-> c.index_correlation])
  <2>1. (\E e \in LinkedWaits(full) : e.index = r.index_correlation)
          => \E e \in full : e.index = r.index_correlation
    BY DEF LinkedWaits
  <2> QED
    BY <2>1 DEF SyncStream
<1> QED
  BY <1>2, <1>3, <1>4

LEMMA AddKernelForward ==
  ASSUME IInv, Waiting, PathInv, pc = "kernels", DevicesInOrder, NEW k \in left, AddKernel(k)
  PROVE  OnwardMap(edges')
<1>1. Rows /\ k \in DeviceRows(trace) /\ left \subseteq DeviceRows(trace) /\ LastOn /\ Promised /\ InSortOrder /\ ~IsSync(k)
  BY DEF IInv, Waiting, PathInv, AddKernel
<1>2. /\ k \in full /\ k.stream # -1 /\ k \in Kernels(full) /\ k \in DeviceRows(full)
      /\ k.ts \in Int /\ k.dur \in Int /\ k.dur > 0
      /\ LinkedToHost(full) /\ KernelsInTurn(full)
  <2>1. /\ k \in full /\ k.stream # -1 /\ k \in Kernels(full) /\ k \in DeviceRows(full)
        /\ LinkedToHost(full) /\ KernelsInTurn(full)
    BY <1>1, DevicesOfFull, KernelsOfDevice
  <2> QED
    BY <1>1, <2>1, RowFacts DEF KernelsInTurn
<1> DEFINE awaited == IF k.index \in DOMAIN kernel_sync /\ kernel_sync[k.index] # None
                         /\ InGraph(kernel_sync[k.index])
                      THEN {End(RowAt(trace, kernel_sync[k.index]))} ELSE {}
           previous == {last_on[s] : s \in DOMAIN last_on \cap {k.stream}}
           launch == {Start(e) : e \in {d \in trace : d.index = k.index_correlation /\ HasNodes(d)}}
           launched == LaunchDelays(k, awaited, previous)
           delayed == ~launched /\ KernelDelays(k, awaited, previous)
           span == EdgesInto({Start(k)}, End(k), "operator", FALSE)
           sync == EdgesInto(awaited, Start(k), "sync", FALSE)
           delay == EdgesInto(IF delayed THEN previous ELSE {}, Start(k), "kernel delay", FALSE)
           call == EdgesInto(IF launched \/ options.launch_edges THEN launch ELSE {}, Start(k),
                             "launch delay", ~launched)
<1>3. edges' = With(With(With(With(edges, span), sync), delay), call)
  BY DEF AddKernel
<1>4. OnwardMap(span)
  <2>1. Precedes(Start(k), End(k))
    BY <1>2, DeviceForward
  <2> QED
    BY <2>1, OnwardInto
<1>5. OnwardMap(sync)
  <2>1. ASSUME NEW m \in awaited PROVE Precedes(m, Start(k)) /\ m.of.stream # Start(k).of.stream
    <3> DEFINE x == RowAt(trace, kernel_sync[k.index])
    <3>1. /\ k.index \in DOMAIN kernel_sync /\ kernel_sync[k.index] # None
          /\ InGraph(kernel_sync[k.index]) /\ m = End(x)
      OBVIOUS
    <3>2. x \in full /\ x.index = kernel_sync[k.index]
      BY <1>1, <3>1, InGraphRow
    <3> HIDE DEF x, awaited
    <3>3. x.stream # -1 /\ x.stream # k.stream /\ Finish(x) <= k.ts
      BY <1>1, <1>2, <3>1, <3>2 DEF Promised
    <3>4. Finish(x) \in Int
      BY <1>1, <3>2, RowFacts
    <3>5. Precedes(End(x), Start(k))
      BY <1>2, <3>3, <3>4, DeviceForward
    <3> QED
      BY <3>1, <3>3, <3>5, NodeFields
  <2> HIDE DEF awaited
  <2> QED
    BY <2>1, OnwardInto
<1>6. OnwardMap(delay)
  <2>1. ASSUME NEW m \in previous PROVE Precedes(m, Start(k))
    <3>1. k.stream \in DOMAIN last_on /\ m = last_on[k.stream]
      OBVIOUS
    <3>2. PICK l \in DeviceRows(trace) :
            /\ l # k /\ ~IsSync(l) /\ l.stream = k.stream /\ l.stream # -1
            /\ last_on[k.stream] = End(l) /\ l.ts <= SortBy(k)
      BY <1>1, <3>1, LastStarted
    <3>3. SortBy(k) = k.ts
      BY <1>1 DEF SortBy
    <3>4. l \in Kernels(full) /\ l \in full /\ l.ts \in Int /\ Finish(l) \in Int
      BY <1>1, <3>2, DevicesOfFull, RowFacts
    <3>5. k.ts >= Finish(l)
      BY <1>2, <3>2, <3>3, <3>4 DEF KernelsInTurn
    <3>6. Precedes(End(l), Start(k))
      BY <1>2, <3>2, <3>4, <3>5, DeviceForward
    <3> QED
      BY <3>1, <3>2, <3>6
  <2> DEFINE before == IF delayed THEN previous ELSE {}
  <2>2. \A m \in before : Precedes(m, Start(k))
    <3> HIDE DEF previous, delayed
    <3> QED
      BY <2>1
  <2> HIDE DEF before
  <2>3. OnwardMap(EdgesInto(before, Start(k), "kernel delay", FALSE))
    BY <2>2, OnwardInto
  <2> QED
    BY <2>3 DEF before
<1>7. OnwardMap(call)
  <2>1. ASSUME NEW m \in launch PROVE Precedes(m, Start(k))
    <3>1. PICK e \in trace : e.index = k.index_correlation /\ m = Start(e)
      OBVIOUS
    <3>2. e \in full
      BY <1>1, <3>1 DEF Rows
    <3>3. e.stream = -1 /\ e.ts <= k.ts
      BY <1>1, <1>2, <3>1, <3>2 DEF LinkedToHost
    <3>4. e.ts \in Int
      BY <1>1, <3>2, RowFacts
    <3> QED
      BY <1>2, <3>1, <3>3, <3>4, DeviceForward
  <2> DEFINE before == IF launched \/ options.launch_edges THEN launch ELSE {}
             zero == ~launched
  <2>2. \A m \in before : Precedes(m, Start(k))
    <3> HIDE DEF launch, launched
    <3> QED
      BY <2>1
  <2> HIDE DEF before, zero
  <2>3. OnwardMap(EdgesInto(before, Start(k), "launch delay", zero))
    BY <2>2, OnwardInto
  <2> QED
    BY <2>3 DEF before, zero
<1>8. OnwardMap(edges)
  BY DEF PathInv, Forward, OnwardMap
<1> HIDE DEF span, sync, delay, call
<1>9. OnwardMap(With(With(edges, span), sync))
  BY <1>4, <1>5, <1>8, OnwardWith
<1> QED
  BY <1>3, <1>6, <1>7, <1>9, OnwardWith

LEMMA PassDeviceRowForward ==
  IInv /\ Waiting /\ DevicesInOrder /\ PathInv /\ PassDeviceRow => PathInv'
<1> SUFFICES ASSUME IInv, Waiting, DevicesInOrder, PathInv, PassDeviceRow PROVE PathInv'
  OBVIOUS
<1>1. pc = "kernels" /\ UNCHANGED <<full, trace, result>> /\ left \subseteq DeviceRows(trace)
  BY DEF PassDeviceRow, input, Waiting
<1>2. PICK r \in left : left' = left \ {r} /\ (SyncHost(r) \/ SyncStream(r) \/ AddKernel(r))
  BY DEF PassDeviceRow
<1>3. pc' \in {"kernels", "raised"}
  BY <1>1, <1>2 DEF SyncHost, SyncStream, AddKernel
<1>4. Forward'
  <2>1. CASE SyncStream(r)
    BY <1>1, <2>1, ForwardKept DEF SyncStream, graph, PathInv
  <2>2. CASE SyncHost(r) \/ AddKernel(r)
    <3>1. OnwardMap(edges')
      BY <1>1, <2>2, SyncHostForward, AddKernelForward
    <3>2. \A m, n, edge : Onward(m, n, edge)' <=> Onward(m, n, edge)
      BY <1>1 DEF Onward, Precedes, HostBefore, Sooner
    <3> QED
      BY <3>1, <3>2 DEF Forward, OnwardMap
  <2> QED
    BY <1>2, <2>1, <2>2
<1>5. LastOn'
  <2> SUFFICES ASSUME pc' = "kernels", NEW s \in DOMAIN last_on'
               PROVE  \E k \in Handled' : ~IsSync(k) /\ k.stream = s /\ last_on'[s] = End(k)
    BY DEF LastOn
  <2>1. Handled' = Handled \cup {r}
    BY <1>1, <1>2 DEF Handled, DeviceRows
  <2>2. CASE s \in DOMAIN last_on /\ last_on'[s] = last_on[s]
    BY <1>1, <2>1, <2>2 DEF LastOn, PathInv
  <2>3. CASE AddKernel(r) /\ s = r.stream /\ last_on'[s] = End(r)
    BY <2>1, <2>3 DEF AddKernel
  <2>4. \/ s \in DOMAIN last_on /\ last_on'[s] = last_on[s]
        \/ AddKernel(r) /\ s = r.stream /\ last_on'[s] = End(r)
    <3>1. CASE SyncHost(r) \/ SyncStream(r)
      BY <3>1 DEF SyncHost, SyncStream
    <3>2. CASE AddKernel(r)
      <4>1. last_on' = With(last_on, [x \in {r.stream} |-> End(r)])
        BY <3>2 DEF AddKernel
      <4> QED
        BY <3>2, <4>1, WithDomain
    <3> QED
      BY <1>2, <3>1, <3>2
  <2> QED
    BY <2>2, <2>3, <2>4
<1>6. Promised'
  <2> SUFFICES ASSUME pc' = "kernels" PROVE Promised'
    BY DEF Promised
  <2>1. CASE SyncHost(r)
    BY <1>1, <2>1 DEF SyncHost, Promised, PathInv
  <2>2. CASE SyncStream(r)
    BY <1>1, <2>2, SyncStreamPromises
  <2>3. CASE AddKernel(r)
    <3>1. kernel_sync' = [i \in DOMAIN kernel_sync |-> IF i = r.index THEN None ELSE kernel_sync[i]]
      BY <2>3 DEF AddKernel
    <3> QED
      BY <1>1, <3>1 DEF Promised, PathInv
  <2> QED
    BY <1>2, <2>1, <2>2, <2>3
<1>7. LocksInOrder(trace)' /\ PathFitsWindow'
  BY <1>1, LocksKept, FitsKept DEF PathInv
<1>8. LocksPassed' /\ LastPassed' /\ Unfinished'
  BY <1>1, <1>3 DEF LocksPassed, LastPassed, Unfinished, PathInv
<1> QED
  BY <1>4, <1>5, <1>6, <1>7, <1>8 DEF PathInv

(* For every trace whose events of one thread nest, whose calls that take  *)
(* the lock come in one order, and whose kernels and synchronizations keep *)
(* the order that CUDA promises, every window and choice of options: the   *)
(* analysis finds a path, and the path is not longer than the window; no   *)
(* edge leads back in time and no cycle is found (_validate_graph).        *)
THEOREM PathsFitWindow ==
  ASSUME WindowsNest, LocksAgree, DevicesInOrder, RowsNumbered, NoneApart
  PROVE  Spec => []PathFitsWindow
<1>1. Init => Waiting /\ SelfInv /\ PathInv
  <2> SUFFICES ASSUME Init PROVE Waiting /\ SelfInv /\ PathInv
    OBVIOUS
  <2>1. Waiting
    BY DEF Init, Waiting
  <2>2. pc = "clip" /\ trace = {} /\ edges = << >> /\ result = None /\ kernel_sync = << >>
    BY DEF Init
  <2>3. LocksInOrder(trace)
    BY <2>2 DEF LocksInOrder, LockNodes, NodesOf, Nodes
  <2>4. PathInv
    BY <2>2, <2>3
    DEF PathInv, Forward, LocksPassed, LastPassed, LastOn, Promised, Unfinished, PathFitsWindow
  <2> QED
    BY <2>1, <2>4, SelfBegins
<1>2. IInv /\ Typed /\ [Next]_vars => Typed'
  BY ClipTyped, LocksTyped, ThreadsTyped, ReplayTyped, DeviceTyped, EndTyped DEF Next
<1>3. IInv /\ Waiting /\ [Next]_vars => Waiting'
  BY PassDeviceRowWaits, OtherStepsWait
<1>4. IInv /\ Typed /\ SelfInv /\ [Next]_vars => SelfInv'
  BY SelfInductive
<1>5. IInv /\ Typed /\ Waiting /\ SelfInv /\ PathInv /\ [Next]_vars => PathInv'
  BY ClipForward, PassLockForward, OtherStepsForward, ReplayEndForward, PassDeviceRowForward, FindPathForward
  DEF Next
<1>6. PathInv => PathFitsWindow
  BY DEF PathInv
<1> QED
  BY InitTyped, <1>1, <1>2, <1>3, <1>4, <1>5, <1>6, Inductive, PTL DEF Spec

=============================================================================
