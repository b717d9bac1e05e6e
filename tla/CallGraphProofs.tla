--------------------------- MODULE CallGraphProofs ---------------------------
(***************************************************************************)
(* Proofs about the construction of a call graph.                          *)
(*                                                                         *)
(* The first invariant, Inv, says that the node map is sound: every child  *)
(* that is listed has the node that lists it as its parent, and every      *)
(* event is listed by its parent.  It starts with what the operations of   *)
(* CallStack on the map preserve.  The second, PathsInv, gives the nodes   *)
(* heights, so that walks up the map end, and says which root they end at: *)
(* events move from the root of the backward thread below the root of the  *)
(* main thread, never under one of themselves.  As long as these roots are *)
(* apart, the constructor returns.                                         *)
(*                                                                         *)
(* The third, TimeInv, relates the map to the times of the events: what    *)
(* the replay, the linking and the saving have done so far is right by the *)
(* clock.  From it a saved rank is a tree, NodeTree, whose levels are the  *)
(* sets of events around one another; depths, heights and kernels are      *)
(* functions of that tree.  The fourth, AnswerInv, is that of the queries. *)
(* The hypotheses are on the trace: AnnotationsOnHost, ThreadsApart,       *)
(* OneStep, HostsNested, SortSorts, RootsCounted, EndsMeasured,            *)
(* StreamsOffHost and ShortTraces, each stated where it is first needed.   *)
(* The first graph of a trace writes into columns that hold any number; of *)
(* later ones WidthsHold says that the columns hold what is saved, which   *)
(* is so for short traces.                                                 *)
(*                                                                         *)
(* And what the sort of EventOrder needs: the comparison orders the ends   *)
(* of events that have a duration strictly and totally, so that sorting    *)
(* has one result whatever the algorithm.                                  *)
(***************************************************************************)
EXTENDS CallGraph, SetInduction, WellFoundedInduction, TLAPS

NodeMap(map) == DOMAIN map \subseteq Int /\ \A n \in DOMAIN map : map[n] \in NodeType

Agree(map) ==
  \A n \in DOMAIN map :
    /\ n >= 0 => /\ map[n].parent \in DOMAIN map
                 /\ n \in map[map[n].parent].children
    /\ \A c \in map[n].children :
         c \in DOMAIN map /\ map[c].parent = n

(* Only events, whose indices are not negative, are listed as children. *)
ChildrenAreEvents(map) == \A n \in DOMAIN map : \A c \in map[n].children : c >= 0

(* The node map that all operations keep. *)
Sound(map) == NodeMap(map) /\ Agree(map) /\ ChildrenAreEvents(map)

(* A new node has the fields it is made of, and their types. *)
LEMMA NodeFields ==
  ASSUME NEW parent, NEW depth, NEW device, NEW children
  PROVE  /\ Node(parent, depth, device, children).parent = parent
         /\ Node(parent, depth, device, children).depth = depth
         /\ Node(parent, depth, device, children).device = device
         /\ Node(parent, depth, device, children).children = children
         /\ parent \in Int /\ depth \in Int /\ device \in {"CPU", "GPU"} /\ children \subseteq Int
              => Node(parent, depth, device, children) \in NodeType
  BY DEF Node, NodeType

(* The empty map, with which the construction of a rank begins. *)
LEMMA EmptySound == ASSUME NEW empty, DOMAIN empty = {} PROVE Sound(empty)
  BY DEF Sound, NodeMap, Agree, ChildrenAreEvents

(* The constructor of a stack adds its root to a sound map. *)
LEMMA WithRootSound ==
  ASSUME NEW map, NEW root \in Int, root < 0, Sound(map)
  PROVE  /\ Sound(WithRoot(map, root))
         /\ DOMAIN WithRoot(map, root) = DOMAIN map \cup {root}
<1>1. CASE root \in DOMAIN map
  BY <1>1 DEF WithRoot
<1>2. CASE root \notin DOMAIN map
  <2> DEFINE node == Node(NULL_NODE_INDEX, -1, "CPU", {})
  <2> DEFINE added == Put(map, root, node)
  <2>1. WithRoot(map, root) = added
    BY <1>2 DEF WithRoot
  <2>2. node \in NodeType /\ node.children = {}
    BY NodeFields DEF NULL_NODE_INDEX
  <2> HIDE DEF node
  <2>3. /\ DOMAIN added = DOMAIN map \cup {root}
        /\ added[root] = node
        /\ \A n \in DOMAIN map : added[n] = map[n]
    BY <1>2 DEF Put
  <2> HIDE DEF added
  <2>4. NodeMap(added)
    BY <2>2, <2>3 DEF Sound, NodeMap
  <2>5. ChildrenAreEvents(added)
    BY <2>2, <2>3 DEF Sound, ChildrenAreEvents
  <2>6. Agree(added)
    BY <1>2, <2>2, <2>3 DEF Sound, Agree
  <2> QED
    BY <2>1, <2>3, <2>4, <2>5, <2>6 DEF Sound
<1> QED
  BY <1>1, <1>2

(* An edge from a node to a new event makes the event a child of the node. *)
LEMMA AddEdgeSound ==
  ASSUME NEW map, NEW root, NEW parent, NEW child \in Nat, NEW device \in {"CPU", "GPU"},
         Sound(map), parent \in DOMAIN map
  PROVE  /\ Sound(AddEdge(map, root, parent, child, device))
         /\ DOMAIN AddEdge(map, root, parent, child, device) = DOMAIN map \cup {child}
<1>1. CASE child \in DOMAIN map
  BY <1>1 DEF AddEdge
<1>2. CASE child \notin DOMAIN map
  <2> DEFINE with == Adopt(map, parent, child)
             node == Node(parent, with[parent].depth + 1, device, {})
             added == Put(with, child, node)
  <2>1. AddEdge(map, root, parent, child, device) = added
    BY <1>2 DEF AddEdge
  <2>2. /\ DOMAIN with = DOMAIN map
        /\ \A n \in DOMAIN map :
             /\ with[n] \in NodeType
             /\ with[n].parent = map[n].parent
             /\ with[n].children = map[n].children \cup (IF n = parent THEN {child} ELSE {})
    BY DEF Adopt, Node, Sound, NodeMap, NodeType
  <2> HIDE DEF with
  <2>3. node \in NodeType /\ node.parent = parent /\ node.children = {}
    <3>1. with[parent].depth + 1 \in Int /\ parent \in Int
      BY <2>2 DEF Sound, NodeMap, NodeType
    <3> QED
      BY <3>1, NodeFields
  <2> HIDE DEF node
  <2>4. /\ DOMAIN added = DOMAIN map \cup {child}
        /\ added[child] = node
        /\ \A n \in DOMAIN map : added[n] = with[n]
    BY <1>2, <2>2 DEF Put
  <2> HIDE DEF added
  <2>5. NodeMap(added)
    BY <2>2, <2>3, <2>4 DEF Sound, NodeMap
  <2>6. ChildrenAreEvents(added)
    BY <2>2, <2>3, <2>4 DEF Sound, ChildrenAreEvents
  <2>7. Agree(added)
    <3> SUFFICES ASSUME NEW n \in DOMAIN added
                 PROVE  /\ n >= 0 => /\ added[n].parent \in DOMAIN added
                                     /\ n \in added[added[n].parent].children
                        /\ \A c \in added[n].children :
                             c \in DOMAIN added /\ added[c].parent = n
      BY DEF Agree
    <3>1. CASE n = child
      BY <1>2, <2>2, <2>3, <2>4, <3>1
    <3>2. CASE n \in DOMAIN map
      BY <1>2, <2>2, <2>3, <2>4, <3>2 DEF Sound, Agree
    <3> QED
      BY <2>4, <3>1, <3>2
  <2> QED
    BY <2>1, <2>4, <2>5, <2>6, <2>7 DEF Sound
<1> QED
  BY <1>1, <1>2

(* First-layer events that move from their root to an event are its        *)
(* children then, and the root, which may lose its last child, is the only *)
(* node that may go.                                                       *)
LEMMA UpdateParentSound ==
  ASSUME NEW map, NEW root \in DOMAIN map, NEW new_parent \in DOMAIN map, NEW indices,
         Sound(map), root < 0, new_parent >= 0, indices \subseteq map[root].children
  PROVE  /\ Sound(UpdateParent(map, indices, new_parent))
         /\ DOMAIN UpdateParent(map, indices, new_parent) \subseteq DOMAIN map
<1> DEFINE valid == (indices \cap DOMAIN map) \ map[new_parent].children
           old_parents == {map[n].parent : n \in valid}
           attached == [n \in DOMAIN map |->
             Node(IF n \in valid THEN new_parent ELSE map[n].parent,
                  map[n].depth, map[n].device,
                  (map[n].children \cup (IF n = new_parent THEN valid ELSE {}))
                    \ (IF n \in old_parents THEN valid ELSE {}))]
           emptied == {p \in old_parents : attached[p].children = {}}
           updated == [n \in DOMAIN map \ emptied |-> attached[n]]
<1>1. UpdateParent(map, indices, new_parent) = updated
  BY DEF UpdateParent
<1>2. \A n \in valid : n \in DOMAIN map /\ map[n].parent = root /\ n >= 0
                      /\ n \in map[root].children
  BY DEF Sound, Agree, ChildrenAreEvents
<1>3. old_parents \subseteq {root} /\ (valid # {} => old_parents = {root})
  BY <1>2
<1>4. root # new_parent
  BY DEF Sound, NodeMap
<1>5. /\ valid \subseteq Int
      /\ valid \cap map[new_parent].children = {}
  BY <1>2 DEF Sound, NodeMap
<1> HIDE DEF valid
<1>6. \A n \in DOMAIN map :
        /\ attached[n] \in NodeType
        /\ attached[n].parent = IF n \in valid THEN new_parent ELSE map[n].parent
        /\ attached[n].children = IF n = root THEN map[n].children \ valid
                                  ELSE IF n = new_parent THEN map[n].children \cup valid
                                  ELSE map[n].children
  <2> SUFFICES ASSUME NEW n \in DOMAIN map
               PROVE  /\ attached[n] \in NodeType
                      /\ attached[n].parent = IF n \in valid THEN new_parent ELSE map[n].parent
                      /\ attached[n].children = IF n = root THEN map[n].children \ valid
                                                ELSE IF n = new_parent THEN map[n].children \cup valid
                                                ELSE map[n].children
    OBVIOUS
  <2> DEFINE parent == IF n \in valid THEN new_parent ELSE map[n].parent
             children == (map[n].children \cup (IF n = new_parent THEN valid ELSE {}))
                           \ (IF n \in old_parents THEN valid ELSE {})
  <2>1. attached[n] = Node(parent, map[n].depth, map[n].device, children)
    OBVIOUS
  <2>2. /\ map[n].parent \in Int /\ map[n].depth \in Int /\ map[n].device \in {"CPU", "GPU"}
        /\ map[n].children \subseteq Int /\ new_parent \in Int
    BY DEF Sound, NodeMap, NodeType
  <2>3. children = IF n = root THEN map[n].children \ valid
                   ELSE IF n = new_parent THEN map[n].children \cup valid
                   ELSE map[n].children
    BY <1>3, <1>4
  <2>4. parent \in Int /\ children \subseteq Int
    BY <1>5, <2>2
  <2> HIDE DEF parent, children, attached, old_parents
  <2>5. attached[n] \in NodeType /\ attached[n].parent = parent /\ attached[n].children = children
    <3>1. /\ attached[n].parent = parent /\ attached[n].children = children
          /\ attached[n] \in NodeType
      BY <2>1, <2>2, <2>4 DEF Node, NodeType
    <3> QED
      BY <3>1
  <2> QED
    BY <2>3, <2>5 DEF parent
<1> HIDE DEF attached
<1>7. emptied \subseteq {root} /\ (root \in emptied => attached[root].children = {})
  BY <1>3
<1>8. /\ DOMAIN updated = DOMAIN map \ emptied
      /\ \A n \in DOMAIN updated : updated[n] = attached[n]
  OBVIOUS
<1> HIDE DEF emptied, updated, old_parents
<1>9. NodeMap(updated)
  BY <1>6, <1>8 DEF Sound, NodeMap
<1>10. ChildrenAreEvents(updated)
  <2> SUFFICES ASSUME NEW n \in DOMAIN updated, NEW c \in updated[n].children PROVE c >= 0
    BY DEF ChildrenAreEvents
  <2>1. n \in DOMAIN map /\ (c \in map[n].children \/ c \in valid)
    BY <1>6, <1>8
  <2> QED
    BY <1>2, <2>1 DEF Sound, ChildrenAreEvents
<1>11. Agree(updated)
  <2> SUFFICES ASSUME NEW n \in DOMAIN updated
               PROVE  /\ n >= 0 => /\ updated[n].parent \in DOMAIN updated
                                   /\ n \in updated[updated[n].parent].children
                      /\ \A c \in updated[n].children :
                           c \in DOMAIN updated /\ updated[c].parent = n
    BY DEF Agree
  <2>1. n \in DOMAIN map /\ n \in Int
    BY <1>8 DEF Sound, NodeMap
  <2>2. ASSUME n >= 0
        PROVE  /\ updated[n].parent \in DOMAIN updated
               /\ n \in updated[updated[n].parent].children
    <3>1. map[n].parent \in DOMAIN map /\ n \in map[map[n].parent].children
      BY <2>1, <2>2 DEF Sound, Agree
    <3>2. CASE n \in valid
      <4>1. new_parent \in DOMAIN updated
        BY <1>4, <1>7, <1>8
      <4>2. updated[n].parent = new_parent
        BY <1>6, <1>8, <2>1, <3>2
      <4>3. updated[new_parent].children = map[new_parent].children \cup valid
        BY <1>4, <1>6, <1>8, <4>1
      <4> QED
        BY <3>2, <4>1, <4>2, <4>3
    <3>3. CASE n \notin valid
      <4>1. updated[n].parent = map[n].parent
        BY <1>6, <1>8, <2>1, <3>3
      <4>2. n \in attached[map[n].parent].children
        BY <1>6, <3>1, <3>3
      <4> QED
        BY <1>7, <1>8, <3>1, <4>1, <4>2
    <3> QED
      BY <3>2, <3>3
  <2>3. ASSUME NEW c \in updated[n].children
        PROVE  c \in DOMAIN updated /\ updated[c].parent = n
    <3>0. \/ c \in map[n].children /\ (n = root => c \notin valid)
          \/ c \in valid /\ n = new_parent
      BY <1>6, <1>8, <2>1
    <3>1. c \in DOMAIN map /\ c >= 0
      BY <1>2, <2>1, <3>0 DEF Sound, Agree, ChildrenAreEvents
    <3>2. c \in DOMAIN updated
      BY <1>7, <1>8, <3>1 DEF Sound, NodeMap
    <3>3. CASE c \in valid
      <4>1. n = new_parent
        BY <1>2, <2>1, <3>0, <3>3 DEF Sound, Agree
      <4> QED
        BY <1>6, <1>8, <3>1, <3>2, <3>3, <4>1
    <3>4. CASE c \notin valid
      <4>1. c \in map[n].children
        BY <1>6, <1>8, <2>1, <3>4
      <4> QED
        BY <1>6, <1>8, <2>1, <3>1, <3>2, <3>4, <4>1 DEF Sound, Agree
    <3> QED
      BY <3>3, <3>4
  <2> QED
    BY <2>2, <2>3
<1> QED
  BY <1>1, <1>8, <1>9, <1>10, <1>11 DEF Sound

(* The depths that the columns are saved with change nothing else. *)
LEMMA WithDepthSound ==
  ASSUME NEW map, Sound(map)
  PROVE  Sound(WithDepth(map)) /\ DOMAIN WithDepth(map) = DOMAIN map
<1> DEFINE level == Levels(map, AllRootIndices(map))
           distances(n) == {k \in 0 .. Cardinality(DOMAIN map) : n \in level[k]}
           depth(n) == IF distances(n) = {} THEN map[n].depth
                       ELSE (CHOOSE k \in distances(n) : TRUE) - 1
           with == [n \in DOMAIN map |->
                      Node(map[n].parent, depth(n), map[n].device, map[n].children)]
<1>1. WithDepth(map) = with
  BY DEF WithDepth
<1>2. \A n \in DOMAIN map : depth(n) \in Int
  BY DEF Sound, NodeMap, NodeType
<1> HIDE DEF depth
<1>3. \A n \in DOMAIN map : /\ with[n] \in NodeType
                               /\ with[n].parent = map[n].parent
                               /\ with[n].children = map[n].children
  BY <1>2 DEF Node, Sound, NodeMap, NodeType
<1>4. DOMAIN with = DOMAIN map
  OBVIOUS
<1> HIDE DEF with
<1> QED
  BY <1>1, <1>3, <1>4 DEF Sound, NodeMap, Agree, ChildrenAreEvents

-----------------------------------------------------------------------------
(* The order of the ends of events *)

(* The ends of one event have its duration, and lie that far apart. *)
End == [index : Int, dur : Int, kind : {Open, Close}, time : Int]
SameEvent(x, y) ==
  x.index = y.index => /\ x.dur = y.dur
                       /\ x.kind = y.kind => x.time = y.time
                       /\ x.kind = Open /\ y.kind = Close => y.time = x.time + x.dur
                       /\ x.kind = Close /\ y.kind = Open => x.time = y.time + x.dur

(* No end is before one that is before it. *)
THEOREM Asymmetric ==
  ASSUME NEW x \in End, NEW y \in End, x.dur > 0, y.dur > 0, SameEvent(x, y), x # y,
         LessThan(x, y)
  PROVE  ~LessThan(y, x)
BY DEF End, SameEvent, LessThan, LessThanAtSameTime, Open, Close

(* Of two ends one is before the other. *)
THEOREM Total ==
  ASSUME NEW x \in End, NEW y \in End, x.dur > 0, y.dur > 0, SameEvent(x, y), x # y
  PROVE  LessThan(x, y) \/ LessThan(y, x)
BY DEF End, SameEvent, LessThan, LessThanAtSameTime, Open, Close

(* The order is transitive. *)
THEOREM Transitive ==
  ASSUME NEW x \in End, NEW y \in End, NEW z \in End,
         x.dur > 0, y.dur > 0, z.dur > 0,
         SameEvent(x, y), SameEvent(y, z), SameEvent(x, z), x # z,
         LessThan(x, y), LessThan(y, z)
  PROVE  LessThan(x, z)
BY DEF End, SameEvent, LessThan, LessThanAtSameTime, Open, Close

-----------------------------------------------------------------------------
(* The rank under construction has nodes and is not among those to do. *)
RankBegun ==
  /\ trace \in Traces
  /\ todo \subseteq Ranks
  /\ pc \in {"thread", "replay", "connect"} => rank \in Ranks \cap DOMAIN nodes /\ rank \notin todo
  /\ pc \in {"thread", "replay"} => threads \subseteq Threads(trace[rank])
  /\ annotations \subseteq Nat

NodesSound == \A r \in DOMAIN nodes : Sound(nodes[r])

(* A stack is of a rank that is begun, and its root is no event. *)
StackRoots ==
  /\ stacks \in Seq(Range(stacks))
  /\ \A i \in DOMAIN stacks :
       /\ stacks[i].rank \in DOMAIN nodes \ todo
       /\ stacks[i].root \in DOMAIN nodes[stacks[i].rank] => stacks[i].root < 0
       /\ pc \in {"thread", "replay"} /\ stacks[i].rank = rank => stacks[i].root < 0

(* What is on the stack of the replay is a node, and every event of the    *)
(* thread is one or still has its beginning to come.                       *)
Replayed ==
  pc = "replay" =>
    /\ thread \in Threads(trace[rank])
    /\ RootIndex(thread) \in DOMAIN nodes[rank]
    /\ stack \in Seq(Int)
    /\ \A i \in 1 .. Len(stack) : stack[i] \in DOMAIN nodes[rank]
    /\ ends \in Seq(EndsOf(HostRows(trace[rank], thread)))
    /\ \A e \in HostRows(trace[rank], thread) :
         e.index \in DOMAIN nodes[rank] \/ OpenEnd(e) \in Range(ends)
    /\ links \subseteq Links(trace[rank], thread)

Inv == RankBegun /\ NodesSound /\ StackRoots /\ Replayed

-----------------------------------------------------------------------------
(* The indices of events are natural numbers. *)
LEMMA RowTypes ==
  ASSUME trace \in Traces, NEW r \in Ranks, NEW e \in trace[r]
  PROVE  e.index \in Nat /\ e.tid \in Nat
  BY TracesAssumption

(* The index of a root is below those of all events: a thread with the     *)
(* number 0 is a stream of the GPU.                                        *)
LEMMA RootsBelowEvents ==
  ASSUME trace \in Traces, NEW r \in Ranks, NEW th \in Threads(trace[r])
  PROVE  RootIndex(th) \in Int /\ RootIndex(th) < 0
<1>1. PICK e \in trace[r] : th = [pid |-> e.pid, tid |-> e.tid]
  BY DEF Threads
<1>2. th.tid \in Nat
  BY <1>1, RowTypes
<1>3. \E d \in ThreadRows(trace[r], th) : d.tid # 0
  BY DEF Threads, IsGpu
<1>4. th.tid # 0
  BY <1>3 DEF ThreadRows
<1> QED
  BY <1>2, <1>4 DEF RootIndex

(* What changes when the nodes of one rank are replaced. *)
LEMMA OneMap ==
  ASSUME NEW N, Sound(N), NEW r, NodesSound, nodes' = Put(nodes, r, N)
  PROVE  /\ NodesSound'
         /\ DOMAIN nodes' = DOMAIN nodes \cup {r}
         /\ nodes'[r] = N
         /\ \A s \in DOMAIN nodes : s # r => nodes'[s] = nodes[s]
  BY DEF Put, NodesSound

(* A sequence is the first of its elements and the rest. *)
LEMMA HeadAndTail ==
  ASSUME NEW S, NEW s \in Seq(S), s # << >>
  PROVE  /\ Head(s) \in S /\ Tail(s) \in Seq(S)
         /\ \A x \in Range(s) : x = Head(s) \/ x \in Range(Tail(s))
<1>1. Head(s) \in S /\ Tail(s) \in Seq(S) /\ Head(s) = s[1] /\ Len(s) \in Nat \ {0}
  OBVIOUS
<1>2. /\ Len(Tail(s)) = Len(s) - 1
      /\ \A i \in 1 .. (Len(s) - 1) : Tail(s)[i] = s[i + 1]
  OBVIOUS
<1>3. ASSUME NEW i \in DOMAIN s PROVE s[i] = Head(s) \/ s[i] \in Range(Tail(s))
  <2>1. i \in 1 .. Len(s)
    OBVIOUS
  <2>2. CASE i = 1
    BY <1>1, <2>2
  <2>3. CASE i # 1
    <3>1. i - 1 \in 1 .. (Len(s) - 1) /\ i - 1 \in DOMAIN Tail(s)
      BY <1>1, <1>2, <2>1, <2>3
    <3>2. Tail(s)[i - 1] = s[i]
      BY <1>2, <2>1, <3>1
    <3> QED
      BY <3>1, <3>2 DEF Range
  <2> QED
    BY <2>2, <2>3
<1> QED
  BY <1>1, <1>3 DEF Range

-----------------------------------------------------------------------------
(* Nothing is constructed yet. *)
LEMMA InvInit == Init => Inv
  BY DEF Init, Inv, RankBegun, NodesSound, StackRoots, Replayed, Range

(* A step that changes nothing of the graph. *)
LEMMA InvUnchanged == Inv /\ UNCHANGED <<trace, buildVars>> => Inv'
  BY DEF Inv, RankBegun, NodesSound, StackRoots, Replayed, buildVars, threadVars

(* The nodes of a rank that begins are empty. *)
LEMMA InvStartRank == Inv /\ StartRank => Inv'
<1> SUFFICES ASSUME Inv, StartRank PROVE Inv'
  OBVIOUS
<1> USE DEF Inv
<1>1. PICK r \in todo : /\ rank' = r /\ todo' = todo \ {r}
                        /\ nodes' = Put(nodes, r, [n \in {} |-> {}])
                        /\ threads' = Threads(trace[r])
  BY DEF StartRank
<1>2. /\ pc' = "thread" /\ trace' = trace /\ annotations' = annotations /\ stacks' = stacks
  BY DEF StartRank, threadVars
<1>3. /\ NodesSound' /\ DOMAIN nodes' = DOMAIN nodes \cup {r} /\ nodes'[r] = [n \in {} |-> {}]
      /\ \A s \in DOMAIN nodes : s # r => nodes'[s] = nodes[s]
  <2>1. Sound([n \in {} |-> {}])
    BY EmptySound
  <2> DEFINE N == [n \in {} |-> {}]
  <2>2. Sound(N) /\ nodes' = Put(nodes, r, N)
    BY <1>1, <2>1
  <2> HIDE DEF N
  <2>3. /\ NodesSound' /\ DOMAIN nodes' = DOMAIN nodes \cup {r} /\ nodes'[r] = N
        /\ \A s \in DOMAIN nodes : s # r => nodes'[s] = nodes[s]
    BY <2>2 DEF Put, NodesSound
  <2> QED
    BY <2>3 DEF N
<1>4. RankBegun'
  BY <1>1, <1>2, <1>3 DEF RankBegun
<1>5. StackRoots'
  BY <1>1, <1>2, <1>3 DEF StackRoots, RankBegun
<1>6. Replayed'
  BY <1>2 DEF Replayed
<1> QED
  BY <1>3, <1>4, <1>5, <1>6

(* The nodes of a thread begin with its root, and all its events come. *)
LEMMA InvStartThread == Inv /\ StartThread => Inv'
<1> SUFFICES ASSUME Inv, StartThread PROVE Inv'
  OBVIOUS
<1> USE DEF Inv
<1>1. PICK th \in threads :
        /\ thread' = th /\ threads' = threads \ {th}
        /\ nodes' = Put(nodes, rank, WithRoot(nodes[rank], RootIndex(th)))
        /\ ends' = Sorted(Melted(HostRows(trace[rank], th)))
        /\ links' = Links(trace[rank], th)
  BY DEF StartThread
<1>2. /\ pc = "thread" /\ pc' \in {"replay", "raised"} /\ stack' = << >>
      /\ trace' = trace /\ todo' = todo /\ rank' = rank /\ annotations' = annotations
      /\ stacks' = stacks
  BY DEF StartThread
<1>3. /\ rank \in Ranks \cap DOMAIN nodes /\ th \in Threads(trace[rank]) /\ trace \in Traces
      /\ RootIndex(th) \in Int /\ RootIndex(th) < 0
  BY <1>2, RootsBelowEvents DEF RankBegun
<1>4. /\ NodesSound' /\ DOMAIN nodes' = DOMAIN nodes
      /\ DOMAIN nodes'[rank] = DOMAIN nodes[rank] \cup {RootIndex(th)}
      /\ \A s \in DOMAIN nodes : s # rank => nodes'[s] = nodes[s]
  <2> DEFINE N == WithRoot(nodes[rank], RootIndex(th))
  <2>1. Sound(N) /\ DOMAIN N = DOMAIN nodes[rank] \cup {RootIndex(th)}
    BY <1>3, WithRootSound DEF NodesSound
  <2>2. nodes' = Put(nodes, rank, N)
    BY <1>1
  <2> HIDE DEF N
  <2> QED
    BY <1>3, <2>1, <2>2, OneMap
<1>5. RankBegun'
  BY <1>1, <1>2, <1>3, <1>4 DEF RankBegun
<1>6. StackRoots'
  BY <1>1, <1>2, <1>3, <1>4 DEF StackRoots
<1>7. Replayed'
  <2>1. /\ ends' \in Seq(EndsOf(HostRows(trace[rank], th)))
        /\ EndsOf(HostRows(trace[rank], th)) \subseteq Range(ends')
    BY <1>1, <1>3, SortedAssumption
  <2>2. \A e \in HostRows(trace[rank], th) : OpenEnd(e) \in Range(ends')
    BY <2>1 DEF EndsOf
  <2> QED
    BY <1>1, <1>2, <1>3, <1>4, <2>1, <2>2 DEF Replayed
<1> QED
  BY <1>4, <1>5, <1>6, <1>7

(* The facts about the replay that every step of it uses. *)
LEMMA ReplayOf ==
  ASSUME Inv, pc = "replay"
  PROVE  /\ rank \in Ranks \cap DOMAIN nodes /\ Sound(nodes[rank]) /\ trace \in Traces
         /\ RootIndex(thread) \in DOMAIN nodes[rank]
         /\ \A e \in HostRows(trace[rank], thread) : e \in trace[rank] /\ e.index \in Nat
<1>1. rank \in Ranks \cap DOMAIN nodes /\ Sound(nodes[rank]) /\ trace \in Traces
  BY DEF Inv, RankBegun, NodesSound
<1>2. \A e \in HostRows(trace[rank], thread) : e \in trace[rank]
  BY DEF HostRows, ThreadRows
<1> QED
  BY <1>1, <1>2, RowTypes DEF Inv, Replayed

(* A step of the replay that adds nodes to the rank, and no root. *)
LEMMA MoreNodes ==
  ASSUME Inv, pc = "replay", pc' = "replay", NEW N, Sound(N), nodes' = Put(nodes, rank, N),
         DOMAIN nodes[rank] \subseteq DOMAIN N,
         UNCHANGED <<trace, todo, rank, threads, annotations, stacks>>
  PROVE  RankBegun' /\ NodesSound' /\ StackRoots' /\ DOMAIN nodes'[rank'] = DOMAIN N
<1>1. /\ NodesSound' /\ DOMAIN nodes' = DOMAIN nodes /\ nodes'[rank] = N
      /\ \A s \in DOMAIN nodes : s # rank => nodes'[s] = nodes[s]
  <2>1. rank \in DOMAIN nodes /\ NodesSound
    BY ReplayOf DEF Inv
  <2> QED
    BY <2>1 DEF Put, NodesSound
<1>2. RankBegun'
  BY <1>1 DEF Inv, RankBegun
<1>3. StackRoots'
  BY <1>1 DEF Inv, StackRoots
<1> QED
  BY <1>1, <1>2, <1>3

(* The event that begins is a child of the stack's top, which is a node. *)
LEMMA InvOpenEvent == Inv /\ OpenEvent => Inv'
<1> SUFFICES ASSUME Inv, OpenEvent PROVE Inv'
  OBVIOUS
<1> DEFINE host == HostRows(trace[rank], thread)
           parent == IF stack # << >> THEN stack[Len(stack)] ELSE RootIndex(thread)
           child == Head(ends).index
           N == AddEdge(nodes[rank], RootIndex(thread), parent, child, "CPU")
<1>1. /\ pc = "replay" /\ pc' = "replay" /\ ends # << >> /\ Head(ends).kind = Open
      /\ nodes' = Put(nodes, rank, N)
      /\ stack' = Append(stack, child) /\ ends' = Tail(ends)
      /\ UNCHANGED <<trace, todo, rank, threads, thread, links, annotations, stacks>>
  BY DEF OpenEvent
<1>2. /\ ends \in Seq(EndsOf(host)) /\ stack \in Seq(Int)
      /\ \A i \in 1 .. Len(stack) : stack[i] \in DOMAIN nodes[rank]
  BY <1>1 DEF Inv, Replayed
<1>3. /\ Head(ends) \in EndsOf(host) /\ Tail(ends) \in Seq(EndsOf(host))
      /\ \A x \in Range(ends) : x = Head(ends) \/ x \in Range(Tail(ends))
  BY <1>1, <1>2, HeadAndTail
<1>4. PICK e \in host : Head(ends) = OpenEnd(e)
  BY <1>1, <1>3 DEF EndsOf, CloseEnd, Open, Close
<1>5. child = e.index /\ child \in Nat
  BY <1>1, <1>4, ReplayOf DEF OpenEnd
<1>6. parent \in DOMAIN nodes[rank]
  BY <1>1, <1>2, ReplayOf
<1>7. Sound(N) /\ DOMAIN N = DOMAIN nodes[rank] \cup {child}
  <2>1. Sound(nodes[rank]) /\ child \in Nat /\ parent \in DOMAIN nodes[rank]
    BY <1>1, <1>5, <1>6, ReplayOf
  <2>2. "CPU" \in {"CPU", "GPU"}
    OBVIOUS
  <2> HIDE DEF parent, child
  <2> QED
    BY <2>1, <2>2, AddEdgeSound
<1> HIDE DEF N, parent
<1>8. RankBegun' /\ NodesSound' /\ StackRoots' /\ DOMAIN nodes'[rank'] = DOMAIN N
  BY <1>1, <1>7, MoreNodes
<1>9. Replayed'
  <2>1. stack' \in Seq(Int) /\ \A i \in 1 .. Len(stack') : stack'[i] \in DOMAIN N
    BY <1>1, <1>2, <1>5, <1>7
  <2>2. \A d \in host : d.index \in DOMAIN N \/ OpenEnd(d) \in Range(Tail(ends))
    <3> SUFFICES ASSUME NEW d \in host PROVE d.index \in DOMAIN N \/ OpenEnd(d) \in Range(Tail(ends))
      OBVIOUS
    <3>1. d.index \in DOMAIN nodes[rank] \/ OpenEnd(d) \in Range(ends)
      BY <1>1 DEF Inv, Replayed
    <3>2. OpenEnd(d) = Head(ends) => d.index = child
      BY DEF OpenEnd
    <3> HIDE DEF child
    <3> QED
      BY <1>3, <1>7, <3>1, <3>2
  <2>3. /\ thread \in Threads(trace[rank]) /\ RootIndex(thread) \in DOMAIN nodes[rank]
        /\ links \subseteq Links(trace[rank], thread)
    BY <1>1 DEF Inv, Replayed
  <2> HIDE DEF child
  <2>4. /\ DOMAIN nodes'[rank] = DOMAIN N /\ rank' = rank /\ trace' = trace /\ thread' = thread
        /\ ends' = Tail(ends) /\ links' = links
    BY <1>1, <1>8
  <2> QED
    BY <1>3, <1>7, <2>1, <2>2, <2>3, <2>4 DEF Replayed
<1> QED
  BY <1>8, <1>9 DEF Inv

(* An end that closes leaves the nodes, and every beginning is to come. *)
LEMMA InvCloseEvent == Inv /\ CloseEvent => Inv'
<1> SUFFICES ASSUME Inv, CloseEvent PROVE Inv'
  OBVIOUS
<1> DEFINE host == HostRows(trace[rank], thread)
<1>1. /\ pc = "replay" /\ pc' = "replay" /\ ends # << >> /\ Head(ends).kind = Close
      /\ stack' = IF stack # << >> THEN SubSeq(stack, 1, Len(stack) - 1) ELSE stack
      /\ ends' = Tail(ends)
      /\ UNCHANGED <<trace, todo, rank, threads, thread, links, annotations, nodes, stacks>>
  BY DEF CloseEvent
<1>2. /\ ends \in Seq(EndsOf(host)) /\ stack \in Seq(Int)
      /\ \A i \in 1 .. Len(stack) : stack[i] \in DOMAIN nodes[rank]
  BY <1>1 DEF Inv, Replayed
<1>3. /\ Tail(ends) \in Seq(EndsOf(host))
      /\ \A x \in Range(ends) : x = Head(ends) \/ x \in Range(Tail(ends))
  BY <1>1, <1>2, HeadAndTail
<1>4. stack' \in Seq(Int) /\ \A i \in 1 .. Len(stack') : stack'[i] \in DOMAIN nodes[rank]
  <2>1. CASE stack = << >>
    BY <1>1, <1>2, <2>1
  <2>2. CASE stack # << >>
    <3> DEFINE n == Len(stack) - 1
    <3>1. n \in Nat /\ stack' = SubSeq(stack, 1, n) /\ n <= Len(stack)
      BY <1>1, <1>2, <2>2
    <3> HIDE DEF n
    <3>2. /\ stack' \in Seq(Int) /\ Len(stack') = n
          /\ \A i \in 1 .. n : stack'[i] = stack[i] /\ i \in 1 .. Len(stack)
      BY <1>2, <3>1
    <3> QED
      BY <1>2, <3>2
  <2> QED
    BY <2>1, <2>2
<1>5. \A d \in host : OpenEnd(d) # Head(ends)
  BY <1>1 DEF OpenEnd, Open, Close
<1>6. RankBegun' /\ NodesSound' /\ StackRoots'
  BY <1>1 DEF Inv, RankBegun, NodesSound, StackRoots
<1>7. Replayed'
  BY <1>1, <1>3, <1>4, <1>5 DEF Inv, Replayed
<1> QED
  BY <1>6, <1>7 DEF Inv

(* All events of the thread are nodes when its kernels are linked. *)
LEMMA InvLinkKernel == Inv /\ LinkKernel => Inv'
<1> SUFFICES ASSUME Inv, LinkKernel PROVE Inv'
  OBVIOUS
<1>1. PICK link \in links :
        /\ links' = links \ {link}
        /\ nodes' = Put(nodes, rank,
                        AddEdge(nodes[rank], RootIndex(thread), link.cpu, link.gpu, "GPU"))
  BY DEF LinkKernel
<1>2. /\ pc = "replay" /\ pc' = "replay" /\ ends = << >>
      /\ UNCHANGED <<trace, todo, rank, threads, thread, ends, stack, annotations, stacks>>
  BY DEF LinkKernel
<1>3. link \in Links(trace[rank], thread)
  BY <1>1, <1>2 DEF Inv, Replayed
<1>4. PICK k \in trace[rank], e \in ThreadRows(trace[rank], thread) :
        /\ k.stream > 0 /\ k.index_correlation > 0 /\ e.index = k.index_correlation
        /\ link.cpu = k.index_correlation /\ link.gpu = k.index
  BY <1>3 DEF Links
<1>5. e \in HostRows(trace[rank], thread) /\ link.gpu \in Nat
  <2>1. e \in trace[rank] /\ rank \in Ranks /\ trace \in Traces
    BY <1>2, ReplayOf DEF ThreadRows
  <2>2. e.stream = -1
    BY <1>4, <2>1, TracesAssumption
  <2> QED
    BY <1>4, <2>1, <2>2, RowTypes DEF HostRows
<1>6. link.cpu \in DOMAIN nodes[rank]
  BY <1>2, <1>4, <1>5 DEF Inv, Replayed, Range
<1> DEFINE N == AddEdge(nodes[rank], RootIndex(thread), link.cpu, link.gpu, "GPU")
<1>7. Sound(N) /\ DOMAIN N = DOMAIN nodes[rank] \cup {link.gpu}
  <2>1. Sound(nodes[rank])
    BY <1>2, ReplayOf
  <2> DEFINE map == nodes[rank]
             root == RootIndex(thread)
             cpu == link.cpu
             gpu == link.gpu
             device == "GPU"
  <2>3. Sound(map) /\ gpu \in Nat /\ cpu \in DOMAIN map /\ device \in {"CPU", "GPU"}
    BY <1>5, <1>6, <2>1
  <2>4. N = AddEdge(map, root, cpu, gpu, device)
    OBVIOUS
  <2> HIDE DEF N, map, root, cpu, gpu, device
  <2>5. Sound(N) /\ DOMAIN N = DOMAIN map \cup {gpu}
    BY <2>3, <2>4, AddEdgeSound
  <2> QED
    BY <2>5 DEF map, gpu
<1>8. nodes' = Put(nodes, rank, N)
  BY <1>1
<1> HIDE DEF N
<1>9. RankBegun' /\ NodesSound' /\ StackRoots' /\ DOMAIN nodes'[rank'] = DOMAIN N
  BY <1>2, <1>7, <1>8, MoreNodes
<1>10. Replayed'
  <2>1. /\ DOMAIN nodes'[rank] = DOMAIN N /\ DOMAIN nodes[rank] \subseteq DOMAIN N
        /\ links' \subseteq links
    BY <1>1, <1>2, <1>7, <1>9
  <2> QED
    BY <1>2, <2>1 DEF Inv, Replayed
<1> QED
  BY <1>9, <1>10 DEF Inv

(* The root that the finished stack is saved with is below the events. *)
LEMMA InvFinishThread == Inv /\ FinishThread => Inv'
<1> SUFFICES ASSUME Inv, FinishThread PROVE Inv'
  OBVIOUS
<1> DEFINE new == [rank |-> rank, thread |-> thread, root |-> RootIndex(thread),
                   label |-> Label(trace[rank], thread)]
<1>1. /\ pc = "replay" /\ pc' = "thread" /\ stacks' = Append(stacks, new)
      /\ UNCHANGED <<trace, todo, rank, threads, annotations, nodes>>
  BY DEF FinishThread
<1>2. new.rank = rank /\ new.root = RootIndex(thread)
  OBVIOUS
<1> HIDE DEF new
<1>3. RootIndex(thread) < 0
  BY <1>1, ReplayOf, RootsBelowEvents DEF Inv, Replayed
<1>4. rank \in DOMAIN nodes \ todo
  BY <1>1 DEF Inv, RankBegun
<1>5. StackRoots'
  <2>1. /\ stacks' \in Seq(Range(stacks'))
        /\ \A i \in DOMAIN stacks' : (i \in DOMAIN stacks /\ stacks'[i] = stacks[i]) \/ stacks'[i] = new
    BY <1>1, Appended DEF Inv, StackRoots
  <2> SUFFICES ASSUME NEW i \in DOMAIN stacks'
               PROVE  /\ stacks'[i].rank \in DOMAIN nodes \ todo
                      /\ stacks'[i].root \in DOMAIN nodes[stacks'[i].rank] => stacks'[i].root < 0
                      /\ stacks'[i].rank = rank => stacks'[i].root < 0
    BY <1>1, <2>1 DEF StackRoots
  <2> QED
    BY <1>1, <1>2, <1>3, <1>4, <2>1 DEF Inv, StackRoots
<1>6. RankBegun' /\ NodesSound' /\ Replayed'
  BY <1>1 DEF Inv, RankBegun, NodesSound, Replayed
<1> QED
  BY <1>5, <1>6 DEF Inv

(* The annotations are events. *)
LEMMA InvStartConnect == Inv /\ StartConnect => Inv'
<1> SUFFICES ASSUME Inv, StartConnect PROVE Inv'
  OBVIOUS
<1>1. /\ pc = "thread" /\ pc' = "connect"
      /\ annotations' = UNION {BackwardParents(rank, stacks[pair[2]].thread) : pair \in Pairs(rank)}
      /\ UNCHANGED <<trace, todo, rank, threads, nodes, stacks>>
  BY DEF StartConnect
<1>2. rank \in Ranks /\ trace \in Traces
  BY <1>1 DEF Inv, RankBegun
<1>3. \A th, name : Named(rank, th, name) \subseteq Nat
  BY <1>2, RowTypes DEF Named, ThreadRows
<1>4. annotations' \subseteq Nat
  <2>1. \A th : BackwardParents(rank, th) \subseteq Nat
    BY <1>3 DEF BackwardParents
  <2> QED
    BY <1>1, <2>1
<1> QED
  BY <1>1, <1>4 DEF Inv, RankBegun, NodesSound, StackRoots, Replayed

(* The events that move are children of a root, and the root that a stack  *)
(* whose root is deleted gets is no event.                                 *)
LEMMA InvLinkAnnotation == Inv /\ LinkAnnotation => Inv'
<1> SUFFICES ASSUME Inv, LinkAnnotation PROVE Inv'
  OBVIOUS
<1>1. PICK annotation \in annotations, pair \in Pairs(rank) :
        /\ annotations' = annotations \ {annotation}
        /\ LET root == stacks[pair[1]].root
               updated == UpdateParent(nodes[rank], Guarded(root, annotation), annotation)
           IN IF {root, annotation} \subseteq DOMAIN nodes[rank]
              THEN /\ nodes' = Put(nodes, rank, updated)
                   /\ IF root \in DOMAIN updated
                      THEN UNCHANGED <<pc, stacks>>
                      ELSE IF ReachesRoot(updated, annotation)
                      THEN /\ stacks' = [stacks EXCEPT ![pair[1]].root = GetRoot(updated, annotation)]
                           /\ UNCHANGED pc
                      ELSE pc' = "hung" /\ UNCHANGED stacks
              ELSE pc' = "raised" /\ UNCHANGED <<nodes, stacks>>
  BY DEF LinkAnnotation
<1>2. pc = "connect" /\ UNCHANGED <<trace, todo, rank, threads>>
  BY DEF LinkAnnotation
<1>3. rank \in Ranks \cap DOMAIN nodes /\ Sound(nodes[rank])
  BY <1>2 DEF Inv, RankBegun, NodesSound
<1>4. pair[1] \in DOMAIN stacks /\ stacks[pair[1]].rank = rank
  BY DEF Pairs, Labelled
<1> DEFINE p == pair[1]
           root == stacks[p].root
           updated == UpdateParent(nodes[rank], Guarded(root, annotation), annotation)
<1>5. CASE ~({root, annotation} \subseteq DOMAIN nodes[rank])
  BY <1>1, <1>2, <1>5 DEF Inv, RankBegun, NodesSound, StackRoots, Replayed
<1>6. CASE {root, annotation} \subseteq DOMAIN nodes[rank]
  <2>1. Sound(updated) /\ DOMAIN updated \subseteq DOMAIN nodes[rank]
    <3>1. root < 0
      BY <1>4, <1>6 DEF Inv, StackRoots
    <3>2. annotation >= 0
      BY DEF Inv, RankBegun
    <3>3. Guarded(root, annotation) \subseteq nodes[rank][root].children
      BY DEF Guarded
    <3> QED
      BY <1>3, <1>6, <3>1, <3>2, <3>3, UpdateParentSound
  <2>2. /\ nodes' = Put(nodes, rank, updated)
        /\ pc' \in {"connect", "hung"}
        /\ \/ stacks' = stacks
           \/ /\ ReachesRoot(updated, annotation)
              /\ stacks' = [stacks EXCEPT ![p].root = GetRoot(updated, annotation)]
    BY <1>1, <1>2, <1>6
  <2> DEFINE top == GetRoot(updated, annotation)
  <2>3. ReachesRoot(updated, annotation) => (top \in DOMAIN updated => top < 0)
    <3>1. ReachesRoot(updated, annotation) => ~(top >= 0 /\ top \in DOMAIN updated)
      BY DEF ReachesRoot, GetRoot
    <3>2. DOMAIN updated \subseteq Int
      BY <2>1 DEF Sound, NodeMap
    <3> HIDE DEF top, updated
    <3> QED
      BY <3>1, <3>2
  <2> HIDE DEF updated, top, root
  <2>4. /\ NodesSound' /\ DOMAIN nodes' = DOMAIN nodes /\ nodes'[rank] = updated
        /\ \A s \in DOMAIN nodes : s # rank => nodes'[s] = nodes[s]
    BY <1>3, <2>1, <2>2 DEF Put, Inv, NodesSound
  <2>5. RankBegun'
    BY <1>1, <1>2, <2>2, <2>4 DEF Inv, RankBegun
  <2>6. Replayed'
    BY <2>2 DEF Replayed
  <2>7. StackRoots'
    <3>1. CASE stacks' = stacks
      BY <1>2, <2>1, <2>2, <2>4, <3>1 DEF Inv, StackRoots
    <3>2. CASE /\ ReachesRoot(updated, annotation)
               /\ stacks' = [stacks EXCEPT ![p].root = top]
      <4>1. /\ stacks' = [i \in DOMAIN stacks |-> IF i = p THEN [stacks[p] EXCEPT !.root = top]
                                                  ELSE stacks[i]]
        BY <1>4, <3>2
      <4>2. stacks' \in Seq(Range(stacks'))
        <5>1. DOMAIN stacks = 1 .. Len(stacks) /\ Len(stacks) \in Nat
          BY DEF Inv, StackRoots
        <5>2. stacks' \in [1 .. Len(stacks) -> Range(stacks')]
          BY <4>1, <5>1 DEF Range
        <5> QED
          BY <5>1, <5>2
      <4>3. \A i \in DOMAIN stacks' :
              /\ i \in DOMAIN stacks /\ stacks'[i].rank = stacks[i].rank
              /\ stacks'[i].root = IF i = p THEN top ELSE stacks[i].root
        BY <4>1
      <4> QED
        BY <1>2, <1>4, <2>1, <2>2, <2>3, <2>4, <3>2, <4>2, <4>3 DEF Inv, StackRoots
    <3> QED
      BY <2>2, <3>1, <3>2 DEF top
  <2> QED
    BY <2>4, <2>5, <2>6, <2>7 DEF Inv
<1> QED
  BY <1>5, <1>6

(* The depths are computed for a rank that has nodes. *)
LEMMA InvSaveStacks == Inv /\ SaveStacks => Inv'
<1> SUFFICES ASSUME Inv, SaveStacks PROVE Inv'
  OBVIOUS
<1> DEFINE last == IF stacks = << >> THEN rank ELSE stacks[Len(stacks)].rank
           N == WithDepth(nodes[last])
<1>1. /\ pc = "connect" /\ pc' \in {"ready", "rank"} /\ nodes' = Put(nodes, last, N)
      /\ UNCHANGED <<trace, todo, rank, threads, annotations, stacks>>
  BY DEF SaveStacks
<1>2. last \in DOMAIN nodes
  <2>1. CASE stacks = << >>
    BY <1>1, <2>1 DEF Inv, RankBegun
  <2>2. CASE stacks # << >>
    <3>1. Len(stacks) \in DOMAIN stacks
      BY <2>2 DEF Inv, StackRoots
    <3> QED
      BY <2>2, <3>1 DEF Inv, StackRoots
  <2> QED
    BY <2>1, <2>2
<1> HIDE DEF last
<1>3. Sound(N) /\ DOMAIN N = DOMAIN nodes[last]
  BY <1>2, WithDepthSound DEF Inv, NodesSound
<1> HIDE DEF N
<1>4. /\ NodesSound' /\ DOMAIN nodes' = DOMAIN nodes /\ DOMAIN nodes'[last] = DOMAIN nodes[last]
      /\ \A s \in DOMAIN nodes : s # last => nodes'[s] = nodes[s]
  BY <1>1, <1>2, <1>3, OneMap DEF Inv
<1>5. RankBegun' /\ Replayed'
  BY <1>1, <1>4 DEF Inv, RankBegun, Replayed
<1>6. StackRoots'
  BY <1>1, <1>4 DEF Inv, StackRoots
<1> QED
  BY <1>4, <1>5, <1>6 DEF Inv

(* The next graph of the same trace begins without nodes. *)
LEMMA InvConstructAgain == Inv /\ ConstructAgain => Inv'
<1> SUFFICES ASSUME Inv, ConstructAgain PROVE Inv'
  OBVIOUS
<1>1. /\ pc' = "rank" /\ todo' = Ranks /\ nodes' = [r \in {} |-> {}] /\ stacks' = << >>
      /\ trace' = trace /\ annotations' = annotations
  BY DEF ConstructAgain
<1> QED
  BY <1>1 DEF Inv, RankBegun, NodesSound, StackRoots, Replayed, Range

(* Queries change nothing of the graph. *)
LEMMA InvQuery == Inv /\ Query => Inv'
<1> SUFFICES ASSUME Inv, Query PROVE Inv'
  OBVIOUS
<1>1. UNCHANGED <<trace, buildVars>>
  BY DEF Query, GetGpuKernels, GetNodeAttributes, GetCsgOfNode, GetStackOfNode
<1> QED
  BY <1>1, InvUnchanged

(* What the proof rests on holds in every reachable state. *)
THEOREM Invariance == Spec => []Inv
<1>1. Inv /\ [Next]_vars => Inv'
  <2>1. Inv /\ UNCHANGED vars => Inv'
    BY InvUnchanged DEF vars
  <2> QED
    BY <2>1, InvStartRank, InvStartThread, InvOpenEvent, InvCloseEvent, InvLinkKernel,
       InvFinishThread, InvStartConnect, InvLinkAnnotation, InvSaveStacks, InvConstructAgain,
       InvQuery DEF Next, Build
<1> QED
  BY InvInit, <1>1, PTL DEF Spec

(* At every moment parents and children tell the same. *)
THEOREM ParentsAndChildrenAgree == Spec => []ParentsAgree
<1>1. Inv => ParentsAgree
  BY DEF Inv, NodesSound, Sound, Agree, ParentsAgree
<1> QED
  BY Invariance, <1>1, PTL

-----------------------------------------------------------------------------
(* Types *)

(* The variables that the first invariant says nothing of. *)
Types ==
  /\ pc \in {"rank", "thread", "replay", "connect", "ready", "raised", "hung"}
  /\ rank \in Ranks \cup {None}
  /\ stack \in Seq(Int)
  /\ DOMAIN nodes \subseteq Ranks /\ DOMAIN nodes \subseteq DOMAIN columns
  /\ width \in [Ranks -> {8, 16, 64}]
  /\ cached_rank \in Ranks \cup {None}
  /\ pc = "ready" => cached_rank \in Ranks

(* The least rank is a rank. *)
LEMMA MinRank == Min(Ranks) \in Ranks
<1>1. \E x \in Ranks : \A y \in Ranks : ~(<<y, x>> \in OpToRel(<, Nat))
  BY RanksAssumption, NatLessThanWellFounded, WFMin
<1>2. \E x \in Ranks : \A y \in Ranks : x <= y
  <2>1. PICK x \in Ranks : \A y \in Ranks : ~(<<y, x>> \in OpToRel(<, Nat))
    BY <1>1
  <2>2. \A y \in Ranks : ~(y < x)
    BY <2>1, RanksAssumption DEF OpToRel
  <2> QED
    BY <2>2, RanksAssumption
<1> QED
  BY <1>2 DEF Min

(* The construction begins with every variable of its type. *)
LEMMA TypesInit == Init => Types
  BY DEF Init, Types

(* Steps of the construction that change nothing but the nodes of the rank *)
(* under construction keep the types.                                      *)
LEMMA TypesOfNodes ==
  ASSUME Inv, Types, pc \in {"thread", "replay", "connect"}, NEW N,
         nodes' = Put(nodes, rank, N) \/ nodes' = nodes,
         UNCHANGED <<rank, columns, width, cached_rank>>,
         pc' \in {"thread", "replay", "connect", "raised", "hung"}, stack' \in Seq(Int)
  PROVE  Types'
<1>1. rank \in DOMAIN nodes
  BY DEF Inv, RankBegun
<1>2. DOMAIN nodes' = DOMAIN nodes
  BY <1>1 DEF Put
<1> QED
  BY <1>2 DEF Types

(* What a step of the construction of a thread or of the connection keeps. *)
LEMMA TypesThreads ==
  Inv /\ Types /\ (StartThread \/ OpenEvent \/ CloseEvent \/ LinkKernel \/ FinishThread
                     \/ StartConnect \/ LinkAnnotation) => Types'
<1> SUFFICES ASSUME Inv, Types PROVE (StartThread \/ OpenEvent \/ CloseEvent \/ LinkKernel
                                        \/ FinishThread \/ StartConnect \/ LinkAnnotation) => Types'
  OBVIOUS
<1>1. ASSUME StartThread PROVE Types'
  <2>1. \E N : nodes' = Put(nodes, rank, N)
    BY <1>1 DEF StartThread
  <2>2. stack' \in Seq(Int)
    BY <1>1 DEF StartThread
  <2> QED
    BY <1>1, <2>1, <2>2, TypesOfNodes DEF StartThread, queryVars
<1>2. ASSUME OpenEvent PROVE Types'
  <2>1. \E N : nodes' = Put(nodes, rank, N)
    BY <1>2 DEF OpenEvent
  <2>2. pc = "replay" /\ pc' = "replay" /\ stack' = Append(stack, Head(ends).index)
        /\ ends # << >>
    BY <1>2 DEF OpenEvent
  <2>3. Head(ends) \in EndsOf(HostRows(trace[rank], thread))
    BY <2>2, HeadAndTail DEF Inv, Replayed
  <2>4. Head(ends).index \in Int
    BY <2>2, <2>3, ReplayOf DEF EndsOf, OpenEnd, CloseEnd
  <2>5. stack' \in Seq(Int)
    BY <2>2, <2>4 DEF Types
  <2> QED
    BY <1>2, <2>1, <2>5, TypesOfNodes DEF OpenEvent, queryVars
<1>3. ASSUME CloseEvent PROVE Types'
  <2>1. stack' \in Seq(Int)
    <3>1. CASE stack = << >>
      BY <1>3, <3>1 DEF CloseEvent, Types
    <3>2. CASE stack # << >>
      <4>1. stack' = SubSeq(stack, 1, Len(stack) - 1) /\ stack \in Seq(Int)
        BY <1>3, <3>2 DEF CloseEvent, Types
      <4> QED
        BY <3>2, <4>1
    <3> QED
      BY <3>1, <3>2
  <2> QED
    BY <1>3, <2>1, TypesOfNodes DEF CloseEvent, queryVars
<1>4. ASSUME LinkKernel PROVE Types'
  <2>1. \E N : nodes' = Put(nodes, rank, N)
    BY <1>4 DEF LinkKernel
  <2> QED
    BY <1>4, <2>1, TypesOfNodes DEF LinkKernel, queryVars, Types
<1>5. ASSUME FinishThread PROVE Types'
  BY <1>5, TypesOfNodes DEF FinishThread, queryVars, threadVars, Types
<1>6. ASSUME StartConnect PROVE Types'
  BY <1>6, TypesOfNodes DEF StartConnect, queryVars, threadVars, Types
<1>7. ASSUME LinkAnnotation PROVE Types'
  <2>1. \E N : nodes' = Put(nodes, rank, N) \/ nodes' = nodes
    BY <1>7 DEF LinkAnnotation
  <2>2. pc = "connect" /\ pc' \in {"connect", "raised", "hung"}
    BY <1>7 DEF LinkAnnotation
  <2>3. UNCHANGED <<rank, columns, width, cached_rank, stack>>
    BY <1>7 DEF LinkAnnotation, queryVars, threadVars
  <2> QED
    BY <2>1, <2>2, <2>3, TypesOfNodes DEF Types
<1> QED
  BY <1>1, <1>2, <1>3, <1>4, <1>5, <1>6, <1>7

(* What the steps that change the columns keep, and the queries. *)
LEMMA TypesStep == Inv /\ Types /\ [Next]_vars => Types'
<1> SUFFICES ASSUME Inv, Types, [Next]_vars PROVE Types'
  OBVIOUS
<1>1. CASE StartRank
  <2>1. PICK r \in todo : /\ rank' = r /\ nodes' = Put(nodes, r, [n \in {} |-> {}])
                          /\ DOMAIN columns' = DOMAIN columns \cup {r}
    BY <1>1 DEF StartRank, Put
  <2>2. pc' = "thread" /\ UNCHANGED <<width, cached_rank, stack>>
    BY <1>1 DEF StartRank, queryVars, threadVars
  <2>3. r \in Ranks /\ DOMAIN nodes' = DOMAIN nodes \cup {r}
    BY <2>1 DEF Inv, RankBegun, Put
  <2> QED
    BY <2>1, <2>2, <2>3 DEF Types
<1>2. CASE SaveStacks
  <2> DEFINE last == IF stacks = << >> THEN rank ELSE stacks[Len(stacks)].rank
  <2>1. last \in DOMAIN nodes /\ rank \in DOMAIN nodes
    <3>1. rank \in DOMAIN nodes
      BY <1>2 DEF SaveStacks, Inv, RankBegun
    <3>2. stacks # << >> => Len(stacks) \in DOMAIN stacks
      BY DEF Inv, StackRoots
    <3> QED
      BY <3>1, <3>2 DEF Inv, StackRoots
  <2>2. /\ \E N : nodes' = Put(nodes, last, N)
        /\ \E C, D : columns' = Put(Put(columns, last, C), rank, D)
        /\ \E values : width' = [width EXCEPT ![rank] = Downcast(values)]
        /\ pc' \in {"ready", "rank"} /\ cached_rank' \in {Min(Ranks), cached_rank}
        /\ pc' = "ready" => cached_rank' = Min(Ranks)
        /\ UNCHANGED <<rank, stack>>
    BY <1>2 DEF SaveStacks, threadVars
  <2> HIDE DEF last
  <2>3. DOMAIN nodes' = DOMAIN nodes /\ DOMAIN columns \subseteq DOMAIN columns'
    BY <2>1, <2>2 DEF Put
  <2>4. width' \in [Ranks -> {8, 16, 64}]
    <3>1. \A values : Downcast(values) \in {8, 16, 64}
      BY DEF Downcast
    <3>2. \E bits \in {8, 16, 64} : width' = [width EXCEPT ![rank] = bits]
      BY <2>2, <3>1
    <3> QED
      BY <3>2 DEF Types
  <2> QED
    BY <2>2, <2>3, <2>4, MinRank DEF Types
<1>3. CASE ConstructAgain
  BY <1>3 DEF ConstructAgain, Types, threadVars
<1>4. CASE Query
  <2>1. UNCHANGED buildVars /\ pc = "ready"
    BY <1>4 DEF Query, GetGpuKernels, GetNodeAttributes, GetCsgOfNode, GetStackOfNode
  <2>2. \E asked : cached_rank' = QueriedRank(asked)
    BY <1>4 DEF Query, GetGpuKernels, GetNodeAttributes, GetCsgOfNode, GetStackOfNode
  <2>3. cached_rank' \in Ranks
    BY <2>1, <2>2 DEF QueriedRank, Types
  <2> QED
    BY <2>1, <2>3 DEF Types, buildVars, threadVars
<1>5. CASE UNCHANGED vars
  BY <1>5 DEF vars, buildVars, threadVars, queryVars, Types
<1> QED
  BY <1>1, <1>2, <1>3, <1>4, <1>5, TypesThreads DEF Next, Build

(* Every variable always has its type. *)
THEOREM TypeCorrect == Spec => []TypeOK
<1>1. Inv /\ Types => TypeOK
  <2>1. Inv => DOMAIN trace = Ranks
    BY TracesAssumption DEF Inv, RankBegun
  <2>2. Inv => \A r \in DOMAIN nodes : DOMAIN nodes[r] \subseteq Int /\ Range(nodes[r]) \subseteq NodeType
    BY DEF Inv, NodesSound, Sound, NodeMap, Range
  <2> QED
    BY <2>1, <2>2 DEF Inv, RankBegun, Types, TypeOK
<1>2. Spec => []Types
  BY Invariance, TypesInit, TypesStep, PTL DEF Spec
<1> QED
  BY Invariance, <1>1, <1>2, PTL

-----------------------------------------------------------------------------
(* Walks up the node map: the second invariant                             *)

(* Heights of nodes, by which a parent is below its child.                 *)
HeightOf(map, h) ==
  /\ h \in [DOMAIN map -> Nat]
  /\ \A n \in DOMAIN map : n >= 0 => h[map[n].parent] < h[n]

Founded(map) == IsFiniteSet(DOMAIN map) /\ \E h : HeightOf(map, h)

(* A part of a finite set that lacks an element is smaller.                *)
LEMMA SmallerPart ==
  ASSUME NEW S, IsFiniteSet(S), NEW T, T \subseteq S, NEW x \in S, x \notin T
  PROVE  Cardinality(T) \in Nat /\ Cardinality(S) \in Nat /\ Cardinality(T) < Cardinality(S)
<1>1. T \in SUBSET S /\ T # S
  OBVIOUS
<1>2. IsFiniteSet(T) /\ Cardinality(T) <= Cardinality(S) /\ Cardinality(T) # Cardinality(S)
  BY <1>1, FS_Subset
<1> QED
  BY <1>2, FS_CardinalityType

(* The walk of Up is a function on the numbers of its steps.               *)
LEMMA UpSteps ==
  ASSUME NEW map, Sound(map), IsFiniteSet(DOMAIN map), NEW idx \in DOMAIN map
  PROVE  /\ Cardinality(DOMAIN map) \in Nat
         /\ DOMAIN Up(map, idx) = 0 .. Cardinality(DOMAIN map)
         /\ Up(map, idx)[0] = idx
         /\ \A k \in 0 .. Cardinality(DOMAIN map) : Up(map, idx)[k] \in DOMAIN map
         /\ \A k \in 0 .. Cardinality(DOMAIN map) - 1 :
              Up(map, idx)[k + 1] = IF Up(map, idx)[k] >= 0 THEN map[Up(map, idx)[k]].parent
                                    ELSE Up(map, idx)[k]
<1> DEFINE D == DOMAIN map
           N == Cardinality(DOMAIN map)
           step == [n \in D |-> IF n >= 0 THEN map[n].parent ELSE n]
           Step(g, k) == IF k = 0 THEN idx
                         ELSE LET below == g[k - 1]
                              IN IF below >= 0 /\ below \in DOMAIN map THEN map[below].parent
                                 ELSE below
           up == CHOOSE g : g = [k \in 0 .. N |-> Step(g, k)]
<1>1. N \in Nat
  BY FS_CardinalityType
<1>2. step \in [D -> D]
  BY DEF Sound, Agree
<1>3. PICK f \in [Nat -> D] : f[0] = idx /\ \A k \in Nat : f[k + 1] = step[f[k]]
  <2> HIDE DEF step, D
  <2>1. idx \in D
    BY DEF D
  <2> QED
    BY <1>2, <2>1, Iterates
<1> DEFINE g == [k \in 0 .. N |-> f[k]]
<1>4. \A k \in 0 .. N : g[k] = Step(g, k)
  <2> SUFFICES ASSUME NEW k \in 0 .. N PROVE g[k] = Step(g, k)
    OBVIOUS
  <2>1. CASE k = 0
    BY <1>3, <2>1
  <2>2. CASE k # 0
    <3>1. k - 1 \in Nat /\ k - 1 \in 0 .. N /\ (k - 1) + 1 = k
      BY <1>1, <2>2
    <3>2. f[k] = step[f[k - 1]] /\ f[k - 1] \in D
      BY <1>3, <3>1
    <3>3. g[k] = f[k] /\ g[k - 1] = f[k - 1]
      BY <3>1
    <3> HIDE DEF g
    <3> QED
      BY <2>2, <3>2, <3>3
  <2> QED
    BY <2>1, <2>2
<1>5. g = [k \in 0 .. N |-> Step(g, k)]
  <2>1. g = [k \in 0 .. N |-> g[k]]
    OBVIOUS
  <2> HIDE DEF g, Step
  <2> QED
    BY <1>4, <2>1
<1>6. up = [k \in 0 .. N |-> Step(up, k)]
  <2> HIDE DEF g, Step
  <2> QED
    BY <1>5
<1>7. Up(map, idx) = up
  BY DEF Up
<1> HIDE DEF up, g
<1>8. up[0] = idx /\ DOMAIN up = 0 .. N
  <2>1. up[0] = Step(up, 0)
    <3> HIDE DEF Step
    <3> QED
      BY <1>1, <1>6
  <2>2. DOMAIN up = 0 .. N
    <3> HIDE DEF Step
    <3> QED
      BY <1>6
  <2> QED
    BY <2>1, <2>2
<1>9. \A k \in 0 .. N - 1 :
        up[k + 1] = IF up[k] >= 0 /\ up[k] \in D THEN map[up[k]].parent ELSE up[k]
  <2> SUFFICES ASSUME NEW k \in 0 .. N - 1
               PROVE  up[k + 1] = IF up[k] >= 0 /\ up[k] \in D THEN map[up[k]].parent ELSE up[k]
    OBVIOUS
  <2>1. k + 1 \in 0 .. N /\ k + 1 # 0 /\ (k + 1) - 1 = k
    BY <1>1
  <2>2. up[k + 1] = Step(up, k + 1)
    <3> HIDE DEF Step
    <3> QED
      BY <1>6, <2>1
  <2> QED
    BY <2>1, <2>2
<1> DEFINE S == {k \in Nat : k <= N => up[k] \in D}
<1>10. Nat \subseteq S
  <2>1. 0 \in S
    BY <1>8
  <2>2. ASSUME NEW k \in Nat, k \in S PROVE k + 1 \in S
    <3> SUFFICES ASSUME k + 1 <= N PROVE up[k + 1] \in D
      OBVIOUS
    <3>1. k \in 0 .. N - 1 /\ up[k] \in D
      BY <1>1, <2>2
    <3>2. up[k + 1] = IF up[k] >= 0 THEN map[up[k]].parent ELSE up[k]
      BY <1>9, <3>1
    <3> QED
      BY <3>1, <3>2 DEF Sound, Agree
  <2> HIDE DEF S
  <2> QED
    BY <2>1, <2>2, Naturals
<1>11. \A k \in 0 .. N : up[k] \in D
  <2> SUFFICES ASSUME NEW k \in 0 .. N PROVE up[k] \in D
    OBVIOUS
  <2>1. k \in Nat /\ k <= N
    BY <1>1
  <2> QED
    BY <1>10, <2>1
<1>12. \A k \in 0 .. N - 1 : up[k + 1] = IF up[k] >= 0 THEN map[up[k]].parent ELSE up[k]
  <2> SUFFICES ASSUME NEW k \in 0 .. N - 1
               PROVE  up[k + 1] = IF up[k] >= 0 THEN map[up[k]].parent ELSE up[k]
    OBVIOUS
  <2>1. k \in 0 .. N
    BY <1>1
  <2> QED
    BY <1>9, <1>11, <2>1
<1> QED
  BY <1>1, <1>7, <1>8, <1>11, <1>12

(* Where the heights fall on the way up, a walk of as many steps as there  *)
(* are nodes ends at a root: under every node that it passes are fewer.    *)
LEMMA WalksEnd ==
  ASSUME NEW map, Sound(map), Founded(map), NEW idx \in DOMAIN map
  PROVE  ReachesRoot(map, idx) /\ GetRoot(map, idx) < 0
<1>1. PICK h : HeightOf(map, h)
  BY DEF Founded
<1> DEFINE D == DOMAIN map
           N == Cardinality(DOMAIN map)
           up == Up(map, idx)
           Under(n) == {m \in D : h[m] < h[n]}
<1>2. /\ N \in Nat /\ up[0] = idx /\ IsFiniteSet(D)
      /\ \A k \in 0 .. N : up[k] \in D
      /\ \A k \in 0 .. N - 1 : up[k + 1] = IF up[k] >= 0 THEN map[up[k]].parent ELSE up[k]
  BY UpSteps DEF Founded
<1> HIDE DEF up
<1>3. \A n \in D : IsFiniteSet(Under(n)) /\ Cardinality(Under(n)) \in Nat
  <2> SUFFICES ASSUME NEW n \in D PROVE IsFiniteSet(Under(n)) /\ Cardinality(Under(n)) \in Nat
    OBVIOUS
  <2>1. IsFiniteSet(Under(n))
    BY <1>2, FS_Subset
  <2> QED
    BY <2>1, FS_CardinalityType
<1>4. \A n \in D : h[n] \in Nat /\ n \in Int
  BY <1>1 DEF HeightOf, Sound, NodeMap
<1>5. ASSUME NEW n \in D, n >= 0
      PROVE  map[n].parent \in D /\ Cardinality(Under(map[n].parent)) < Cardinality(Under(n))
  <2>1. map[n].parent \in D /\ h[map[n].parent] < h[n]
    BY <1>1, <1>5 DEF HeightOf, Sound, Agree
  <2>2. Under(map[n].parent) \subseteq Under(n)
    BY <1>4, <2>1
  <2>3. map[n].parent \in Under(n) /\ map[n].parent \notin Under(map[n].parent)
    BY <1>4, <2>1
  <2>4. IsFiniteSet(Under(n))
    BY <1>3
  <2> HIDE DEF Under
  <2> QED
    BY <2>1, <2>2, <2>3, <2>4, SmallerPart
<1>6. Cardinality(Under(idx)) < N
  <2>1. Under(idx) \subseteq D /\ idx \in D /\ idx \notin Under(idx)
    BY <1>4
  <2> HIDE DEF Under, D
  <2>2. Cardinality(Under(idx)) < Cardinality(D)
    BY <1>2, <2>1, SmallerPart
  <2> QED
    BY <2>2 DEF D
<1> DEFINE S == {k \in Nat : k <= N => up[k] < 0 \/ Cardinality(Under(up[k])) < N - k}
<1>7. Nat \subseteq S
  <2>1. 0 \in S
    BY <1>2, <1>6
  <2>2. ASSUME NEW k \in Nat, k \in S PROVE k + 1 \in S
    <3> SUFFICES ASSUME k + 1 <= N PROVE up[k + 1] < 0 \/ Cardinality(Under(up[k + 1])) < N - (k + 1)
      OBVIOUS
    <3>1. k \in 0 .. N - 1 /\ k \in 0 .. N
      BY <1>2
    <3>2. up[k] \in D /\ up[k + 1] = IF up[k] >= 0 THEN map[up[k]].parent ELSE up[k]
      BY <1>2, <3>1
    <3>3. up[k] < 0 \/ Cardinality(Under(up[k])) < N - k
      BY <2>2, <3>1
    <3> HIDE DEF Under, N, D
    <3>4. CASE up[k] < 0
      BY <1>4, <3>2, <3>4
    <3>5. CASE up[k] >= 0
      <4>1. /\ up[k + 1] \in D
            /\ Cardinality(Under(up[k + 1])) < Cardinality(Under(up[k]))
        BY <1>5, <3>2, <3>5
      <4> QED
        BY <1>2, <1>3, <1>4, <3>2, <3>3, <3>5, <4>1
    <3> QED
      BY <1>4, <3>2, <3>4, <3>5
  <2> HIDE DEF S
  <2> QED
    BY <2>1, <2>2, Naturals
<1>8. up[N] < 0
  <2>1. N \in S /\ up[N] \in D
    BY <1>2, <1>7
  <2>2. up[N] < 0 \/ Cardinality(Under(up[N])) < N - N
    BY <1>2, <2>1
  <2> HIDE DEF Under, N, D
  <2> QED
    BY <1>2, <1>3, <2>1, <2>2
<1>9. GetRoot(map, idx) = up[N] /\ (ReachesRoot(map, idx) <=> ~(up[N] >= 0 /\ up[N] \in D))
  BY DEF ReachesRoot, GetRoot, up
<1>10. up[N] \in Int
  BY <1>2, <1>4
<1> HIDE DEF N, D
<1> QED
  BY <1>8, <1>9, <1>10

(* A set of nodes that has the parents of its events has the end of their  *)
(* walks.                                                                  *)
LEMMA WalksStay ==
  ASSUME NEW map, Sound(map), Founded(map), NEW M, M \subseteq DOMAIN map,
         \A n \in M : n >= 0 => map[n].parent \in M, NEW idx \in M
  PROVE  GetRoot(map, idx) \in M
<1> DEFINE N == Cardinality(DOMAIN map)
           up == Up(map, idx)
           S == {k \in Nat : k <= N => up[k] \in M}
<1>1. /\ N \in Nat /\ up[0] = idx
      /\ \A k \in 0 .. N - 1 : up[k + 1] = IF up[k] >= 0 THEN map[up[k]].parent ELSE up[k]
  BY UpSteps DEF Founded
<1> HIDE DEF up, N
<1>2. Nat \subseteq S
  <2>1. 0 \in S
    BY <1>1
  <2>2. ASSUME NEW k \in Nat, k \in S PROVE k + 1 \in S
    <3> SUFFICES ASSUME k + 1 <= N PROVE up[k + 1] \in M
      OBVIOUS
    <3>1. k \in 0 .. N - 1 /\ up[k] \in M
      BY <1>1, <2>2
    <3> QED
      BY <1>1, <3>1
  <2> HIDE DEF S
  <2> QED
    BY <2>1, <2>2, Naturals
<1>3. up[N] \in M
  BY <1>1, <1>2
<1> QED
  BY <1>3 DEF GetRoot, up, N

(* The root that the path from each node ends at.                          *)
TopsOf(map, t) ==
  /\ t \in [DOMAIN map -> Int]
  /\ \A n \in DOMAIN map : /\ n < 0 => t[n] = n
                           /\ n >= 0 => t[n] = t[map[n].parent]

(* One node more, x, the others keep their parents.                        *)
OneMore(map, more, x) ==
  /\ x \notin DOMAIN map /\ DOMAIN more = DOMAIN map \cup {x}
  /\ \A n \in DOMAIN map : more[n].parent = map[n].parent
  /\ x >= 0 => more[x].parent \in DOMAIN map

(* Paths that ended still end, where they did.                             *)
PathsKept(map, more) ==
  /\ Founded(map) => Founded(more)
  /\ \A t : TopsOf(map, t) => \E u : TopsOf(more, u) /\ \A n \in DOMAIN map : u[n] = t[n]

LEMMA OneMoreKeepsPaths ==
  ASSUME NEW map, Sound(map), NEW x \in Int, NEW more, OneMore(map, more, x)
  PROVE  PathsKept(map, more)
<1>1. \A n \in DOMAIN map : n \in Int /\ n # x /\ (n >= 0 => map[n].parent \in DOMAIN map)
  BY DEF Sound, NodeMap, Agree, OneMore
<1>2. Founded(map) => Founded(more)
  <2> SUFFICES ASSUME Founded(map) PROVE Founded(more)
    OBVIOUS
  <2>1. PICK h : HeightOf(map, h)
    BY DEF Founded
  <2> DEFINE top == IF x >= 0 THEN h[more[x].parent] + 1 ELSE 0
             g == [n \in DOMAIN more |-> IF n = x THEN top ELSE h[n]]
  <2>2. top \in Nat
    BY <2>1 DEF HeightOf, OneMore
  <2>3. \A n \in DOMAIN map : g[n] = h[n] /\ h[n] \in Nat
    BY <1>1, <2>1 DEF HeightOf, OneMore
  <2>4. g[x] = top /\ g \in [DOMAIN more -> Nat]
    BY <2>2, <2>3 DEF OneMore
  <2> HIDE DEF g
  <2>5. \A n \in DOMAIN more : n >= 0 => g[more[n].parent] < g[n]
    <3> SUFFICES ASSUME NEW n \in DOMAIN more, n >= 0 PROVE g[more[n].parent] < g[n]
      OBVIOUS
    <3>1. CASE n = x
      <4>1. more[x].parent \in DOMAIN map /\ top = h[more[x].parent] + 1
        BY <3>1 DEF OneMore
      <4> QED
        BY <2>3, <2>4, <3>1, <4>1
    <3>2. CASE n # x
      <4>1. n \in DOMAIN map /\ more[n].parent = map[n].parent
        BY <3>2 DEF OneMore
      <4> QED
        BY <1>1, <2>1, <2>3, <4>1 DEF HeightOf
    <3> QED
      BY <3>1, <3>2
  <2>6. IsFiniteSet(DOMAIN more)
    BY FS_AddElement DEF Founded, OneMore
  <2> QED
    BY <2>4, <2>5, <2>6 DEF Founded, HeightOf
<1>3. ASSUME NEW t, TopsOf(map, t)
      PROVE  \E u : TopsOf(more, u) /\ \A n \in DOMAIN map : u[n] = t[n]
  <2> DEFINE top == IF x >= 0 THEN t[more[x].parent] ELSE x
             u == [n \in DOMAIN more |-> IF n = x THEN top ELSE t[n]]
  <2>1. top \in Int
    BY <1>3 DEF TopsOf, OneMore
  <2>2. \A n \in DOMAIN map : u[n] = t[n] /\ t[n] \in Int
    BY <1>1, <1>3 DEF TopsOf, OneMore
  <2>3. u[x] = top /\ u \in [DOMAIN more -> Int]
    BY <2>1, <2>2 DEF OneMore
  <2> HIDE DEF u
  <2>4. \A n \in DOMAIN more : /\ n < 0 => u[n] = n
                               /\ n >= 0 => u[n] = u[more[n].parent]
    <3> SUFFICES ASSUME NEW n \in DOMAIN more
                 PROVE  /\ n < 0 => u[n] = n
                        /\ n >= 0 => u[n] = u[more[n].parent]
      OBVIOUS
    <3>1. CASE n = x
      <4>1. x >= 0 => more[x].parent \in DOMAIN map
        BY DEF OneMore
      <4> QED
        BY <2>2, <2>3, <3>1, <4>1
    <3>2. CASE n # x
      <4>1. n \in DOMAIN map /\ more[n].parent = map[n].parent
        BY <3>2 DEF OneMore
      <4> QED
        BY <1>1, <1>3, <2>2, <4>1 DEF TopsOf
    <3> QED
      BY <3>1, <3>2
  <2> QED
    BY <2>2, <2>3, <2>4 DEF TopsOf
<1> QED
  BY <1>2, <1>3 DEF PathsKept

(* The root of a thread.                                                   *)
LEMMA WithRootKeepsPaths ==
  ASSUME NEW map, NEW root \in Int, root < 0, Sound(map)
  PROVE  PathsKept(map, WithRoot(map, root))
<1>1. CASE root \in DOMAIN map
  BY <1>1 DEF WithRoot, PathsKept
<1>2. CASE root \notin DOMAIN map
  <2>1. OneMore(map, WithRoot(map, root), root)
    BY <1>2 DEF WithRoot, Put, OneMore
  <2> QED
    BY <2>1, OneMoreKeepsPaths
<1> QED
  BY <1>1, <1>2

(* An edge to a new node.                                                  *)
LEMMA AddEdgeIsOneMore ==
  ASSUME NEW map, NEW root, NEW parent, NEW child, NEW device,
         parent \in DOMAIN map, child \notin DOMAIN map
  PROVE  /\ OneMore(map, AddEdge(map, root, parent, child, device), child)
         /\ AddEdge(map, root, parent, child, device)[child].parent = parent
<1> DEFINE with == Adopt(map, parent, child)
           node == Node(parent, with[parent].depth + 1, device, {})
           added == Put(with, child, node)
<1>1. AddEdge(map, root, parent, child, device) = added
  BY DEF AddEdge
<1>2. DOMAIN with = DOMAIN map /\ \A n \in DOMAIN map : with[n].parent = map[n].parent
  BY DEF Adopt, Node
<1>3. node.parent = parent
  BY DEF Node
<1> HIDE DEF with, node
<1>4. OneMore(map, added, child) /\ added[child].parent = parent
  BY <1>2, <1>3 DEF Put, OneMore
<1> QED
  BY <1>1, <1>4

(* The depths that are saved.                                              *)
LEMMA WithDepthKeepsPaths ==
  ASSUME NEW map, Sound(map), Founded(map)
  PROVE  Founded(WithDepth(map))
<1>1. DOMAIN WithDepth(map) = DOMAIN map /\ \A n \in DOMAIN map : WithDepth(map)[n].parent = map[n].parent
  BY DEF WithDepth, Node
<1>2. \A n \in DOMAIN map : n >= 0 => map[n].parent \in DOMAIN map
  BY DEF Sound, Agree
<1> QED
  BY <1>1, <1>2 DEF Founded, HeightOf

(* Children of a root that move under a node which is not below the root:  *)
(* M is a set of nodes without it, in which paths stay.                    *)
LEMMA UpdateParentKeepsPaths ==
  ASSUME NEW map, NEW root \in DOMAIN map, NEW new_parent, NEW indices,
         Sound(map), Founded(map), root < 0, new_parent >= 0, indices \subseteq map[root].children,
         NEW M, M \subseteq DOMAIN map, new_parent \in M, root \notin M,
         \A n \in M : n >= 0 => map[n].parent \in M
  PROVE  LET updated == UpdateParent(map, indices, new_parent)
         IN /\ Founded(updated) /\ M \subseteq DOMAIN updated
            /\ \A n \in M : n >= 0 => updated[n].parent \in M
<1> DEFINE valid == (indices \cap DOMAIN map) \ map[new_parent].children
           old_parents == {map[n].parent : n \in valid}
           attached == [n \in DOMAIN map |->
             Node(IF n \in valid THEN new_parent ELSE map[n].parent,
                  map[n].depth, map[n].device,
                  (map[n].children \cup (IF n = new_parent THEN valid ELSE {}))
                    \ (IF n \in old_parents THEN valid ELSE {}))]
           emptied == {p \in old_parents : attached[p].children = {}}
           updated == UpdateParent(map, indices, new_parent)
<1>1. updated = [n \in DOMAIN map \ emptied |-> attached[n]]
  BY DEF UpdateParent
<1>2. \A n \in valid : n \in DOMAIN map /\ map[n].parent = root /\ n >= 0
  BY DEF Sound, Agree, ChildrenAreEvents
<1>3. emptied \subseteq {root}
  BY <1>2
<1>4. /\ DOMAIN updated \subseteq DOMAIN map /\ M \subseteq DOMAIN updated
      /\ \A n \in DOMAIN updated : updated[n].parent = IF n \in valid THEN new_parent ELSE map[n].parent
  <2>1. \A n \in DOMAIN map : attached[n].parent = IF n \in valid THEN new_parent ELSE map[n].parent
    BY DEF Node
  <2> HIDE DEF updated, attached, emptied
  <2>2. DOMAIN updated = DOMAIN map \ emptied /\ \A n \in DOMAIN updated : updated[n] = attached[n]
    BY <1>1
  <2> HIDE DEF old_parents, valid
  <2> QED
    BY <1>3, <2>1, <2>2
<1> HIDE DEF updated, attached, emptied, old_parents, valid
<1>5. \A n \in M : n \notin valid
  <2> SUFFICES ASSUME NEW n \in M, n \in valid PROVE FALSE
    OBVIOUS
  <2> QED
    BY <1>2
<1>6. \A n \in M : n >= 0 => updated[n].parent \in M
  BY <1>4, <1>5
<1>7. Founded(updated)
  <2>1. PICK h : HeightOf(map, h)
    BY DEF Founded
  <2>2. /\ \A n \in DOMAIN map : h[n] \in Nat
        /\ \A n \in DOMAIN map : n >= 0 => map[n].parent \in DOMAIN map /\ h[map[n].parent] < h[n]
    BY <2>1 DEF HeightOf, Sound, Agree
  <2> DEFINE K == h[new_parent] + 1
             g == [n \in DOMAIN updated |-> IF n \in M THEN h[n] ELSE h[n] + K]
  <2>3. K \in Nat
    BY <2>2
  <2>4. /\ g \in [DOMAIN updated -> Nat]
        /\ \A n \in DOMAIN updated : g[n] = IF n \in M THEN h[n] ELSE h[n] + K
    BY <1>4, <2>2, <2>3
  <2> HIDE DEF g
  <2>5. \A n \in DOMAIN updated : n >= 0 => g[updated[n].parent] < g[n]
    <3> SUFFICES ASSUME NEW n \in DOMAIN updated, n >= 0 PROVE g[updated[n].parent] < g[n]
      OBVIOUS
    <3>1. n \in DOMAIN map /\ h[n] \in Nat
      BY <1>4, <2>2
    <3>2. Sound(updated) /\ updated[n].parent \in DOMAIN updated
      <4>1. Sound(updated)
        BY UpdateParentSound DEF updated
      <4> QED
        BY <4>1 DEF Sound, Agree
    <3>3. CASE n \in valid
      <4>1. updated[n].parent = new_parent /\ g[new_parent] = h[new_parent] /\ g[n] = h[n] + K
        BY <1>4, <1>5, <2>4, <3>2, <3>3
      <4>2. h[new_parent] \in Nat
        BY <2>2
      <4> QED
        BY <3>1, <4>1, <4>2
    <3>4. CASE n \notin valid
      <4>1. updated[n].parent = map[n].parent /\ h[map[n].parent] < h[n] /\ h[map[n].parent] \in Nat
        BY <1>4, <2>2, <3>1, <3>4
      <4>2. n \in M => updated[n].parent \in M
        BY <1>6
      <4>3. /\ g[n] = IF n \in M THEN h[n] ELSE h[n] + K
            /\ g[map[n].parent] = IF map[n].parent \in M THEN h[map[n].parent]
                                  ELSE h[map[n].parent] + K
        BY <2>4, <3>2, <4>1
      <4> HIDE DEF K
      <4> QED
        BY <2>3, <3>1, <4>1, <4>2, <4>3
    <3> QED
      BY <3>3, <3>4
  <2>6. IsFiniteSet(DOMAIN updated)
    BY <1>4, FS_Subset DEF Founded
  <2> QED
    BY <2>4, <2>5, <2>6 DEF Founded, HeightOf
<1> QED
  BY <1>4, <1>6, <1>7 DEF updated

-----------------------------------------------------------------------------
(* The annotations of a thread of the host are events of the host, which   *)
(* the replay makes nodes of.                                              *)
AnnotationsOnHost ==
  \A frames \in Traces : \A r \in Ranks : \A th \in Threads(frames[r]) :
    \A e \in ThreadRows(frames[r], th) :
      e.name = "## backward ##" \/ e.name = "ProfilerStep#" => e.stream = -1

(* As long as there are annotations to link, the two stacks have a root    *)
(* each: their threads have not the same number, and annotations before    *)
(* the last leave an event at the root of the backward thread.             *)
RootsApart ==
  pc = "connect" /\ annotations # {} =>
    \A pair \in Pairs(rank) : stacks[pair[1]].root # stacks[pair[2]].root

AllFounded == \A r \in DOMAIN nodes : Founded(nodes[r])

(* The events of the host are below the roots of their threads.            *)
HostTops(map, rows, t) ==
  /\ TopsOf(map, t)
  /\ \A e \in rows : e.stream = -1 /\ e.index \in DOMAIN map => t[e.index] = -e.tid

Topped == pc \in {"thread", "replay"} => \E t : HostTops(nodes[rank], trace[rank], t)

StackOnHost ==
  pc = "replay" => \A i \in 1 .. Len(stack) :
                     \E e \in HostRows(trace[rank], thread) : stack[i] = e.index

(* The threads that are finished have their root, and all their events.    *)
Whole(map, rows, th) ==
  /\ th \in Threads(rows) /\ RootIndex(th) \in DOMAIN map
  /\ \A e \in HostRows(rows, th) : e.index \in DOMAIN map

Stacked ==
  pc \in {"thread", "replay"} => \A i \in DOMAIN stacks : stacks[i].rank = rank =>
    stacks[i].root = RootIndex(stacks[i].thread) /\ Whole(nodes[rank], trace[rank], stacks[i].thread)

(* The nodes M under the root of the main thread, with the annotations.    *)
UnderMain(map, root, M) ==
  /\ annotations \subseteq M /\ M \subseteq DOMAIN map
  /\ \A n \in M : /\ n < 0 => n = root
                  /\ n >= 0 => map[n].parent \in M

Connected ==
  pc = "connect" => \A pair \in Pairs(rank) :
    /\ stacks[pair[1]].root \in DOMAIN nodes[rank]
    /\ \E M : UnderMain(nodes[rank], stacks[pair[2]].root, M)

PathsInv == AllFounded /\ Topped /\ StackOnHost /\ Stacked /\ Connected

(* The map of one rank is replaced by one whose paths end too.             *)
LEMMA OneFounded ==
  ASSUME AllFounded, NEW N, Founded(N), NEW r, nodes' = Put(nodes, r, N)
  PROVE  AllFounded' /\ nodes'[r] = N
<1>1. DOMAIN nodes' = DOMAIN nodes \cup {r} /\ nodes'[r] = N
      /\ \A s \in DOMAIN nodes : s # r => nodes'[s] = nodes[s]
  BY DEF Put
<1> QED
  BY <1>1 DEF AllFounded

LEMMA PathsInit == Init => PathsInv
  BY DEF Init, PathsInv, AllFounded, Topped, StackOnHost, Stacked, Connected

LEMMA PathsUnchanged == PathsInv /\ UNCHANGED <<trace, buildVars>> => PathsInv'
<1> SUFFICES ASSUME PathsInv, UNCHANGED <<trace, buildVars>> PROVE PathsInv'
  OBVIOUS
<1>1. UNCHANGED <<trace, pc, rank, thread, stack, annotations, nodes, stacks>>
  BY DEF buildVars, threadVars
<1>2. AllFounded' /\ Topped' /\ StackOnHost' /\ Stacked'
  BY <1>1 DEF PathsInv, AllFounded, Topped, StackOnHost, Stacked
<1>3. Connected'
  <2>1. Pairs(rank)' = Pairs(rank)
    BY <1>1 DEF Pairs, Labelled, LabelBefore
  <2> QED
    BY <1>1, <2>1 DEF PathsInv, Connected, UnderMain
<1> QED
  BY <1>2, <1>3 DEF PathsInv

LEMMA EmptyPaths == Founded([n \in {} |-> {}]) /\ \A rows : HostTops([n \in {} |-> {}], rows, [n \in {} |-> 0])
<1> DEFINE N == [n \in {} |-> {}]
           zero == [n \in {} |-> 0]
<1>1. DOMAIN N = {} /\ zero \in [{} -> Nat] /\ zero \in [{} -> Int]
  OBVIOUS
<1> HIDE DEF N, zero
<1>2. IsFiniteSet(DOMAIN N) /\ HeightOf(N, zero)
  BY <1>1, FS_EmptySet DEF HeightOf
<1>3. \A rows : HostTops(N, rows, zero)
  BY <1>1 DEF HostTops, TopsOf
<1> QED
  BY <1>2, <1>3 DEF Founded, N, zero

LEMMA PathsStartRank == Inv /\ PathsInv /\ StartRank => PathsInv'
<1> SUFFICES ASSUME Inv, PathsInv, StartRank PROVE PathsInv'
  OBVIOUS
<1>1. PICK r \in todo : rank' = r /\ nodes' = Put(nodes, r, [n \in {} |-> {}])
  BY DEF StartRank
<1>2. pc' = "thread" /\ trace' = trace /\ stacks' = stacks
  BY DEF StartRank, threadVars
<1> DEFINE N == [n \in {} |-> {}]
<1>3. Founded(N) /\ HostTops(N, trace[r], [n \in {} |-> 0])
  BY EmptyPaths
<1>4. nodes' = Put(nodes, r, N)
  BY <1>1
<1> HIDE DEF N
<1>5. AllFounded' /\ nodes'[r] = N
  BY <1>3, <1>4, OneFounded DEF PathsInv
<1>6. Topped'
  BY <1>1, <1>2, <1>3, <1>5 DEF Topped
<1>7. Stacked'
  BY <1>1, <1>2 DEF Stacked, Inv, StackRoots
<1> QED
  BY <1>2, <1>5, <1>6, <1>7 DEF PathsInv, StackOnHost, Connected

(* Nodes that are added keep the threads that are finished whole.          *)
LEMMA StackedGrows ==
  ASSUME Stacked, pc \in {"thread", "replay"}, UNCHANGED <<trace, rank, stacks>>,
         DOMAIN nodes[rank] \subseteq DOMAIN nodes'[rank]
  PROVE  Stacked'
  BY DEF Stacked, Whole

LEMMA PathsStartThread == Inv /\ PathsInv /\ StartThread => PathsInv'
<1> SUFFICES ASSUME Inv, PathsInv, StartThread PROVE PathsInv'
  OBVIOUS
<1>1. PICK th \in threads :
        /\ thread' = th
        /\ nodes' = Put(nodes, rank, WithRoot(nodes[rank], RootIndex(th)))
  BY DEF StartThread
<1>2. /\ pc = "thread" /\ pc' \in {"replay", "raised"} /\ stack' = << >>
      /\ UNCHANGED <<trace, rank, stacks>>
  BY DEF StartThread
<1>3. /\ rank \in Ranks \cap DOMAIN nodes /\ th \in Threads(trace[rank]) /\ trace \in Traces
      /\ RootIndex(th) \in Int /\ RootIndex(th) < 0
  BY <1>2, RootsBelowEvents DEF Inv, RankBegun
<1> DEFINE N == WithRoot(nodes[rank], RootIndex(th))
<1>4. DOMAIN N = DOMAIN nodes[rank] \cup {RootIndex(th)} /\ PathsKept(nodes[rank], N)
  BY <1>3, WithRootSound, WithRootKeepsPaths DEF Inv, NodesSound
<1>5. nodes' = Put(nodes, rank, N)
  BY <1>1
<1> HIDE DEF N
<1>6. AllFounded' /\ nodes'[rank] = N
  <2>1. Founded(N)
    BY <1>3, <1>4 DEF PathsInv, AllFounded, PathsKept
  <2> QED
    BY <1>5, <2>1, OneFounded DEF PathsInv
<1>7. Topped'
  <2>1. PICK t : HostTops(nodes[rank], trace[rank], t)
    BY <1>2 DEF PathsInv, Topped
  <2>2. PICK u : TopsOf(N, u) /\ \A n \in DOMAIN nodes[rank] : u[n] = t[n]
    BY <1>4, <2>1 DEF PathsKept, HostTops
  <2>3. HostTops(N, trace[rank], u)
    <3> SUFFICES ASSUME NEW e \in trace[rank], e.stream = -1, e.index \in DOMAIN N
                 PROVE  u[e.index] = -e.tid
      BY <2>2 DEF HostTops
    <3>1. e.index \in DOMAIN nodes[rank]
      BY <1>3, <1>4, RowTypes
    <3> QED
      BY <2>1, <2>2, <3>1 DEF HostTops
  <2> QED
    BY <1>2, <1>6, <2>3 DEF Topped
<1>8. Stacked'
  BY <1>2, <1>4, <1>6, StackedGrows DEF PathsInv
<1>9. StackOnHost'
  BY <1>2 DEF StackOnHost
<1> QED
  BY <1>2, <1>6, <1>7, <1>8, <1>9 DEF PathsInv, Connected

(* An edge to a new node: if that is an event of the host, it has the top  *)
(* of its thread.                                                          *)
EdgeReady(map, rows, parent, child) ==
  /\ Sound(map) /\ Founded(map) /\ parent \in DOMAIN map /\ child \in Nat
  /\ \E t : /\ HostTops(map, rows, t)
           /\ \A e \in rows : e.stream = -1 /\ e.index = child => t[parent] = -e.tid

EdgeDone(map, rows, more) ==
  /\ Founded(more) /\ DOMAIN map \subseteq DOMAIN more
  /\ \E u : HostTops(more, rows, u)

LEMMA AddEdgeKeepsTops ==
  ASSUME NEW map, NEW rows, NEW root, NEW parent, NEW child, NEW device,
         EdgeReady(map, rows, parent, child)
  PROVE  EdgeDone(map, rows, AddEdge(map, root, parent, child, device))
<1>1. PICK t : /\ HostTops(map, rows, t)
               /\ \A e \in rows : e.stream = -1 /\ e.index = child => t[parent] = -e.tid
  BY DEF EdgeReady
<1>2. PICK more : more = AddEdge(map, root, parent, child, device)
  OBVIOUS
<1>3. Sound(map) /\ Founded(map) /\ parent \in DOMAIN map /\ child \in Int
  BY DEF EdgeReady
<1>4. CASE child \in DOMAIN map
  <2>1. more = map
    BY <1>2, <1>4 DEF AddEdge
  <2> QED
    BY <1>1, <1>2, <1>3, <2>1 DEF EdgeDone
<1>5. CASE child \notin DOMAIN map
  <2>1. OneMore(map, more, child) /\ more[child].parent = parent
    BY <1>2, <1>3, <1>5, AddEdgeIsOneMore
  <2>2. PathsKept(map, more)
    BY <1>3, <2>1, OneMoreKeepsPaths
  <2>3. PICK u : TopsOf(more, u) /\ \A n \in DOMAIN map : u[n] = t[n]
    BY <1>1, <2>2 DEF PathsKept, HostTops
  <2>4. u[child] = t[parent]
    BY <1>3, <2>1, <2>3 DEF TopsOf, OneMore, EdgeReady
  <2>5. HostTops(more, rows, u)
    BY <1>1, <2>1, <2>3, <2>4 DEF HostTops, OneMore
  <2> QED
    BY <1>2, <1>3, <2>1, <2>2, <2>5 DEF PathsKept, OneMore, EdgeDone
<1> QED
  BY <1>4, <1>5

(* A step of the replay that adds an edge.                                 *)
LEMMA EdgeAdded ==
  ASSUME PathsInv, pc \in {"thread", "replay"}, UNCHANGED <<trace, rank, stacks>>,
         NEW N, Founded(N), DOMAIN nodes[rank] \subseteq DOMAIN N, nodes' = Put(nodes, rank, N),
         \E u : HostTops(N, trace[rank], u)
  PROVE  AllFounded' /\ Topped' /\ Stacked'
<1>1. AllFounded' /\ nodes'[rank] = N
  BY OneFounded DEF PathsInv
<1>2. Topped'
  BY <1>1 DEF Topped
<1>3. Stacked'
  BY <1>1, StackedGrows DEF PathsInv
<1> QED
  BY <1>1, <1>2, <1>3

LEMMA PathsOpenEvent == Inv /\ PathsInv /\ OpenEvent => PathsInv'
<1> SUFFICES ASSUME Inv, PathsInv, OpenEvent PROVE PathsInv'
  OBVIOUS
<1> DEFINE host == HostRows(trace[rank], thread)
           parent == IF stack # << >> THEN stack[Len(stack)] ELSE RootIndex(thread)
           child == Head(ends).index
           N == AddEdge(nodes[rank], RootIndex(thread), parent, child, "CPU")
<1>1. /\ pc = "replay" /\ pc' = "replay" /\ ends # << >> /\ Head(ends).kind = Open
      /\ nodes' = Put(nodes, rank, N)
      /\ stack' = Append(stack, child)
      /\ UNCHANGED <<trace, rank, thread, stacks>>
  BY DEF OpenEvent
<1>2. /\ ends \in Seq(EndsOf(host)) /\ stack \in Seq(Int)
      /\ \A i \in 1 .. Len(stack) : stack[i] \in DOMAIN nodes[rank]
      /\ thread \in Threads(trace[rank])
  BY <1>1 DEF Inv, Replayed
<1>3. Head(ends) \in EndsOf(host)
  BY <1>1, <1>2, HeadAndTail
<1>4. PICK e \in host : Head(ends) = OpenEnd(e)
  BY <1>1, <1>3 DEF EndsOf, CloseEnd, Open, Close
<1>5. /\ child = e.index /\ child \in Nat /\ rank \in Ranks \cap DOMAIN nodes /\ trace \in Traces
      /\ Sound(nodes[rank]) /\ RootIndex(thread) \in DOMAIN nodes[rank] /\ e \in trace[rank]
  BY <1>1, <1>4, ReplayOf DEF OpenEnd
<1>6. PICK t : HostTops(nodes[rank], trace[rank], t)
  BY <1>1 DEF PathsInv, Topped
<1>7. parent \in DOMAIN nodes[rank] /\ t[parent] = RootIndex(thread)
  <2>1. CASE stack = << >>
    <3>1. RootIndex(thread) < 0
      BY <1>2, <1>5, RootsBelowEvents
    <3> QED
      BY <1>5, <1>6, <2>1, <3>1 DEF HostTops, TopsOf
  <2>2. CASE stack # << >>
    <3>1. Len(stack) \in 1 .. Len(stack) /\ parent = stack[Len(stack)]
      BY <1>2, <2>2
    <3>2. PICK d \in host : parent = d.index
      BY <1>1, <3>1 DEF PathsInv, StackOnHost
    <3>3. d \in trace[rank] /\ d.stream = -1 /\ d.tid = thread.tid
      BY DEF HostRows, ThreadRows
    <3>4. parent \in DOMAIN nodes[rank]
      BY <1>2, <3>1
    <3> HIDE DEF parent
    <3> QED
      BY <1>6, <3>2, <3>3, <3>4 DEF HostTops, RootIndex
  <2> QED
    BY <2>1, <2>2
<1>8. \A d \in trace[rank] : d.stream = -1 /\ d.index = child => t[parent] = -d.tid
  <2> SUFFICES ASSUME NEW d \in trace[rank], d.index = child PROVE t[parent] = -d.tid
    OBVIOUS
  <2>1. d = e
    BY <1>5, TracesAssumption
  <2>2. e.tid = thread.tid
    BY DEF HostRows, ThreadRows
  <2> QED
    BY <1>7, <2>1, <2>2 DEF RootIndex
<1>9. Founded(nodes[rank])
  BY <1>5 DEF PathsInv, AllFounded
<1>10. /\ Founded(N) /\ DOMAIN nodes[rank] \subseteq DOMAIN N
       /\ \E u : HostTops(N, trace[rank], u)
  <2> HIDE DEF parent, child
  <2>1. EdgeReady(nodes[rank], trace[rank], parent, child)
    BY <1>5, <1>6, <1>7, <1>8, <1>9 DEF EdgeReady
  <2>2. EdgeDone(nodes[rank], trace[rank], N)
    BY <2>1, AddEdgeKeepsTops
  <2> QED
    BY <2>2 DEF EdgeDone
<1> HIDE DEF N
<1>11. AllFounded' /\ Topped' /\ Stacked'
  BY <1>1, <1>10, EdgeAdded
<1>12. StackOnHost'
  <2> SUFFICES ASSUME NEW i \in 1 .. Len(stack') PROVE \E d \in host : stack'[i] = d.index
    BY <1>1 DEF StackOnHost
  <2> HIDE DEF child
  <2>1. (i \in 1 .. Len(stack) /\ stack'[i] = stack[i]) \/ stack'[i] = child
    BY <1>1, <1>2, <1>5
  <2> QED
    BY <1>1, <1>5, <2>1 DEF PathsInv, StackOnHost
<1> QED
  BY <1>1, <1>11, <1>12 DEF PathsInv, Connected

LEMMA PathsCloseEvent == Inv /\ PathsInv /\ CloseEvent => PathsInv'
<1> SUFFICES ASSUME Inv, PathsInv, CloseEvent PROVE PathsInv'
  OBVIOUS
<1>1. /\ pc = "replay" /\ pc' = "replay"
      /\ stack' = IF stack # << >> THEN SubSeq(stack, 1, Len(stack) - 1) ELSE stack
      /\ UNCHANGED <<trace, rank, thread, nodes, stacks>>
  BY DEF CloseEvent
<1>2. stack \in Seq(Int)
  BY <1>1 DEF Inv, Replayed
<1>3. \A i \in 1 .. Len(stack') : i \in 1 .. Len(stack) /\ stack'[i] = stack[i]
  <2>1. CASE stack = << >>
    BY <1>1, <1>2, <2>1
  <2>2. CASE stack # << >>
    <3> DEFINE n == Len(stack) - 1
    <3>1. n \in Nat /\ stack' = SubSeq(stack, 1, n) /\ n <= Len(stack)
      BY <1>1, <1>2, <2>2
    <3> HIDE DEF n
    <3>2. Len(stack') = n /\ \A i \in 1 .. n : stack'[i] = stack[i] /\ i \in 1 .. Len(stack)
      BY <1>2, <3>1
    <3> QED
      BY <3>2
  <2> QED
    BY <2>1, <2>2
<1>4. StackOnHost'
  BY <1>1, <1>3 DEF PathsInv, StackOnHost
<1>5. AllFounded' /\ Topped' /\ Stacked'
  BY <1>1 DEF PathsInv, AllFounded, Topped, Stacked
<1> QED
  BY <1>1, <1>4, <1>5 DEF PathsInv, Connected

LEMMA PathsLinkKernel == Inv /\ PathsInv /\ LinkKernel => PathsInv'
<1> SUFFICES ASSUME Inv, PathsInv, LinkKernel PROVE PathsInv'
  OBVIOUS
<1>1. PICK link \in links :
        nodes' = Put(nodes, rank,
                     AddEdge(nodes[rank], RootIndex(thread), link.cpu, link.gpu, "GPU"))
  BY DEF LinkKernel
<1>2. /\ pc = "replay" /\ pc' = "replay" /\ ends = << >>
      /\ UNCHANGED <<trace, rank, thread, stack, stacks>>
  BY DEF LinkKernel
<1>3. link \in Links(trace[rank], thread) /\ rank \in Ranks \cap DOMAIN nodes /\ trace \in Traces
      /\ Sound(nodes[rank])
  BY <1>1, <1>2, ReplayOf DEF Inv, Replayed
<1>4. PICK k \in trace[rank], e \in ThreadRows(trace[rank], thread) :
        /\ k.stream > 0 /\ k.index_correlation > 0 /\ e.index = k.index_correlation
        /\ link.cpu = k.index_correlation /\ link.gpu = k.index
  BY <1>3 DEF Links
<1>5. e \in HostRows(trace[rank], thread) /\ link.gpu \in Nat
  <2>1. e \in trace[rank]
    BY DEF ThreadRows
  <2>2. e.stream = -1
    BY <1>3, <1>4, <2>1, TracesAssumption
  <2> QED
    BY <1>3, <1>4, <2>1, <2>2, RowTypes DEF HostRows
<1>6. link.cpu \in DOMAIN nodes[rank]
  BY <1>2, <1>4, <1>5 DEF Inv, Replayed, Range
<1>7. PICK t : HostTops(nodes[rank], trace[rank], t)
  BY <1>2 DEF PathsInv, Topped
<1>8. \A d \in trace[rank] : ~(d.stream = -1 /\ d.index = link.gpu)
  <2> SUFFICES ASSUME NEW d \in trace[rank], d.stream = -1, d.index = k.index PROVE FALSE
    BY <1>4
  <2>1. d = k
    BY <1>3, TracesAssumption
  <2> QED
    BY <1>4, <2>1
<1>9. Founded(nodes[rank])
  BY <1>3 DEF PathsInv, AllFounded
<1> DEFINE N == AddEdge(nodes[rank], RootIndex(thread), link.cpu, link.gpu, "GPU")
<1>10. /\ Founded(N) /\ DOMAIN nodes[rank] \subseteq DOMAIN N
       /\ \E u : HostTops(N, trace[rank], u)
  <2>1. EdgeReady(nodes[rank], trace[rank], link.cpu, link.gpu)
    BY <1>3, <1>5, <1>6, <1>7, <1>8, <1>9 DEF EdgeReady
  <2>2. EdgeDone(nodes[rank], trace[rank], N)
    BY <2>1, AddEdgeKeepsTops
  <2> QED
    BY <2>2 DEF EdgeDone
<1>11. nodes' = Put(nodes, rank, N)
  BY <1>1
<1> HIDE DEF N
<1>12. AllFounded' /\ Topped' /\ Stacked'
  BY <1>2, <1>10, <1>11, EdgeAdded
<1>13. StackOnHost'
  BY <1>2 DEF PathsInv, StackOnHost
<1> QED
  BY <1>2, <1>12, <1>13 DEF PathsInv, Connected

LEMMA PathsFinishThread == Inv /\ PathsInv /\ FinishThread => PathsInv'
<1> SUFFICES ASSUME Inv, PathsInv, FinishThread PROVE PathsInv'
  OBVIOUS
<1> DEFINE new == [rank |-> rank, thread |-> thread, root |-> RootIndex(thread),
                   label |-> Label(trace[rank], thread)]
<1>1. /\ pc = "replay" /\ ends = << >> /\ pc' = "thread" /\ stacks' = Append(stacks, new)
      /\ UNCHANGED <<trace, rank, nodes>>
  BY DEF FinishThread
<1>2. new.root = RootIndex(thread) /\ new.thread = thread
  OBVIOUS
<1> HIDE DEF new
<1>3. Whole(nodes[rank], trace[rank], thread)
  <2>1. \A e \in HostRows(trace[rank], thread) : e.index \in DOMAIN nodes[rank]
    BY <1>1 DEF Inv, Replayed, Range
  <2> QED
    BY <1>1, <2>1 DEF Inv, Replayed, Whole
<1>4. Stacked'
  <2>1. \A i \in DOMAIN stacks' : (i \in DOMAIN stacks /\ stacks'[i] = stacks[i]) \/ stacks'[i] = new
    BY <1>1, Appended DEF Inv, StackRoots
  <2> SUFFICES ASSUME NEW i \in DOMAIN stacks', stacks'[i].rank = rank
               PROVE  /\ stacks'[i].root = RootIndex(stacks'[i].thread)
                      /\ Whole(nodes[rank], trace[rank], stacks'[i].thread)
    BY <1>1 DEF Stacked
  <2> QED
    BY <1>1, <1>2, <1>3, <2>1 DEF PathsInv, Stacked
<1>5. AllFounded' /\ Topped'
  BY <1>1 DEF PathsInv, AllFounded, Topped
<1> QED
  BY <1>1, <1>4, <1>5 DEF PathsInv, StackOnHost, Connected

(* There is one pair of stacks to connect, if any.                         *)
LEMMA OnePair ==
  ASSUME NEW r, NEW p \in Pairs(r), NEW q \in Pairs(r), stacks \in Seq(Range(stacks))
  PROVE  p[1] = q[1] /\ p[2] = q[2] /\ p[1] # p[2]
<1>1. \A i \in DOMAIN stacks : i \in Int
  OBVIOUS
<1>2. /\ p[1] \in DOMAIN stacks /\ p[2] \in DOMAIN stacks /\ LabelBefore(p[1], p[2])
      /\ q[1] \in DOMAIN stacks /\ q[2] \in DOMAIN stacks /\ LabelBefore(q[1], q[2])
      /\ {p[1], p[2]} = {q[1], q[2]}
  BY DEF Pairs, Labelled
<1>3. /\ p[1] \in Int /\ p[2] \in Int /\ q[1] \in Int /\ q[2] \in Int
  BY <1>1, <1>2
<1>4. \A i, j \in Int : LabelBefore(i, j) => ~LabelBefore(j, i)
  <2>1. "bwd" # "main"
    OBVIOUS
  <2> QED
    BY <2>1 DEF LabelBefore
<1>5. p[1] # p[2]
  BY <1>2, <1>3, <1>4
<1>6. (p[1] = q[1] /\ p[2] = q[2]) \/ (p[1] = q[2] /\ p[2] = q[1])
  BY <1>2, <1>5
<1>7. CASE p[1] = q[2] /\ p[2] = q[1]
  <2>1. LabelBefore(p[1], p[2]) /\ LabelBefore(p[2], p[1])
    BY <1>2, <1>7
  <2> QED
    BY <1>3, <1>4, <2>1
<1> QED
  BY <1>5, <1>6, <1>7

(* The annotations are events of the host of the main thread.              *)
LEMMA AnnotationRows ==
  ASSUME AnnotationsOnHost, trace \in Traces, NEW r \in Ranks, NEW th \in Threads(trace[r]),
         NEW a \in BackwardParents(r, th)
  PROVE  \E e \in HostRows(trace[r], th) : e.index = a
<1>1. a \in Named(r, th, "## backward ##") \/ a \in Named(r, th, "ProfilerStep#")
  BY Zenon DEF BackwardParents
<1>2. PICK e \in ThreadRows(trace[r], th) :
        /\ e.index = a
        /\ e.name = "## backward ##" \/ e.name = "ProfilerStep#"
  BY <1>1, Zenon DEF Named
<1>3. e.stream = -1
  BY <1>2, Zenon DEF AnnotationsOnHost
<1> QED
  BY <1>2, <1>3 DEF HostRows

LEMMA PathsStartConnect ==
  ASSUME AnnotationsOnHost
  PROVE  Inv /\ PathsInv /\ StartConnect => PathsInv'
<1> SUFFICES ASSUME Inv, PathsInv, StartConnect PROVE PathsInv'
  OBVIOUS
<1>1. /\ pc = "thread" /\ pc' = "connect"
      /\ annotations' = UNION {BackwardParents(rank, stacks[pair[2]].thread) : pair \in Pairs(rank)}
      /\ UNCHANGED <<trace, rank, nodes, stacks>>
  BY DEF StartConnect
<1>2. rank \in Ranks \cap DOMAIN nodes /\ trace \in Traces /\ stacks \in Seq(Range(stacks))
  BY <1>1 DEF Inv, RankBegun, StackRoots
<1>3. Pairs(rank)' = Pairs(rank)
  BY <1>1 DEF Pairs, Labelled, LabelBefore
<1>4. \A pair \in Pairs(rank) : \A i \in {pair[1], pair[2]} :
        /\ stacks[i].root = RootIndex(stacks[i].thread)
        /\ Whole(nodes[rank], trace[rank], stacks[i].thread)
  BY <1>1 DEF PathsInv, Stacked, Pairs, Labelled
<1>5. PICK t : HostTops(nodes[rank], trace[rank], t)
  BY <1>1 DEF PathsInv, Topped
<1>6. ASSUME NEW pair \in Pairs(rank)
      PROVE  \E M : UnderMain(nodes[rank], stacks[pair[2]].root, M)'
  <2> DEFINE th == stacks[pair[2]].thread
             root == RootIndex(th)
             M == {n \in DOMAIN nodes[rank] : t[n] = root}
  <2>1. stacks[pair[2]].root = root /\ Whole(nodes[rank], trace[rank], th)
    BY <1>4
  <2>2. annotations' = BackwardParents(rank, th)
    <3>1. \A q \in Pairs(rank) : q[2] = pair[2]
      BY <1>2, OnePair
    <3> QED
      BY <1>1, <3>1
  <2>3. ASSUME NEW a \in BackwardParents(rank, th) PROVE a \in M
    <3>1. PICK e \in HostRows(trace[rank], th) : e.index = a
      BY <1>2, <2>1, AnnotationRows DEF Whole
    <3>2. e \in trace[rank] /\ e.stream = -1 /\ e.tid = th.tid /\ a \in DOMAIN nodes[rank]
      BY <2>1, <3>1 DEF HostRows, ThreadRows, Whole
    <3> QED
      BY <1>5, <3>1, <3>2 DEF HostTops, RootIndex
  <2>4. \A n \in M : /\ n < 0 => n = root
                     /\ n >= 0 => nodes[rank][n].parent \in M
    <3>1. \A n \in DOMAIN nodes[rank] : n >= 0 => nodes[rank][n].parent \in DOMAIN nodes[rank]
      BY <1>2 DEF Inv, NodesSound, Sound, Agree
    <3> QED
      BY <1>5, <3>1 DEF HostTops, TopsOf
  <2>5. M \subseteq DOMAIN nodes[rank]
    OBVIOUS
  <2> HIDE DEF M, root, th
  <2>6. PICK under : under = M
    OBVIOUS
  <2>7. UnderMain(nodes[rank], stacks[pair[2]].root, under)'
    BY <1>1, <2>1, <2>2, <2>3, <2>4, <2>5, <2>6 DEF UnderMain
  <2> QED
    BY <2>7
<1>7. Connected'
  <2>1. \A pair \in Pairs(rank) : stacks[pair[1]].root \in DOMAIN nodes[rank]
    BY <1>4 DEF Whole
  <2> QED
    BY <1>1, <1>3, <1>6, <2>1 DEF Connected
<1>8. AllFounded'
  BY <1>1 DEF PathsInv, AllFounded
<1> QED
  BY <1>1, <1>7, <1>8 DEF PathsInv, Topped, StackOnHost, Stacked

(* The first annotation is linked, and a stack whose root is deleted gets  *)
(* the root of the main thread.                                            *)
Linking(annotation, pair) ==
  /\ \A a \in annotations : annotation <= a
  /\ annotations' = annotations \ {annotation}
  /\ stacks[pair[1]].root < 0
  /\ stacks[pair[1]].root \in DOMAIN nodes[rank] /\ annotation \in DOMAIN nodes[rank]
  /\ nodes' = Put(nodes, rank, UpdateParent(nodes[rank], Guarded(stacks[pair[1]].root, annotation),
                                            annotation))
  /\ \/ stacks' = stacks
     \/ stacks' = [stacks EXCEPT ![pair[1]].root = stacks[pair[2]].root]

(* An annotation is linked: get_root returns, and the paths end.           *)
LEMMA PathsLinkAnnotation ==
  Inv /\ PathsInv /\ RootsApart /\ LinkAnnotation =>
    /\ PathsInv' /\ pc' = "connect"
    /\ \E annotation \in annotations, pair \in Pairs(rank) : Linking(annotation, pair)
<1> SUFFICES ASSUME Inv, PathsInv, RootsApart, LinkAnnotation
             PROVE  /\ PathsInv' /\ pc' = "connect"
                    /\ \E annotation \in annotations, pair \in Pairs(rank) : Linking(annotation, pair)
  OBVIOUS
<1>1. PICK annotation \in annotations, pair \in Pairs(rank) :
        /\ \A a \in annotations : annotation <= a
        /\ annotations' = annotations \ {annotation}
        /\ LET root == stacks[pair[1]].root
               updated == UpdateParent(nodes[rank], Guarded(root, annotation), annotation)
           IN IF {root, annotation} \subseteq DOMAIN nodes[rank]
              THEN /\ nodes' = Put(nodes, rank, updated)
                   /\ IF root \in DOMAIN updated
                      THEN UNCHANGED <<pc, stacks>>
                      ELSE IF ReachesRoot(updated, annotation)
                      THEN /\ stacks' = [stacks EXCEPT ![pair[1]].root = GetRoot(updated, annotation)]
                           /\ UNCHANGED pc
                      ELSE pc' = "hung" /\ UNCHANGED stacks
              ELSE pc' = "raised" /\ UNCHANGED <<nodes, stacks>>
  BY DEF LinkAnnotation
<1>2. pc = "connect" /\ UNCHANGED <<trace, rank>>
  BY DEF LinkAnnotation
<1>3. rank \in Ranks \cap DOMAIN nodes /\ Sound(nodes[rank]) /\ Founded(nodes[rank])
      /\ stacks \in Seq(Range(stacks))
  BY <1>2 DEF Inv, RankBegun, NodesSound, StackRoots, PathsInv, AllFounded
<1> DEFINE p == pair[1]
           map == nodes[rank]
           root == stacks[p].root
           main == stacks[pair[2]].root
           updated == UpdateParent(map, Guarded(root, annotation), annotation)
<1>4. pair[1] \in DOMAIN stacks /\ stacks[pair[1]].rank = rank
  BY DEF Pairs, Labelled
<1>5. root \in DOMAIN map
  BY <1>2 DEF PathsInv, Connected
<1>6. PICK M : UnderMain(map, main, M)
  BY <1>2 DEF PathsInv, Connected
<1>7. annotation \in M /\ M \subseteq DOMAIN map /\ annotation >= 0
  BY <1>6 DEF UnderMain, Inv, RankBegun
<1>8. root < 0 /\ root # main
  BY <1>2, <1>4, <1>5 DEF Inv, StackRoots, RootsApart
<1>9. root \notin M
  BY <1>6, <1>8 DEF UnderMain
<1>10. Sound(updated) /\ Founded(updated) /\ M \subseteq DOMAIN updated
       /\ \A n \in M : n >= 0 => updated[n].parent \in M
  <2>1. Guarded(root, annotation) \subseteq map[root].children
    BY DEF Guarded
  <2>2. \A n \in M : n >= 0 => map[n].parent \in M
    BY <1>6 DEF UnderMain
  <2>3. PICK same, top, new, moved : same = map /\ top = root /\ new = annotation
                                     /\ moved = Guarded(root, annotation)
    OBVIOUS
  <2>4. /\ Sound(same) /\ Founded(same) /\ top \in DOMAIN same /\ new \in DOMAIN same
        /\ top < 0 /\ new >= 0 /\ moved \subseteq same[top].children
        /\ M \subseteq DOMAIN same /\ new \in M /\ top \notin M
        /\ \A n \in M : n >= 0 => same[n].parent \in M
    BY <1>3, <1>5, <1>7, <1>8, <1>9, <2>1, <2>2, <2>3
  <2> HIDE DEF map, root, updated
  <2>5. Sound(UpdateParent(same, moved, new))
    BY <2>4, UpdateParentSound
  <2>6. /\ Founded(UpdateParent(same, moved, new))
        /\ M \subseteq DOMAIN UpdateParent(same, moved, new)
        /\ \A n \in M : n >= 0 => UpdateParent(same, moved, new)[n].parent \in M
    BY <2>4, UpdateParentKeepsPaths
  <2> QED
    BY <2>3, <2>5, <2>6 DEF updated
<1>11. ReachesRoot(updated, annotation) /\ GetRoot(updated, annotation) = main /\ main \in M
  <2> HIDE DEF updated, main, map
  <2>1. ReachesRoot(updated, annotation) /\ GetRoot(updated, annotation) < 0
    BY <1>7, <1>10, WalksEnd
  <2>2. GetRoot(updated, annotation) \in M
    BY <1>7, <1>10, WalksStay
  <2> QED
    BY <1>6, <2>1, <2>2 DEF UnderMain
<1>12. /\ nodes' = Put(nodes, rank, updated) /\ pc' = "connect"
       /\ \/ root \in DOMAIN updated /\ stacks' = stacks
          \/ stacks' = [stacks EXCEPT ![p].root = main]
  BY <1>1, <1>2, <1>5, <1>7, <1>11
<1>17. Linking(annotation, pair)
  BY <1>1, <1>5, <1>7, <1>8, <1>12 DEF Linking
<1> HIDE DEF updated
<1>13. AllFounded' /\ nodes'[rank] = updated
  BY <1>10, <1>12, OneFounded DEF PathsInv
<1>14. /\ Pairs(rank)' = Pairs(rank) /\ \A q \in Pairs(rank) : q[1] = pair[1] /\ q[2] = pair[2]
       /\ stacks'[pair[1]].root \in DOMAIN updated /\ stacks'[pair[2]].root = main
  <2>1. pair[1] # pair[2] /\ pair[2] \in DOMAIN stacks
    BY <1>3, OnePair DEF Pairs, Labelled
  <2>2. \A q \in Pairs(rank) : q[1] = pair[1] /\ q[2] = pair[2]
    BY <1>3, OnePair
  <2>3. CASE root \in DOMAIN updated /\ stacks' = stacks
    BY <1>2, <2>1, <2>2, <2>3 DEF Pairs, Labelled, LabelBefore
  <2>4. CASE stacks' = [stacks EXCEPT ![p].root = main]
    <3> HIDE DEF main
    <3>1. stacks' = [i \in DOMAIN stacks |-> IF i = p THEN [stacks[p] EXCEPT !.root = main]
                                             ELSE stacks[i]]
      BY <1>4, <2>4
    <3>2. /\ DOMAIN stacks' = DOMAIN stacks
          /\ \A i \in DOMAIN stacks : i # p => stacks'[i] = stacks[i]
          /\ stacks'[p] = [stacks[p] EXCEPT !.root = main]
      BY <1>4, <3>1
    <3>3. \A i \in DOMAIN stacks :
            /\ stacks'[i].rank = stacks[i].rank /\ stacks'[i].label = stacks[i].label
            /\ stacks'[i].root = IF i = p THEN main ELSE stacks[i].root
      BY <3>1
    <3>4. stacks'[p].root = main
      BY <1>4, <3>3
    <3>5. Labelled(rank)' = Labelled(rank)
      BY <1>2, <3>2, <3>3 DEF Labelled
    <3>6. \A i, j \in Labelled(rank) : LabelBefore(i, j)' <=> LabelBefore(i, j)
      BY <3>3 DEF LabelBefore, Labelled
    <3>7. Pairs(rank)' = Pairs(rank)
      BY <1>2, <3>5, <3>6 DEF Pairs
    <3>8. stacks'[pair[2]].root = main
      BY <2>1, <3>2 DEF main
    <3> QED
      BY <1>10, <1>11, <2>2, <3>4, <3>7, <3>8
  <2> QED
    BY <1>12, <2>3, <2>4
<1>15. UnderMain(nodes[rank], stacks[pair[2]].root, M)'
  <2>1. annotations' \subseteq M /\ M \subseteq DOMAIN updated
    BY <1>1, <1>6, <1>10 DEF UnderMain
  <2>2. \A n \in M : n < 0 => n = main
    BY <1>6 DEF UnderMain
  <2> HIDE DEF main
  <2>3. nodes'[rank'] = updated /\ stacks'[pair[2]].root = main
    BY <1>2, <1>13, <1>14
  <2> QED
    BY <1>10, <2>1, <2>2, <2>3 DEF UnderMain
<1>16. Connected'
  <2> SUFFICES ASSUME NEW q \in Pairs(rank)'
               PROVE  /\ stacks'[q[1]].root \in DOMAIN nodes'[rank']
                      /\ \E X : UnderMain(nodes[rank], stacks[q[2]].root, X)'
    BY DEF Connected
  <2>1. q[1] = pair[1] /\ q[2] = pair[2]
    BY <1>2, <1>14
  <2> QED
    BY <1>2, <1>13, <1>14, <1>15, <2>1
<1> QED
  BY <1>12, <1>13, <1>16, <1>17 DEF PathsInv, Topped, StackOnHost, Stacked

(* The depths are saved: for the nodes of the rank of the last stack.      *)
LEMMA PathsSaveStacks == Inv /\ PathsInv /\ SaveStacks => PathsInv'
<1> SUFFICES ASSUME Inv, PathsInv, SaveStacks PROVE PathsInv'
  OBVIOUS
<1> DEFINE last == IF stacks = << >> THEN rank ELSE stacks[Len(stacks)].rank
           N == WithDepth(nodes[last])
<1>1. pc = "connect" /\ pc' \in {"ready", "rank"} /\ nodes' = Put(nodes, last, N)
  BY DEF SaveStacks
<1>2. last \in DOMAIN nodes
  <2>1. CASE stacks = << >>
    BY <1>1, <2>1 DEF Inv, RankBegun
  <2>2. CASE stacks # << >>
    <3>1. Len(stacks) \in DOMAIN stacks
      BY <2>2 DEF Inv, StackRoots
    <3> QED
      BY <2>2, <3>1 DEF Inv, StackRoots
  <2> QED
    BY <2>1, <2>2
<1> HIDE DEF last
<1>3. Founded(N)
  BY <1>2, WithDepthKeepsPaths DEF Inv, NodesSound, PathsInv, AllFounded
<1> HIDE DEF N
<1>4. AllFounded'
  BY <1>1, <1>3, OneFounded DEF PathsInv
<1> QED
  BY <1>1, <1>4 DEF PathsInv, Topped, StackOnHost, Stacked, Connected

(* The next graph of the same trace begins without nodes.                  *)
LEMMA PathsConstructAgain == PathsInv /\ ConstructAgain => PathsInv'
  BY DEF ConstructAgain, PathsInv, AllFounded, Topped, StackOnHost, Stacked, Connected

(* Queries change nothing of the graph.                                    *)
LEMMA PathsQuery == PathsInv /\ Query => PathsInv'
<1> SUFFICES ASSUME PathsInv, Query PROVE PathsInv'
  OBVIOUS
<1>1. UNCHANGED <<trace, buildVars>>
  BY DEF Query, GetGpuKernels, GetNodeAttributes, GetCsgOfNode, GetStackOfNode
<1> QED
  BY <1>1, PathsUnchanged

(* The second invariant holds as long as the roots are apart.              *)
LEMMA PathsStep ==
  ASSUME AnnotationsOnHost
  PROVE  Inv /\ PathsInv /\ RootsApart /\ [Next]_vars => PathsInv'
<1>1. PathsInv /\ UNCHANGED vars => PathsInv'
  BY PathsUnchanged DEF vars
<1> QED
  BY <1>1, PathsStartRank, PathsStartThread, PathsOpenEvent, PathsCloseEvent, PathsLinkKernel,
     PathsFinishThread, PathsStartConnect, PathsLinkAnnotation, PathsSaveStacks,
     PathsConstructAgain, PathsQuery DEF Next, Build

LEMMA Paths == ASSUME AnnotationsOnHost PROVE Spec /\ []RootsApart => []PathsInv
  BY Invariance, PathsInit, PathsStep, PTL DEF Spec

(* No node is its own ancestor, whatever the trace, as long as the threads *)
(* that are connected have a root each: get_root and get_path_to_root      *)
(* return (trace_call_stack.py:523-560).                                   *)
THEOREM AlwaysPathsEnd ==
  ASSUME AnnotationsOnHost PROVE Spec /\ []RootsApart => []PathsEnd
<1>1. Inv /\ PathsInv => PathsEnd
  <2> SUFFICES ASSUME Inv, PathsInv, NEW r \in DOMAIN nodes, NEW n \in DOMAIN nodes[r]
               PROVE  ReachesRoot(nodes[r], n)
    BY DEF PathsEnd
  <2>1. Sound(nodes[r]) /\ Founded(nodes[r])
    BY DEF Inv, NodesSound, PathsInv, AllFounded
  <2> QED
    BY <2>1, WalksEnd
<1> QED
  BY Invariance, Paths, <1>1, PTL

-----------------------------------------------------------------------------
(* The constructor returns                                                 *)

(* The sort ends in an order that its own test accepts.                    *)
SortAccepted ==
  \A frames \in Traces : \A r \in Ranks : \A th \in Threads(frames[r]) :
    IsEventsSorted(Sorted(Melted(HostRows(frames[r], th))))

(* A step that is not of LinkAnnotation or StartThread goes on.            *)
LEMMA ConstructsStep ==
  ASSUME AnnotationsOnHost, SortAccepted
  PROVE  Inv /\ PathsInv /\ RootsApart /\ Constructs /\ [Next]_vars => Constructs'
<1> SUFFICES ASSUME Inv, PathsInv, RootsApart, Constructs, [Next]_vars PROVE Constructs'
  OBVIOUS
<1>1. CASE UNCHANGED vars
  BY <1>1 DEF vars, buildVars, Constructs
<1>2. CASE StartThread
  <2>1. PICK th \in threads : ends' = Sorted(Melted(HostRows(trace[rank], th)))
    BY <1>2 DEF StartThread
  <2>2. rank \in Ranks /\ th \in Threads(trace[rank]) /\ trace \in Traces
    BY <1>2 DEF Inv, RankBegun, StartThread
  <2>3. IsEventsSorted(ends')
    BY <2>1, <2>2 DEF SortAccepted
  <2>4. pc' = IF IsEventsSorted(ends') THEN "replay" ELSE "raised"
    BY <1>2 DEF StartThread
  <2> QED
    BY <2>3, <2>4 DEF Constructs
<1>3. CASE LinkAnnotation
  BY <1>3, PathsLinkAnnotation DEF Constructs
<1>4. CASE \/ StartRank \/ OpenEvent \/ CloseEvent \/ LinkKernel \/ FinishThread
           \/ StartConnect \/ SaveStacks \/ ConstructAgain
  BY <1>4 DEF Constructs, StartRank, OpenEvent, CloseEvent, LinkKernel, FinishThread, StartConnect,
              SaveStacks, ConstructAgain
<1>5. CASE Query
  <2>1. pc' = pc
    BY <1>5 DEF Query, GetGpuKernels, GetNodeAttributes, GetCsgOfNode, GetStackOfNode, buildVars
  <2> QED
    BY <2>1 DEF Constructs
<1> QED
  BY <1>1, <1>2, <1>3, <1>4, <1>5 DEF Next, Build

(* The constructor never raises and never hangs, whatever the trace: what  *)
(* get_root and update_parent_of_first_layer_nodes ask for is there, and   *)
(* the assertion on the sorted ends holds                                  *)
(* (trace_call_stack.py:112-128, 363-366, 536-537).                        *)
THEOREM AlwaysConstructs ==
  ASSUME AnnotationsOnHost, SortAccepted PROVE Spec /\ []RootsApart => []Constructs
<1>1. Init => Constructs
  BY DEF Init, Constructs
<1> QED
  BY Invariance, Paths, ConstructsStep, <1>1, PTL DEF Spec

-----------------------------------------------------------------------------
(* Traces of one step                                                      *)

(* The threads of a rank have different numbers, and an annotation is      *)
(* there once: then the roots of the stacks to connect are apart.          *)
ThreadsApart ==
  \A frames \in Traces : \A r \in Ranks : \A s, t \in Threads(frames[r]) : s # t => s.tid # t.tid
OneStep ==
  \A frames \in Traces : \A r \in Ranks : \A th \in Threads(frames[r]) :
    \A d, e \in ThreadRows(frames[r], th) :
      d.name = e.name /\ (d.name = "## backward ##" \/ d.name = "ProfilerStep#") => d = e

(* A thread has one stack.                                                 *)
OnceEach ==
  pc \in {"thread", "replay"} =>
    /\ pc = "replay" => thread \notin threads
    /\ \A i \in DOMAIN stacks : stacks[i].rank = rank =>
         /\ stacks[i].thread \notin threads
         /\ pc = "replay" => stacks[i].thread # thread
         /\ \A j \in DOMAIN stacks : stacks[j].rank = rank /\ j # i => stacks[j].thread # stacks[i].thread

OneToLink == pc = "connect" => \A a, b \in annotations : a = b

Apart == OnceEach /\ OneToLink /\ RootsApart

LEMMA ApartInit == Init => Apart
  BY DEF Init, Apart, OnceEach, OneToLink, RootsApart

LEMMA ApartUnchanged == Apart /\ UNCHANGED <<trace, buildVars>> => Apart'
<1> SUFFICES ASSUME Apart, UNCHANGED <<trace, buildVars>> PROVE Apart'
  OBVIOUS
<1>1. UNCHANGED <<trace, pc, rank, threads, thread, annotations, stacks>>
  BY DEF buildVars, threadVars
<1>2. Pairs(rank)' = Pairs(rank)
  BY <1>1 DEF Pairs, Labelled, LabelBefore
<1> QED
  BY <1>1, <1>2 DEF Apart, OnceEach, OneToLink, RootsApart

(* The stacks that are there when a rank begins are of other ranks.        *)
LEMMA ApartStartRank == Inv /\ StartRank => Apart'
<1> SUFFICES ASSUME Inv, StartRank PROVE Apart'
  OBVIOUS
<1>1. /\ rank' \in todo /\ pc' = "thread" /\ stacks' = stacks
      /\ \A i \in DOMAIN stacks : stacks[i].rank \notin todo
  BY DEF StartRank, Inv, StackRoots
<1> QED
  BY <1>1 DEF Apart, OnceEach, OneToLink, RootsApart

LEMMA ApartReplay ==
  Apart /\ (StartThread \/ OpenEvent \/ CloseEvent \/ LinkKernel) => Apart'
<1> SUFFICES ASSUME Apart, StartThread \/ OpenEvent \/ CloseEvent \/ LinkKernel PROVE Apart'
  OBVIOUS
<1>1. CASE StartThread
  BY <1>1 DEF StartThread, Apart, OnceEach, OneToLink, RootsApart
<1>2. CASE OpenEvent \/ CloseEvent \/ LinkKernel
  <2>1. pc = "replay" /\ UNCHANGED <<pc, rank, threads, thread, stacks>>
    BY <1>2 DEF OpenEvent, CloseEvent, LinkKernel
  <2> QED
    BY <2>1 DEF Apart, OnceEach, OneToLink, RootsApart
<1> QED
  BY <1>1, <1>2

LEMMA ApartFinishThread == Inv /\ Apart /\ FinishThread => Apart'
<1> SUFFICES ASSUME Inv, Apart, FinishThread PROVE Apart'
  OBVIOUS
<1> DEFINE new == [rank |-> rank, thread |-> thread, root |-> RootIndex(thread),
                   label |-> Label(trace[rank], thread)]
<1>1. /\ pc = "replay" /\ pc' = "thread" /\ stacks' = Append(stacks, new)
      /\ UNCHANGED <<rank, threads>>
  BY DEF FinishThread, threadVars
<1>2. new.thread = thread /\ new.rank = rank
  OBVIOUS
<1> HIDE DEF new
<1>3. /\ \A i \in DOMAIN stacks' : (i \in DOMAIN stacks /\ stacks'[i] = stacks[i])
                                   \/ (i = Len(stacks) + 1 /\ stacks'[i] = new)
  <2>1. stacks \in Seq(Range(stacks))
    BY DEF Inv, StackRoots
  <2> QED
    BY <1>1, <2>1
<1> QED
  BY <1>1, <1>2, <1>3 DEF Apart, OnceEach, OneToLink, RootsApart

(* The one annotation of a step, and the roots of two threads.             *)
LEMMA ApartStartConnect ==
  ASSUME ThreadsApart, OneStep
  PROVE  Inv /\ PathsInv /\ Apart /\ StartConnect => Apart'
<1> SUFFICES ASSUME Inv, PathsInv, Apart, StartConnect PROVE Apart'
  OBVIOUS
<1>1. /\ pc = "thread" /\ pc' = "connect"
      /\ annotations' = UNION {BackwardParents(rank, stacks[pair[2]].thread) : pair \in Pairs(rank)}
      /\ UNCHANGED <<trace, rank, nodes, stacks>>
  BY DEF StartConnect
<1>2. rank \in Ranks /\ trace \in Traces /\ stacks \in Seq(Range(stacks))
  BY <1>1 DEF Inv, RankBegun, StackRoots
<1>3. Pairs(rank)' = Pairs(rank)
  BY <1>1 DEF Pairs, Labelled, LabelBefore
<1>4. \A pair \in Pairs(rank) : \A i \in {pair[1], pair[2]} :
        /\ i \in DOMAIN stacks /\ stacks[i].rank = rank
        /\ stacks[i].root = RootIndex(stacks[i].thread)
        /\ stacks[i].thread \in Threads(trace[rank])
  BY <1>1 DEF PathsInv, Stacked, Whole, Pairs, Labelled
<1>5. ASSUME NEW pair \in Pairs(rank)
      PROVE  stacks[pair[1]].root # stacks[pair[2]].root
  <2>1. pair[1] # pair[2]
    BY <1>2, OnePair
  <2>2. stacks[pair[1]].thread # stacks[pair[2]].thread
    BY <1>1, <1>4, <2>1 DEF Apart, OnceEach
  <2>3. stacks[pair[1]].thread.tid # stacks[pair[2]].thread.tid
    BY <1>2, <1>4, <2>2 DEF ThreadsApart
  <2>4. \A th \in Threads(trace[rank]) : th.tid \in Nat
    <3> SUFFICES ASSUME NEW th \in Threads(trace[rank]) PROVE th.tid \in Nat
      OBVIOUS
    <3>1. PICK e \in trace[rank] : th = [pid |-> e.pid, tid |-> e.tid]
      BY DEF Threads
    <3> QED
      BY <1>2, <3>1, RowTypes
  <2> QED
    BY <1>4, <2>3, <2>4 DEF RootIndex
<1>6. \A a, b \in annotations' : a = b
  <2> SUFFICES ASSUME NEW a \in annotations', NEW b \in annotations' PROVE a = b
    OBVIOUS
  <2>1. PICK pair \in Pairs(rank) : a \in BackwardParents(rank, stacks[pair[2]].thread)
    BY <1>1
  <2>2. PICK other \in Pairs(rank) : b \in BackwardParents(rank, stacks[other[2]].thread)
    BY <1>1
  <2>3. other[2] = pair[2]
    BY <1>2, OnePair
  <2>4. PICK th : th = stacks[pair[2]].thread
    OBVIOUS
  <2>5. th \in Threads(trace[rank]) /\ a \in BackwardParents(rank, th) /\ b \in BackwardParents(rank, th)
    BY <1>4, <2>1, <2>2, <2>3, <2>4
  <2>6. \/ a \in Named(rank, th, "## backward ##") /\ b \in Named(rank, th, "## backward ##")
        \/ a \in Named(rank, th, "ProfilerStep#") /\ b \in Named(rank, th, "ProfilerStep#")
    BY <2>5, Zenon DEF BackwardParents
  <2>7. \E d, e \in ThreadRows(trace[rank], th) :
          /\ a = d.index /\ b = e.index /\ d.name = e.name
          /\ d.name = "## backward ##" \/ d.name = "ProfilerStep#"
    BY <2>6, Zenon DEF Named
  <2> QED
    BY <1>2, <2>5, <2>7, Zenon DEF OneStep
<1> QED
  BY <1>1, <1>3, <1>5, <1>6 DEF Apart, OnceEach, OneToLink, RootsApart

(* Once it is linked there is none left.                                   *)
LEMMA ApartLinkAnnotation == Apart /\ LinkAnnotation => Apart'
<1> SUFFICES ASSUME Apart, LinkAnnotation PROVE Apart'
  OBVIOUS
<1>1. pc = "connect" /\ pc' \in {"connect", "raised", "hung"}
      /\ \E a \in annotations : annotations' = annotations \ {a}
  BY DEF LinkAnnotation
<1>2. annotations' = {}
  BY <1>1 DEF Apart, OneToLink
<1> QED
  BY <1>1, <1>2 DEF Apart, OnceEach, OneToLink, RootsApart

LEMMA ApartStep ==
  ASSUME ThreadsApart, OneStep PROVE Inv /\ PathsInv /\ Apart /\ [Next]_vars => Apart'
<1> SUFFICES ASSUME Inv, PathsInv, Apart, [Next]_vars PROVE Apart'
  OBVIOUS
<1>1. CASE UNCHANGED vars \/ Query
  <2>1. UNCHANGED <<trace, buildVars>>
    BY <1>1 DEF vars, Query, GetGpuKernels, GetNodeAttributes, GetCsgOfNode, GetStackOfNode
  <2> QED
    BY <2>1, ApartUnchanged
<1>2. CASE SaveStacks \/ ConstructAgain
  <2>1. pc' \in {"ready", "rank"}
    BY <1>2 DEF SaveStacks, ConstructAgain
  <2> QED
    BY <2>1 DEF Apart, OnceEach, OneToLink, RootsApart
<1> QED
  BY <1>1, <1>2, ApartStartRank, ApartReplay, ApartFinishThread, ApartStartConnect,
     ApartLinkAnnotation DEF Next, Build

(* For a trace of one step nothing has to be supposed of the behaviour:    *)
(* no node is its own ancestor, and the constructor returns.               *)
THEOREM OneStepConstructs ==
  ASSUME AnnotationsOnHost, SortAccepted, ThreadsApart, OneStep
  PROVE  Spec => [](PathsEnd /\ Constructs)
<1>1. Inv /\ PathsInv /\ Apart /\ [Next]_vars => (PathsInv /\ Apart)'
  BY PathsStep, ApartStep DEF Apart
<1>2. Spec => [](PathsInv /\ Apart)
  BY Invariance, PathsInit, ApartInit, <1>1, PTL DEF Spec
<1>3. PathsInv /\ Apart => RootsApart
  BY DEF Apart
<1>4. Spec => []RootsApart
  BY <1>2, <1>3, PTL
<1> QED
  BY <1>4, AlwaysPathsEnd, AlwaysConstructs, PTL

-----------------------------------------------------------------------------
(* Order of the ends of one thread                                         *)

(* The events of a thread, by what the order of their ends looks at.       *)
Events(H) ==
  \A d, e \in H : /\ d.index \in Int /\ d.ts \in Int /\ d.dur \in Nat
                  /\ d.index = e.index => d = e

(* Two events overlap only if one lies within the other, and no event      *)
(* without duration lies where one ends and another starts: of three such  *)
(* ends each is before another, in a circle.                               *)
Overlapping(d, e) ==
  ~(d.ts + d.dur <= e.ts \/ e.ts + e.dur <= d.ts
      \/ (d.ts <= e.ts /\ e.ts + e.dur <= d.ts + d.dur)
      \/ (e.ts <= d.ts /\ d.ts + d.dur <= e.ts + e.dur))
Between(z, d, e) ==
  z.dur = 0 /\ d.dur > 0 /\ e.dur > 0 /\ d.ts + d.dur = z.ts /\ e.ts = z.ts

Nesting(H) ==
  /\ \A d, e \in H : ~Overlapping(d, e)
  /\ \A z, d, e \in H : ~Between(z, d, e)

StrictlyOrdered(S) ==
  /\ \A x, y \in S : x # y => (LessThan(x, y) <=> ~LessThan(y, x))
  /\ \A x, y, z \in S : x # z /\ LessThan(x, y) /\ LessThan(y, z) => LessThan(x, z)

(* Of two ends one is before the other. *)
LEMMA EndsCompare ==
  ASSUME NEW H, Events(H), NEW x \in EndsOf(H), NEW y \in EndsOf(H), x # y
  PROVE  LessThan(x, y) <=> ~LessThan(y, x)
<1>1. PICK d \in H : x = OpenEnd(d) \/ x = CloseEnd(d)
  BY DEF EndsOf
<1>2. PICK e \in H : y = OpenEnd(e) \/ y = CloseEnd(e)
  BY DEF EndsOf
<1>3. /\ d.index \in Int /\ d.ts \in Int /\ d.dur \in Nat
      /\ e.index \in Int /\ e.ts \in Int /\ e.dur \in Nat
      /\ d.index = e.index => d = e
  BY DEF Events
<1>4. CASE d = e
  BY <1>1, <1>2, <1>3, <1>4 DEF OpenEnd, CloseEnd, LessThan, Open, Close
<1>5. CASE d.index # e.index
  BY <1>1, <1>2, <1>3, <1>5
     DEF OpenEnd, CloseEnd, LessThan, LessThanWithZeroDuration, LessThanAtSameTime, Open, Close
<1> QED
  BY <1>3, <1>4, <1>5

(* Ends that are before ends in between are before. *)
LEMMA EndsFollow ==
  ASSUME NEW H, Events(H), Nesting(H), NEW x \in EndsOf(H), NEW y \in EndsOf(H), NEW z \in EndsOf(H),
         x # z, LessThan(x, y), LessThan(y, z)
  PROVE  LessThan(x, z)
<1>1. PICK d \in H : x = OpenEnd(d) \/ x = CloseEnd(d)
  BY DEF EndsOf
<1>2. PICK e \in H : y = OpenEnd(e) \/ y = CloseEnd(e)
  BY DEF EndsOf
<1>3. PICK f \in H : z = OpenEnd(f) \/ z = CloseEnd(f)
  BY DEF EndsOf
<1>4. /\ d.index \in Int /\ d.ts \in Int /\ d.dur \in Nat
      /\ e.index \in Int /\ e.ts \in Int /\ e.dur \in Nat
      /\ f.index \in Int /\ f.ts \in Int /\ f.dur \in Nat
      /\ d.index = e.index => d = e
      /\ d.index = f.index => d = f
      /\ e.index = f.index => e = f
  BY DEF Events
<1>5. /\ ~Between(d, e, f) /\ ~Between(d, f, e) /\ ~Between(e, d, f)
      /\ ~Between(e, f, d) /\ ~Between(f, d, e) /\ ~Between(f, e, d)
  BY DEF Nesting
<1>6. /\ ~Between(d, e, e) /\ ~Between(e, d, d) /\ ~Between(f, e, e) /\ ~Between(e, f, f)
      /\ ~Between(d, f, f) /\ ~Between(f, d, d)
  BY DEF Nesting
<1>10. CASE x.time # y.time \/ y.time # z.time
  BY <1>1, <1>2, <1>3, <1>4, <1>10 DEF OpenEnd, CloseEnd, LessThan
<1>11. CASE x.time = y.time /\ y.time = z.time
  <2>1. CASE d = e \/ d = f \/ e = f
    BY <1>1, <1>2, <1>3, <1>4, <1>5, <1>6, <1>11, <2>1
       DEF OpenEnd, CloseEnd, LessThan, LessThanWithZeroDuration, LessThanAtSameTime, Open, Close,
           Between
  <2>2. CASE d.index # e.index /\ d.index # f.index /\ e.index # f.index
    BY <1>1, <1>2, <1>3, <1>4, <1>5, <1>11, <2>2
       DEF OpenEnd, CloseEnd, LessThan, LessThanWithZeroDuration, LessThanAtSameTime, Open, Close,
           Between
  <2> QED
    BY <1>4, <2>1, <2>2
<1> QED
  BY <1>10, <1>11

(* The ends of nested events are strictly ordered.                         *)
LEMMA EndsOrdered ==
  ASSUME NEW H, Events(H), Nesting(H) PROVE StrictlyOrdered(EndsOf(H))
<1>1. PICK S : S = EndsOf(H)
  OBVIOUS
<1>2. ASSUME NEW x \in EndsOf(H), NEW y \in EndsOf(H), x # y PROVE LessThan(x, y) <=> ~LessThan(y, x)
  BY <1>2, EndsCompare
<1>3. ASSUME NEW x \in EndsOf(H), NEW y \in EndsOf(H), NEW z \in EndsOf(H),
             x # z, LessThan(x, y), LessThan(y, z)
      PROVE  LessThan(x, z)
  BY <1>3, EndsFollow
<1> QED
  BY <1>2, <1>3 DEF StrictlyOrdered

(* An event encloses another of its thread if that begins while it runs,   *)
(* and then that ends first. *)
LEMMA EnclosedRuns ==
  ASSUME NEW H, Events(H), Nesting(H), NEW d \in H, NEW e \in H,
         d.stream = -1, e.stream = -1, d.pid = e.pid, d.tid = e.tid, d # e
  PROVE  /\ Encloses(d, e) <=> LessThan(OpenEnd(d), OpenEnd(e)) /\ LessThan(OpenEnd(e), CloseEnd(d))
         /\ Encloses(d, e) => LessThan(CloseEnd(e), CloseEnd(d))
<1>1. /\ d.index \in Int /\ d.ts \in Int /\ d.dur \in Nat
      /\ e.index \in Int /\ e.ts \in Int /\ e.dur \in Nat
      /\ d.index # e.index
      /\ ~Overlapping(d, e)
  BY DEF Events, Nesting
<1> QED
  BY <1>1 DEF Encloses, OpenEnd, CloseEnd, LessThan, LessThanWithZeroDuration, LessThanAtSameTime,
              Open, Close, Overlapping

-----------------------------------------------------------------------------
(* Rows of a rank                                                          *)

(* Enclosing is a strict partial order. *)
LEMMA EnclosesOrder ==
  ASSUME NEW rows, Events(rows), NEW a \in rows, NEW b \in rows, NEW c \in rows, Encloses(a, b)
  PROVE  /\ a # b /\ ~Encloses(b, a)
         /\ Encloses(b, c) => Encloses(a, c)
  BY DEF Events, Encloses

(* What a trace has on the host.  A thread of the host has a number, and   *)
(* so has its process: what has the number 0 is taken for a GPU.           *)
OnHost(rows) ==
  /\ IsFiniteSet(rows)
  /\ \E e \in rows : e.stream = -1
  /\ \A e \in rows : e.stream = -1 => e.pid # 0 /\ e.tid # 0
Nested(rows) == \A th \in Threads(rows) : Nesting(HostRows(rows, th))

HostsNested ==
  \A frames \in Traces : \A r \in Ranks : OnHost(frames[r]) /\ Nested(frames[r])

(* sorted() puts what is strictly ordered in order, each end once. *)
Ordered(s) == \A i, j \in DOMAIN s : i < j => s[i] # s[j] /\ LessThan(s[i], s[j])
SortSorts ==
  \A frames \in Traces : \A r \in Ranks : \A th \in Threads(frames[r]) :
    StrictlyOrdered(EndsOf(HostRows(frames[r], th))) =>
      Ordered(Sorted(Melted(HostRows(frames[r], th))))

(* The rows of a rank of the trace. *)
Rows(rows) ==
  /\ Events(rows) /\ OnHost(rows) /\ Nested(rows)
  /\ \A e \in rows : e.index \in Nat /\ e.tid \in Nat
  /\ \A s, t \in Threads(rows) : s # t => s.tid # t.tid
  /\ \A d, e \in rows : d.stream > 0 /\ d.index_correlation = e.index /\ e.index > 0 => e.stream = -1

(* The rows of a rank are those of a trace whose host events nest.         *)
LEMMA RowsOfRank ==
  ASSUME HostsNested, ThreadsApart, trace \in Traces, NEW r \in Ranks
  PROVE  Rows(trace[r])
<1>1. OnHost(trace[r]) /\ Nested(trace[r])
  BY DEF HostsNested
<1>2. Events(trace[r])
  BY TracesAssumption DEF Events
<1>3. \A e \in trace[r] : e.index \in Nat /\ e.tid \in Nat
  BY RowTypes
<1>4. \A s, t \in Threads(trace[r]) : s # t => s.tid # t.tid
  BY DEF ThreadsApart
<1>5. \A d, e \in trace[r] : d.stream > 0 /\ d.index_correlation = e.index /\ e.index > 0 => e.stream = -1
  BY TracesAssumption
<1> QED
  BY <1>1, <1>2, <1>3, <1>4, <1>5 DEF Rows

(* An event of the host has a thread there. *)
Home(e) == [pid |-> e.pid, tid |-> e.tid]
(* An event of the host is an event of the thread it was recorded on.      *)
LEMMA HomeOf ==
  ASSUME NEW rows, Rows(rows), NEW e \in rows, e.stream = -1
  PROVE  Home(e) \in Threads(rows) /\ e \in HostRows(rows, Home(e))
<1>1. e \in ThreadRows(rows, Home(e)) /\ e \in HostRows(rows, Home(e))
  BY DEF ThreadRows, HostRows, Home
<1>2. ~IsGpu(ThreadRows(rows, Home(e)))
  BY <1>1 DEF IsGpu, Rows, OnHost
<1> QED
  BY <1>1, <1>2 DEF Threads, Home

(* The rows of a thread on the host. *)
LEMMA HostOf ==
  ASSUME NEW rows, Rows(rows), NEW th \in Threads(rows)
  PROVE  /\ Events(HostRows(rows, th)) /\ Nesting(HostRows(rows, th)) /\ th = [pid |-> th.pid, tid |-> th.tid]
         /\ th.tid \in Nat
         /\ \A e \in HostRows(rows, th) : e \in rows /\ e.stream = -1 /\ e.pid = th.pid /\ e.tid = th.tid
         /\ \A e \in rows : e.stream = -1 /\ e.tid = th.tid => e \in HostRows(rows, th)
<1>1. \A e \in HostRows(rows, th) : e \in rows /\ e.stream = -1 /\ e.pid = th.pid /\ e.tid = th.tid
  BY DEF HostRows, ThreadRows
<1>2. Events(HostRows(rows, th)) /\ Nesting(HostRows(rows, th))
  BY <1>1 DEF Events, Rows, Nested
<1>3. th = [pid |-> th.pid, tid |-> th.tid] /\ th.tid \in Nat
  BY DEF Threads, Rows
<1>4. ASSUME NEW e \in rows, e.stream = -1, e.tid = th.tid PROVE e \in HostRows(rows, th)
  <2>1. Home(e) \in Threads(rows) /\ e \in HostRows(rows, Home(e)) /\ Home(e).tid = e.tid
    BY <1>4, HomeOf DEF Home
  <2>2. Home(e) = th
    BY <1>4, <2>1 DEF Rows
  <2> QED
    BY <2>1, <2>2
<1> QED
  BY <1>1, <1>2, <1>3, <1>4

(* The events of its thread around an event. *)
Around(rows, e) == {p \in rows : Encloses(p, e)}

(* Of two events around one, one is around the other. *)
LEMMA AroundChain ==
  ASSUME NEW rows, Rows(rows), NEW e \in rows, NEW a \in Around(rows, e), NEW b \in Around(rows, e), a # b
  PROVE  Encloses(a, b) \/ Encloses(b, a)
<1>1. /\ a \in rows /\ b \in rows /\ e.stream = -1 /\ a.stream = -1 /\ b.stream = -1
      /\ a.tid = e.tid /\ b.tid = e.tid /\ a.pid = e.pid /\ b.pid = e.pid
      /\ Encloses(a, e) /\ Encloses(b, e)
  BY DEF Around, Encloses
<1>2. Nesting(HostRows(rows, Home(e))) /\ {a, b, e} \subseteq HostRows(rows, Home(e))
  <2>1. Home(e) \in Threads(rows)
    BY <1>1, HomeOf
  <2>2. Nesting(HostRows(rows, Home(e)))
    BY <2>1 DEF Rows, Nested
  <2>3. Home(e).pid = e.pid /\ Home(e).tid = e.tid
    BY DEF Home
  <2> QED
    BY <1>1, <2>2, <2>3 DEF HostRows, ThreadRows
<1>3. ~Overlapping(a, b) /\ ~Between(e, a, b) /\ ~Between(e, b, a)
  BY <1>2 DEF Nesting
<1>4. /\ a.index \in Int /\ a.ts \in Int /\ a.dur \in Nat
      /\ b.index \in Int /\ b.ts \in Int /\ b.dur \in Nat
      /\ e.index \in Int /\ e.ts \in Int /\ e.dur \in Nat
      /\ a.index # b.index
  BY <1>1 DEF Rows, Events
<1> QED
  BY <1>1, <1>3, <1>4 DEF Encloses, Overlapping, Between

(* Around an event that is around another is what is around both. *)
LEMMA AroundGrows ==
  ASSUME NEW rows, Rows(rows), NEW e \in rows, NEW q \in Around(rows, e)
  PROVE  Around(rows, q) \subseteq Around(rows, e) /\ q \notin Around(rows, q) /\ q \in rows
<1>1. q \in rows /\ Encloses(q, e) /\ Events(rows)
  BY DEF Around, Rows
<1>2. \A p \in rows : Encloses(p, q) => Encloses(p, e)
  BY <1>1, EnclosesOrder
<1>3. ~Encloses(q, q)
  BY DEF Encloses
<1> QED
  BY <1>1, <1>2, <1>3 DEF Around

(* An event has one outermost event around it, or is that itself. *)
Outer(rows, e, f) == f \in Around(rows, e) \cup {e} /\ Around(rows, f) = {}

(* Nothing and nobody but one event is the outermost around an event.      *)
LEMMA OneOuter ==
  ASSUME NEW rows, Rows(rows), NEW e \in rows, NEW f, NEW g, Outer(rows, e, f), Outer(rows, e, g)
  PROVE  f = g
<1>1. CASE f = e \/ g = e
  BY <1>1 DEF Outer
<1>2. CASE f # e /\ g # e /\ f # g
  <2>1. f \in Around(rows, e) /\ g \in Around(rows, e)
    BY <1>2 DEF Outer
  <2>2. Encloses(f, g) \/ Encloses(g, f)
    BY <1>2, <2>1, AroundChain
  <2> QED
    BY <2>1, <2>2 DEF Outer, Around
<1> QED
  BY <1>1, <1>2

(* Every event has an outermost one around it, which may be itself.        *)
LEMMA OuterExists ==
  ASSUME NEW rows, Rows(rows), NEW e \in rows
  PROVE  \E f : Outer(rows, e, f)
<1> DEFINE size(f) == Cardinality(Around(rows, f))
           T == {size(f) : f \in Around(rows, e) \cup {e}}
<1>1. \A f : IsFiniteSet(Around(rows, f)) /\ size(f) \in Nat
  <2>1. IsFiniteSet(rows)
    BY DEF Rows, OnHost
  <2> SUFFICES ASSUME NEW f PROVE IsFiniteSet(Around(rows, f)) /\ size(f) \in Nat
    OBVIOUS
  <2>2. IsFiniteSet(Around(rows, f))
    BY <2>1, FS_Subset DEF Around
  <2> QED
    BY <2>2, FS_CardinalityType
<1>2. T \subseteq Nat /\ T # {}
  BY <1>1
<1>3. PICK f \in Around(rows, e) \cup {e} : \A g \in Around(rows, e) \cup {e} : size(f) <= size(g)
  <2>1. Min(T) \in T /\ \A t \in T : Min(T) <= t
    <3> HIDE DEF T
    <3> QED
      BY <1>2, Least
  <2>2. PICK f \in Around(rows, e) \cup {e} : Min(T) = size(f)
    BY <2>1
  <2>3. \A g \in Around(rows, e) \cup {e} : size(g) \in T
    OBVIOUS
  <2> HIDE DEF T, size
  <2> QED
    BY <2>1, <2>2, <2>3
<1>4. f \in rows /\ (f = e \/ f \in Around(rows, e))
  BY DEF Around
<1>5. ASSUME NEW q \in Around(rows, f) PROVE FALSE
  <2>1. Around(rows, q) \subseteq Around(rows, f) /\ q \notin Around(rows, q)
    BY <1>4, AroundGrows
  <2>2. size(q) < size(f)
    <3> HIDE DEF size
    <3>1. /\ IsFiniteSet(Around(rows, f)) /\ Around(rows, q) \subseteq Around(rows, f)
          /\ q \in Around(rows, f) /\ q \notin Around(rows, q)
      BY <1>1, <2>1
    <3>2. Cardinality(Around(rows, q)) < Cardinality(Around(rows, f))
      BY <3>1, SmallerPart
    <3> QED
      BY <3>2 DEF size
  <2>3. q \in Around(rows, e) \cup {e}
    <3>1. f \in Around(rows, e) => Around(rows, f) \subseteq Around(rows, e)
      BY AroundGrows
    <3> QED
      BY <1>4, <3>1
  <2> HIDE DEF size
  <2> QED
    BY <1>1, <1>3, <2>2, <2>3
<1> QED
  BY <1>3, <1>5 DEF Outer

-----------------------------------------------------------------------------
(* One stack for each thread                                               *)

(* A thread of a rank has one stack. *)
StackThreads ==
  /\ \A i \in DOMAIN stacks : stacks[i].thread \in Threads(trace[stacks[i].rank])
  /\ \A i, j \in DOMAIN stacks :
       i # j /\ stacks[i].rank = stacks[j].rank => stacks[i].thread # stacks[j].thread
  /\ pc \in {"thread", "replay"} => \A i \in DOMAIN stacks : stacks[i].rank = rank =>
       stacks[i].thread \notin threads /\ (pc = "replay" => stacks[i].thread # thread)
  /\ pc = "replay" => thread \notin threads

(* The last of all stacks is of the rank under construction. *)
LastStack ==
  pc = "connect" \/ (pc = "thread" /\ threads # Threads(trace[rank])) =>
    stacks # << >> /\ stacks[Len(stacks)].rank = rank

OneStackEach == StackThreads /\ LastStack

(* Before a rank is begun there is no stack.                               *)
LEMMA OneStackInit == Init => OneStackEach
  BY DEF Init, OneStackEach, StackThreads, LastStack

(* A step that leaves the stacks alone keeps one for each thread.          *)
LEMMA OneStackUnchanged == OneStackEach /\ UNCHANGED <<trace, pc, rank, threads, thread, stacks>> => OneStackEach'
  BY DEF OneStackEach, StackThreads, LastStack

(* A rank begins without stacks of its own.                                *)
LEMMA OneStackStartRank == Inv /\ OneStackEach /\ StartRank => OneStackEach'
<1> SUFFICES ASSUME Inv, OneStackEach, StartRank PROVE OneStackEach'
  OBVIOUS
<1>1. /\ rank' \in todo /\ pc' = "thread" /\ stacks' = stacks /\ trace' = trace
      /\ threads' = Threads(trace'[rank'])
      /\ \A i \in DOMAIN stacks : stacks[i].rank \notin todo
  BY DEF StartRank, Inv, StackRoots
<1> QED
  BY <1>1 DEF OneStackEach, StackThreads, LastStack

(* The stack that is begun is of a thread that had none.                   *)
LEMMA OneStackStartThread == Inv /\ OneStackEach /\ StartThread => OneStackEach'
<1> SUFFICES ASSUME Inv, OneStackEach, StartThread PROVE OneStackEach'
  OBVIOUS
<1>1. /\ pc = "thread" /\ pc' \in {"replay", "raised"} /\ UNCHANGED <<stacks, trace, rank>>
      /\ thread' \in threads /\ threads' = threads \ {thread'}
  BY DEF StartThread
<1> QED
  BY <1>1 DEF OneStackEach, StackThreads, LastStack

(* A thread that is finished keeps its stack.                              *)
LEMMA OneStackFinishThread == Inv /\ OneStackEach /\ FinishThread => OneStackEach'
<1> SUFFICES ASSUME Inv, OneStackEach, FinishThread PROVE OneStackEach'
  OBVIOUS
<1> DEFINE new == [rank |-> rank, thread |-> thread, root |-> RootIndex(thread),
                   label |-> Label(trace[rank], thread)]
<1>1. /\ pc = "replay" /\ pc' = "thread" /\ stacks' = Append(stacks, new)
      /\ UNCHANGED <<trace, rank, threads>> /\ thread \in Threads(trace[rank])
  BY DEF FinishThread, Inv, Replayed
<1>2. new.thread = thread /\ new.rank = rank
  OBVIOUS
<1> HIDE DEF new
<1>3. /\ stacks' \in Seq(Range(stacks')) /\ Len(stacks) \in Nat /\ DOMAIN stacks = 1 .. Len(stacks)
      /\ DOMAIN stacks' = 1 .. (Len(stacks) + 1)
      /\ \A i \in DOMAIN stacks : stacks'[i] = stacks[i]
      /\ stacks'[Len(stacks) + 1] = new /\ Len(stacks') = Len(stacks) + 1
  <2>1. stacks \in Seq(Range(stacks))
    BY DEF Inv, StackRoots
  <2> QED
    BY <1>1, <2>1, Appended
<1>4. \A i \in DOMAIN stacks' : (i \in DOMAIN stacks /\ stacks'[i] = stacks[i])
                                \/ (i = Len(stacks) + 1 /\ stacks'[i] = new)
  BY <1>3
<1>5. StackThreads'
  BY <1>1, <1>2, <1>4 DEF OneStackEach, StackThreads
<1>6. LastStack'
  BY <1>1, <1>2, <1>3 DEF LastStack
<1> QED
  BY <1>5, <1>6 DEF OneStackEach

(* Linking changes the root of a stack, not its thread.                    *)
LEMMA OneStackLinkAnnotation == Inv /\ OneStackEach /\ LinkAnnotation => OneStackEach'
<1> SUFFICES ASSUME Inv, OneStackEach, LinkAnnotation PROVE OneStackEach'
  OBVIOUS
<1>1. /\ pc = "connect" /\ pc' \in {"connect", "raised", "hung"} /\ UNCHANGED <<trace, rank>>
      /\ \/ stacks' = stacks
         \/ \E p \in DOMAIN stacks : \E top : stacks' = [stacks EXCEPT ![p].root = top]
  <2>1. \A pair \in Pairs(rank) : pair[1] \in DOMAIN stacks
    BY DEF Pairs, Labelled
  <2> QED
    BY <2>1 DEF LinkAnnotation
<1>2. /\ DOMAIN stacks' = DOMAIN stacks
      /\ \A i \in DOMAIN stacks : stacks'[i].rank = stacks[i].rank /\ stacks'[i].thread = stacks[i].thread
  <2>1. CASE stacks' = stacks
    BY <2>1
  <2>2. ASSUME NEW p \in DOMAIN stacks, NEW top, stacks' = [stacks EXCEPT ![p].root = top]
        PROVE  /\ DOMAIN stacks' = DOMAIN stacks
               /\ \A i \in DOMAIN stacks : stacks'[i].rank = stacks[i].rank /\ stacks'[i].thread = stacks[i].thread
    <3>1. stacks' = [i \in DOMAIN stacks |-> IF i = p THEN [stacks[p] EXCEPT !.root = top]
                                             ELSE stacks[i]]
      BY <2>2
    <3> QED
      BY <3>1
  <2> QED
    BY <1>1, <2>1, <2>2
<1>3. Len(stacks') = Len(stacks) /\ Len(stacks) \in Nat /\ DOMAIN stacks = 1 .. Len(stacks)
      /\ (stacks # << >> <=> stacks' # << >>)
  <2>1. stacks \in Seq(Range(stacks)) /\ stacks' \in Seq(Range(stacks'))
    <3>1. Inv'
      BY InvLinkAnnotation
    <3> QED
      BY <3>1 DEF Inv, StackRoots
  <2> QED
    BY <1>2, <2>1
<1>4. LastStack'
  <2>1. stacks # << >> => Len(stacks) \in DOMAIN stacks
    BY <1>3, InvLinkAnnotation DEF Inv, StackRoots
  <2> QED
    BY <1>1, <1>2, <1>3, <2>1 DEF OneStackEach, LastStack
<1> QED
  BY <1>1, <1>2, <1>4 DEF OneStackEach, StackThreads

(* Every step keeps one stack for each thread.                             *)
LEMMA OneStackStep ==
  ASSUME HostsNested, ThreadsApart PROVE Inv /\ OneStackEach /\ [Next]_vars => OneStackEach'
<1> SUFFICES ASSUME Inv, OneStackEach, [Next]_vars PROVE OneStackEach'
  OBVIOUS
<1>1. CASE UNCHANGED vars \/ Query
  <2>1. UNCHANGED <<trace, buildVars>>
    BY <1>1 DEF vars, Query, GetGpuKernels, GetNodeAttributes, GetCsgOfNode, GetStackOfNode
  <2> QED
    BY <2>1, OneStackUnchanged DEF buildVars, threadVars
<1>2. CASE OpenEvent \/ CloseEvent \/ LinkKernel
  <2>1. UNCHANGED <<trace, pc, rank, threads, thread, stacks>>
    BY <1>2 DEF OpenEvent, CloseEvent, LinkKernel
  <2> QED
    BY <2>1, OneStackUnchanged
<1>3. CASE StartConnect
  <2>1. pc = "thread" /\ pc' = "connect" /\ threads = {} /\ UNCHANGED <<trace, rank, stacks>>
    BY <1>3 DEF StartConnect
  <2>2. Rows(trace[rank])
    BY <2>1, RowsOfRank DEF Inv, RankBegun
  <2>3. Threads(trace[rank]) # {}
    BY <2>2, HomeOf DEF Rows, OnHost
  <2> QED
    BY <2>1, <2>3 DEF OneStackEach, StackThreads, LastStack
<1>4. CASE SaveStacks
  BY <1>4 DEF SaveStacks, OneStackEach, StackThreads, LastStack
<1>5. CASE ConstructAgain
  BY <1>5 DEF ConstructAgain, OneStackEach, StackThreads, LastStack
<1> QED
  BY <1>1, <1>2, <1>3, <1>4, <1>5, OneStackStartRank, OneStackStartThread, OneStackFinishThread,
     OneStackLinkAnnotation DEF Next, Build

-----------------------------------------------------------------------------
(* The parents during the replay                                           *)

(* The parent that the events of its own thread give an event: the         *)
(* innermost around it, or the root.                                       *)
ByOwn(rows, e, parent) ==
  IF Around(rows, e) = {} THEN parent = -e.tid
  ELSE \E q \in Around(rows, e) : q.index = parent /\ Around(rows, e) = Around(rows, q) \cup {q}

(* The events with the indices A that hold an event, and the first of such.*)
Holders(rows, A, e) == {a \in rows : a.index \in A /\ a.ts <= e.ts /\ e.end <= a.end}
FirstOf(S) == {a \in S : \A b \in S : a.index <= b.index}

(* The parent when the annotations A are linked, to threads with the       *)
(* numbers tids.                                                           *)
LinkedTo(rows, tids, A, e, parent) ==
  IF Around(rows, e) = {} /\ e.tid \in tids /\ Holders(rows, A, e) # {}
  THEN \E a \in FirstOf(Holders(rows, A, e)) : parent = a.index
  ELSE ByOwn(rows, e, parent)

HostNode(rows, tids, A, e, node) ==
  e.stream = -1 /\ node.device = "CPU" /\ LinkedTo(rows, tids, A, e, node.parent)
KernelNode(e, node) ==
  /\ e.stream > 0 /\ node.device = "GPU"
  /\ e.index_correlation > 0 /\ node.parent = e.index_correlation

(* A node that is not negative is of a row, and has the parent it should.  *)
RightNode(rows, tids, A, n, node) ==
  /\ n >= 0 => \E e \in rows : /\ e.index = n
                               /\ HostNode(rows, tids, A, e, node) \/ KernelNode(e, node)
  /\ n < 0 => node.device = "CPU" /\ \E th \in Threads(rows) : n = RootIndex(th)
MapLinked(rows, map, tids, A) ==
  \A n \in DOMAIN map : RightNode(rows, tids, A, n, map[n])
MapTimed(rows, map) == MapLinked(rows, map, {}, {})

(* Nodes that stay keep what they are. *)
Keeps(map, more) ==
  /\ DOMAIN map \subseteq DOMAIN more
  /\ \A n \in DOMAIN map : more[n].parent = map[n].parent /\ more[n].device = map[n].device

(* Whether a node is right depends on its parent and its device.           *)
LEMMA RightKept ==
  ASSUME NEW rows, NEW tids, NEW A, NEW n, NEW node, NEW same,
         same.parent = node.parent, same.device = node.device, RightNode(rows, tids, A, n, node)
  PROVE  RightNode(rows, tids, A, n, same)
  BY DEF RightNode, HostNode, KernelNode

(* A map that grows by one right node stays right.                         *)
LEMMA MapGrows ==
  ASSUME NEW rows, NEW map, NEW more, NEW x, Keeps(map, more), DOMAIN more \subseteq DOMAIN map \cup {x},
         MapTimed(rows, map), x \in DOMAIN map \/ RightNode(rows, {}, {}, x, more[x])
  PROVE  MapTimed(rows, more)
<1> SUFFICES ASSUME NEW n \in DOMAIN more PROVE RightNode(rows, {}, {}, n, more[n])
  BY DEF MapTimed, MapLinked
<1>1. CASE n \in DOMAIN map
  <2>1. RightNode(rows, {}, {}, n, map[n])
    BY <1>1 DEF MapTimed, MapLinked
  <2>2. more[n].parent = map[n].parent /\ more[n].device = map[n].device
    BY <1>1 DEF Keeps
  <2> QED
    BY <2>1, <2>2, RightKept
<1>2. CASE n \notin DOMAIN map
  BY <1>2
<1> QED
  BY <1>1, <1>2

(* A root that is added changes no other node's parent.                    *)
LEMMA WithRootKeeps ==
  ASSUME NEW map, NEW root
  PROVE  /\ Keeps(map, WithRoot(map, root))
         /\ DOMAIN WithRoot(map, root) = DOMAIN map \cup {root}
         /\ root \notin DOMAIN map => WithRoot(map, root)[root].device = "CPU"
  BY DEF Keeps, WithRoot, Put, Node

(* A new node, if it is new, with its parent and device. *)
NewEdge(map, more, parent, child, device) ==
  /\ Keeps(map, more) /\ DOMAIN more = DOMAIN map \cup {child}
  /\ child \notin DOMAIN map => more[child].parent = parent /\ more[child].device = device

(* An edge that is added makes its child a node, and changes no other's    *)
(* parent.                                                                 *)
LEMMA AddEdgeKeeps ==
  ASSUME NEW map, NEW root, NEW parent, NEW child, NEW device, parent \in DOMAIN map
  PROVE  NewEdge(map, AddEdge(map, root, parent, child, device), parent, child, device)
<1>1. CASE child \in DOMAIN map
  BY <1>1 DEF AddEdge, Keeps, NewEdge
<1>2. CASE child \notin DOMAIN map
  <2> DEFINE with == Adopt(map, parent, child)
             node == Node(parent, with[parent].depth + 1, device, {})
             added == Put(with, child, node)
  <2>1. AddEdge(map, root, parent, child, device) = added
    BY <1>2 DEF AddEdge
  <2>2. /\ DOMAIN with = DOMAIN map
        /\ \A n \in DOMAIN map : with[n].parent = map[n].parent /\ with[n].device = map[n].device
    BY DEF Adopt, Node
  <2>3. node.parent = parent /\ node.device = device
    BY DEF Node
  <2> HIDE DEF with, node
  <2>4. Keeps(map, added) /\ DOMAIN added = DOMAIN map \cup {child} /\ added[child] = node
    BY <1>2, <2>2 DEF Put, Keeps
  <2> QED
    BY <2>1, <2>3, <2>4 DEF NewEdge
<1> QED
  BY <1>1, <1>2

(* Before annotations are linked the parents are those of the thread.      *)
LEMMA NoHolders ==
  ASSUME NEW rows, NEW map, NEW tids, MapTimed(rows, map) PROVE MapLinked(rows, map, tids, {})
<1>1. \A e : Holders(rows, {}, e) = {}
  BY DEF Holders
<1>2. \A e, parent : LinkedTo(rows, {}, {}, e, parent) <=> LinkedTo(rows, tids, {}, e, parent)
  BY <1>1 DEF LinkedTo
<1> QED
  BY <1>2 DEF MapTimed, MapLinked, RightNode, HostNode

(* With no annotation linked, an event has the parent its own thread gives.*)
LEMMA OwnNode ==
  ASSUME NEW rows, NEW e \in rows, NEW node, e.index \in Nat, e.stream = -1, node.device = "CPU",
         ByOwn(rows, e, node.parent)
  PROVE  RightNode(rows, {}, {}, e.index, node)
<1>1. Holders(rows, {}, e) = {}
  BY DEF Holders
<1> QED
  BY <1>1 DEF RightNode, HostNode, LinkedTo

(* A thread that is replayed has its root and all its events, one that is  *)
(* not begun has none.                                                     *)
Done(rows, map, th) ==
  /\ RootIndex(th) \in DOMAIN map
  /\ \A e \in HostRows(rows, th) : e.index \in DOMAIN map
  /\ \A l \in Links(rows, th) : l.gpu \in DOMAIN map
NotBegun(rows, map, th) == \A e \in HostRows(rows, th) : e.index \notin DOMAIN map

ThreadsTimed ==
  pc \in {"thread", "replay"} =>
    /\ MapTimed(trace[rank], nodes[rank])
    /\ \A th \in threads : NotBegun(trace[rank], nodes[rank], th)
    /\ \A th \in Threads(trace[rank]) \ threads :
         (pc = "replay" /\ th = thread) \/ Done(trace[rank], nodes[rank], th)

(* The events that run in the replay are on the stack, each around the     *)
(* ones above it; their ends are replayed in order.                        *)
Running(e) == OpenEnd(e) \notin Range(ends) /\ CloseEnd(e) \in Range(ends)

EndsInOrder(H) ==
  /\ Ordered(ends) /\ Range(ends) \subseteq EndsOf(H)
  /\ \A x \in EndsOf(H) \ Range(ends), y \in Range(ends) : LessThan(x, y)
StackRuns(H) ==
  /\ \A i \in 1 .. Len(stack) : \E e \in H : stack[i] = e.index /\ Running(e)
  /\ \A e \in H : Running(e) => \E i \in 1 .. Len(stack) : stack[i] = e.index
  /\ \A d, e \in H, i, j \in 1 .. Len(stack) :
       i < j /\ d.index = stack[i] /\ e.index = stack[j] => Encloses(d, e)
Opened(H) == \A e \in H : e.index \in DOMAIN nodes[rank] <=> OpenEnd(e) \notin Range(ends)
Linked(rows) == \A l \in Links(rows, thread) : l \in links \/ l.gpu \in DOMAIN nodes[rank]

ReplayTimed ==
  pc = "replay" =>
    LET H == HostRows(trace[rank], thread)
    IN EndsInOrder(H) /\ StackRuns(H) /\ Opened(H) /\ Linked(trace[rank])

(* The first of ordered ends is before the others, which are ordered. *)
LEMMA OrderedTail ==
  ASSUME NEW S, NEW s \in Seq(S), s # << >>, Ordered(s)
  PROVE  /\ Ordered(Tail(s)) /\ Tail(s) \in Seq(S)
         /\ Head(s) \in Range(s) /\ Range(Tail(s)) = Range(s) \ {Head(s)}
         /\ \A y \in Range(Tail(s)) : LessThan(Head(s), y)
<1>1. /\ Tail(s) \in Seq(S) /\ Head(s) = s[1] /\ Len(s) \in Nat \ {0} /\ DOMAIN s = 1 .. Len(s)
      /\ Len(Tail(s)) = Len(s) - 1 /\ DOMAIN Tail(s) = 1 .. (Len(s) - 1)
      /\ \A i \in 1 .. (Len(s) - 1) : Tail(s)[i] = s[i + 1]
  OBVIOUS
<1>2. 1 \in DOMAIN s
  BY <1>1
<1>3. \A i \in DOMAIN Tail(s) : i + 1 \in DOMAIN s /\ 1 < i + 1 /\ Tail(s)[i] = s[i + 1]
  BY <1>1
<1>4. Ordered(Tail(s))
  <2> SUFFICES ASSUME NEW i \in DOMAIN Tail(s), NEW j \in DOMAIN Tail(s), i < j
               PROVE  Tail(s)[i] # Tail(s)[j] /\ LessThan(Tail(s)[i], Tail(s)[j])
    BY DEF Ordered
  <2>1. i + 1 \in DOMAIN s /\ j + 1 \in DOMAIN s /\ i + 1 < j + 1
    BY <1>1
  <2> QED
    BY <1>3, <2>1 DEF Ordered
<1>5. \A y \in Range(Tail(s)) : LessThan(Head(s), y) /\ y # Head(s) /\ y \in Range(s)
  <2> SUFFICES ASSUME NEW i \in DOMAIN Tail(s)
               PROVE  LessThan(Head(s), Tail(s)[i]) /\ Tail(s)[i] # Head(s) /\ Tail(s)[i] \in Range(s)
    BY DEF Range
  <2> QED
    BY <1>1, <1>2, <1>3 DEF Ordered, Range
<1>6. \A y \in Range(s) : y # Head(s) => y \in Range(Tail(s))
  BY HeadAndTail
<1>7. Head(s) \in Range(s)
  BY <1>1, <1>2 DEF Range
<1> QED
  BY <1>1, <1>4, <1>5, <1>6, <1>7

(* When the first end is taken, all that are left are after it. *)
LEMMA InOrderNext ==
  ASSUME NEW H, Events(H), ends \in Seq(EndsOf(H)), ends # << >>, EndsInOrder(H), ends' = Tail(ends)
  PROVE  EndsInOrder(H)' /\ Range(ends') = Range(ends) \ {Head(ends)} /\ Head(ends) \in Range(ends)
<1>1. /\ Ordered(ends') /\ Head(ends) \in Range(ends) /\ Range(ends') = Range(ends) \ {Head(ends)}
      /\ \A y \in Range(ends') : LessThan(Head(ends), y)
  BY OrderedTail DEF EndsInOrder
<1> QED
  BY <1>1 DEF EndsInOrder

(* What runs when an event begins is what is around it. *)
LEMMA RunningIsAround ==
  ASSUME NEW rows, Rows(rows), NEW th \in Threads(rows), NEW H, H = HostRows(rows, th),
         EndsInOrder(H), ends \in Seq(EndsOf(H)), ends # << >>,
         NEW e \in H, Head(ends) = OpenEnd(e), NEW d \in H, d # e
  PROVE  Running(d) <=> Encloses(d, e)
<1>1. /\ Events(H) /\ Nesting(H) /\ d.stream = -1 /\ e.stream = -1
      /\ d.pid = e.pid /\ d.tid = e.tid
  BY HostOf
<1> DEFINE x == OpenEnd(e)
           o == OpenEnd(d)
           c == CloseEnd(d)
<1>2. x \in EndsOf(H) /\ o \in EndsOf(H) /\ c \in EndsOf(H)
  BY DEF EndsOf
<1>3. o # x /\ c # x
  BY <1>1 DEF Events, OpenEnd, CloseEnd, Open, Close
<1>4. Encloses(d, e) <=> LessThan(o, x) /\ LessThan(x, c)
  BY <1>1, EnclosedRuns
<1>5. (LessThan(o, x) <=> ~LessThan(x, o)) /\ (LessThan(x, c) <=> ~LessThan(c, x))
  BY <1>1, <1>2, <1>3, EndsCompare
<1>6. x \in Range(ends) /\ \A y \in Range(ends) : y = x \/ LessThan(x, y)
  BY OrderedTail DEF EndsInOrder
<1>7. \A y \in EndsOf(H) \ Range(ends) : LessThan(y, x)
  BY <1>6 DEF EndsInOrder
<1>8. (o \notin Range(ends) <=> LessThan(o, x)) /\ (c \in Range(ends) <=> LessThan(x, c))
  BY <1>2, <1>3, <1>5, <1>6, <1>7
<1> QED
  BY <1>4, <1>8 DEF Running

(* So the event on the top of the stack is the innermost around it. *)
LEMMA TopIsParent ==
  ASSUME NEW rows, Rows(rows), NEW th \in Threads(rows), NEW H, H = HostRows(rows, th),
         EndsInOrder(H), StackRuns(H), ends \in Seq(EndsOf(H)), ends # << >>, stack \in Seq(Int),
         NEW e \in H, Head(ends) = OpenEnd(e)
  PROVE  ByOwn(rows, e, IF stack # << >> THEN stack[Len(stack)] ELSE RootIndex(th))
<1>1. /\ Events(H) /\ \A d \in H : d \in rows /\ d.stream = -1 /\ d.pid = th.pid /\ d.tid = th.tid
      /\ th = [pid |-> th.pid, tid |-> th.tid]
  BY HostOf
<1>2. ~Running(e)
  BY OrderedTail DEF Running, EndsInOrder
<1>3. Around(rows, e) = {d \in H : Running(d)}
  <2>1. \A d \in rows : Encloses(d, e) => d \in H /\ d # e
    <3> SUFFICES ASSUME NEW d \in rows, Encloses(d, e) PROVE d \in H /\ d # e
      OBVIOUS
    <3>1. d.stream = -1 /\ d.pid = e.pid /\ d.tid = e.tid /\ d.index # e.index
      BY DEF Encloses
    <3> QED
      BY <1>1, <3>1 DEF HostRows, ThreadRows
  <2>2. \A d \in H : d # e => (Running(d) <=> Encloses(d, e))
    BY RunningIsAround
  <2> QED
    BY <1>1, <1>2, <2>1, <2>2 DEF Around
<1>4. CASE stack = << >>
  <2>1. Around(rows, e) = {}
    BY <1>3, <1>4 DEF StackRuns
  <2> QED
    BY <1>1, <1>4, <2>1 DEF ByOwn, RootIndex
<1>5. CASE stack # << >>
  <2>1. Len(stack) \in 1 .. Len(stack) /\ Len(stack) \in Nat
    BY <1>5
  <2>2. PICK q \in H : stack[Len(stack)] = q.index /\ Running(q)
    BY <2>1 DEF StackRuns
  <2>3. q \in Around(rows, e)
    BY <1>3, <2>2
  <2>4. ASSUME NEW d \in Around(rows, e), d # q PROVE d \in Around(rows, q)
    <3>1. d \in H /\ Running(d) /\ d \in rows
      BY <1>1, <1>3
    <3>2. PICK i \in 1 .. Len(stack) : stack[i] = d.index
      BY <3>1 DEF StackRuns
    <3>3. d.index # q.index
      BY <1>1, <2>4, <3>1 DEF Events
    <3>4. i < Len(stack)
      BY <2>1, <2>2, <3>2, <3>3
    <3>5. Encloses(d, q)
      BY <2>1, <2>2, <3>1, <3>2, <3>4 DEF StackRuns
    <3> QED
      BY <3>1, <3>5 DEF Around
  <2>5. Around(rows, q) \subseteq Around(rows, e)
    BY <1>1, <2>3, AroundGrows
  <2>6. Around(rows, e) = Around(rows, q) \cup {q}
    BY <2>3, <2>4, <2>5
  <2> QED
    BY <1>5, <2>2, <2>3, <2>6 DEF ByOwn
<1> QED
  BY <1>4, <1>5

(* An event that begins runs, on the top of the stack. *)
LEMMA StackRunsOpen ==
  ASSUME NEW rows, Rows(rows), NEW th \in Threads(rows), NEW H, H = HostRows(rows, th),
         EndsInOrder(H), StackRuns(H), ends \in Seq(EndsOf(H)), ends # << >>, stack \in Seq(Int),
         NEW e \in H, Head(ends) = OpenEnd(e), ends' = Tail(ends), stack' = Append(stack, e.index)
  PROVE  StackRuns(H)'
<1>1. /\ Events(H) /\ Nesting(H) /\ e.index \in Int
  BY HostOf DEF Events
<1>2. Range(ends') = Range(ends) \ {OpenEnd(e)}
  BY <1>1, InOrderNext
<1>3. CloseEnd(e) \in Range(ends)
  <2>1. OpenEnd(e) \in EndsOf(H) /\ CloseEnd(e) \in EndsOf(H) /\ OpenEnd(e) # CloseEnd(e)
    <3>1. OpenEnd(e) # CloseEnd(e)
      BY DEF OpenEnd, CloseEnd, Open, Close
    <3> QED
      BY <3>1 DEF EndsOf
  <2>2. LessThan(OpenEnd(e), CloseEnd(e))
    BY <1>1 DEF Events, OpenEnd, CloseEnd, LessThan, Open, Close
  <2>3. ~LessThan(CloseEnd(e), OpenEnd(e))
    BY <1>1, <2>1, <2>2, EndsCompare
  <2>4. OpenEnd(e) \in Range(ends)
    BY <1>1, InOrderNext
  <2> QED
    BY <2>1, <2>3, <2>4 DEF EndsInOrder
<1>4. \A d \in H : Running(d)' <=> Running(d) \/ d = e
  <2> SUFFICES ASSUME NEW d \in H PROVE Running(d)' <=> Running(d) \/ d = e
    OBVIOUS
  <2>1. OpenEnd(d) = OpenEnd(e) => d = e
    BY <1>1 DEF Events, OpenEnd
  <2>2. CloseEnd(d) # OpenEnd(e)
    BY DEF OpenEnd, CloseEnd, Open, Close
  <2> QED
    BY <1>2, <1>3, <2>1, <2>2 DEF Running
<1>5. \A d \in H : Running(d) => Encloses(d, e) \/ d = e
  BY RunningIsAround
<1>6. /\ Len(stack') = Len(stack) + 1 /\ Len(stack) \in Nat
      /\ \A i \in 1 .. Len(stack) : stack'[i] = stack[i]
      /\ stack'[Len(stack) + 1] = e.index
  BY <1>1
<1>7. ~Running(e)
  BY OrderedTail DEF Running, EndsInOrder
<1>8. \A i \in 1 .. Len(stack') : (i \in 1 .. Len(stack) /\ stack'[i] = stack[i])
                                  \/ (i = Len(stack) + 1 /\ stack'[i] = e.index)
  BY <1>6
<1>9. \A i \in 1 .. Len(stack') : \E d \in H : stack'[i] = d.index /\ Running(d)'
  BY <1>4, <1>8 DEF StackRuns
<1>10. \A d \in H : Running(d)' => \E i \in 1 .. Len(stack') : stack'[i] = d.index
  <2> SUFFICES ASSUME NEW d \in H, Running(d) \/ d = e
               PROVE  \E i \in 1 .. Len(stack') : stack'[i] = d.index
    BY <1>4
  <2>1. CASE d = e
    <3>1. Len(stack) + 1 \in 1 .. Len(stack')
      BY <1>6
    <3> QED
      BY <1>6, <2>1, <3>1
  <2>2. CASE Running(d)
    <3>1. PICK i \in 1 .. Len(stack) : stack[i] = d.index
      BY <2>2 DEF StackRuns
    <3>2. i \in 1 .. Len(stack')
      BY <1>6
    <3> QED
      BY <1>6, <3>1, <3>2
  <2> QED
    BY <2>1, <2>2
<1>11. ASSUME NEW d \in H, NEW f \in H, NEW i \in 1 .. Len(stack'), NEW j \in 1 .. Len(stack'),
              i < j, d.index = stack'[i], f.index = stack'[j]
       PROVE  Encloses(d, f)
  <2>1. i \in 1 .. Len(stack) /\ stack'[i] = stack[i]
    BY <1>6, <1>8, <1>11
  <2>2. PICK c \in H : stack[i] = c.index /\ Running(c)
    BY <2>1 DEF StackRuns
  <2>3. c = d
    BY <1>1, <1>11, <2>1, <2>2 DEF Events
  <2>4. CASE j \in 1 .. Len(stack) /\ stack'[j] = stack[j]
    BY <1>11, <2>1, <2>4 DEF StackRuns
  <2>5. CASE stack'[j] = e.index
    <3>1. f = e
      BY <1>1, <1>11, <2>5 DEF Events
    <3> QED
      BY <1>5, <1>7, <2>2, <2>3, <3>1
  <2> QED
    BY <1>8, <2>4, <2>5
<1>12. \A d, f \in H, i, j \in 1 .. Len(stack') :
         i < j /\ d.index = stack'[i] /\ f.index = stack'[j] => Encloses(d, f)
  BY <1>11
<1> QED
  BY <1>9, <1>10, <1>12 DEF StackRuns

(* The event that ends is on the top of the stack. *)
LEMMA StackRunsClose ==
  ASSUME NEW rows, Rows(rows), NEW th \in Threads(rows), NEW H, H = HostRows(rows, th),
         EndsInOrder(H), StackRuns(H), ends \in Seq(EndsOf(H)), ends # << >>, stack \in Seq(Int),
         NEW e \in H, Head(ends) = CloseEnd(e), ends' = Tail(ends),
         stack' = IF stack # << >> THEN SubSeq(stack, 1, Len(stack) - 1) ELSE stack
  PROVE  StackRuns(H)'
<1>1. /\ Events(H) /\ Nesting(H) /\ e.index \in Int
  BY HostOf DEF Events
<1>2. Range(ends') = Range(ends) \ {CloseEnd(e)} /\ CloseEnd(e) \in Range(ends)
      /\ \A y \in Range(ends) : y = CloseEnd(e) \/ LessThan(CloseEnd(e), y)
  BY <1>1, InOrderNext, OrderedTail DEF EndsInOrder
<1>3. \A d \in H : OpenEnd(d) \in EndsOf(H) /\ CloseEnd(d) \in EndsOf(H)
  BY DEF EndsOf
<1>4. Running(e)
  <2>1. OpenEnd(e) # CloseEnd(e)
    BY DEF OpenEnd, CloseEnd, Open, Close
  <2>2. LessThan(OpenEnd(e), CloseEnd(e))
    BY <1>1 DEF Events, OpenEnd, CloseEnd, LessThan, Open, Close
  <2>3. ~LessThan(CloseEnd(e), OpenEnd(e))
    BY <1>1, <1>3, <2>1, <2>2, EndsCompare
  <2> QED
    BY <1>2, <2>1, <2>3 DEF Running
<1>5. \A d \in H : Running(d)' <=> Running(d) /\ d # e
  <2> SUFFICES ASSUME NEW d \in H PROVE Running(d)' <=> Running(d) /\ d # e
    OBVIOUS
  <2>1. CloseEnd(d) = CloseEnd(e) => d = e
    BY <1>1 DEF Events, CloseEnd
  <2>2. OpenEnd(d) # CloseEnd(e)
    BY DEF OpenEnd, CloseEnd, Open, Close
  <2> QED
    BY <1>2, <2>1, <2>2 DEF Running
<1>6. PICK p \in 1 .. Len(stack) : stack[p] = e.index
  BY <1>4 DEF StackRuns
<1>7. Len(stack) \in Nat /\ Len(stack) \in 1 .. Len(stack) /\ stack # << >>
  BY <1>6
<1>8. p = Len(stack)
  <2> SUFFICES ASSUME p < Len(stack) PROVE FALSE
    BY <1>7
  <2>1. PICK d \in H : stack[Len(stack)] = d.index /\ Running(d)
    BY <1>7 DEF StackRuns
  <2>2. Encloses(e, d)
    BY <1>6, <1>7, <2>1 DEF StackRuns
  <2>3. d # e /\ e.stream = -1 /\ d.stream = -1 /\ e.pid = d.pid /\ e.tid = d.tid
    BY <2>2 DEF Encloses
  <2>4. LessThan(CloseEnd(d), CloseEnd(e))
    BY <1>1, <2>2, <2>3, EnclosedRuns
  <2>5. CloseEnd(d) # CloseEnd(e)
    BY <1>1, <2>3 DEF Events, CloseEnd
  <2>6. LessThan(CloseEnd(e), CloseEnd(d))
    BY <1>2, <2>1, <2>5 DEF Running
  <2> QED
    BY <1>1, <1>3, <2>4, <2>5, <2>6, EndsCompare
<1>9. /\ Len(stack') = Len(stack) - 1
      /\ \A i \in 1 .. (Len(stack) - 1) : stack'[i] = stack[i] /\ i \in 1 .. Len(stack)
  <2> DEFINE n == Len(stack) - 1
  <2>1. n \in Nat /\ stack' = SubSeq(stack, 1, n) /\ n <= Len(stack)
    BY <1>7
  <2> HIDE DEF n
  <2>2. Len(stack') = n /\ \A i \in 1 .. n : stack'[i] = stack[i] /\ i \in 1 .. Len(stack)
    BY <2>1
  <2> QED
    BY <2>2 DEF n
<1>10. \A i \in 1 .. Len(stack') : stack'[i] = stack[i] /\ i \in 1 .. Len(stack) /\ i < Len(stack)
  BY <1>7, <1>9
<1>11. ASSUME NEW i \in 1 .. Len(stack') PROVE \E d \in H : stack'[i] = d.index /\ Running(d)'
  <2>1. PICK d \in H : stack[i] = d.index /\ Running(d)
    BY <1>10 DEF StackRuns
  <2>2. Encloses(d, e)
    BY <1>6, <1>7, <1>8, <1>10, <2>1 DEF StackRuns
  <2>3. d # e
    BY <2>2 DEF Encloses
  <2> QED
    BY <1>5, <1>10, <2>1, <2>3
<1>12. ASSUME NEW d \in H, Running(d)' PROVE \E i \in 1 .. Len(stack') : stack'[i] = d.index
  <2>1. Running(d) /\ d # e
    BY <1>5, <1>12
  <2>2. PICK i \in 1 .. Len(stack) : stack[i] = d.index
    BY <2>1 DEF StackRuns
  <2>3. i # p
    BY <1>1, <1>6, <2>1, <2>2 DEF Events
  <2>4. i \in 1 .. Len(stack')
    BY <1>7, <1>8, <1>9, <2>3
  <2> QED
    BY <1>10, <2>2, <2>4
<1>13. \A d, f \in H, i, j \in 1 .. Len(stack') :
         i < j /\ d.index = stack'[i] /\ f.index = stack'[j] => Encloses(d, f)
  BY <1>10 DEF StackRuns
<1>14. \A i \in 1 .. Len(stack') : \E d \in H : stack'[i] = d.index /\ Running(d)'
  BY <1>11
<1>15. \A d \in H : Running(d)' => \E i \in 1 .. Len(stack') : stack'[i] = d.index
  BY <1>12
<1> QED
  BY <1>13, <1>14, <1>15 DEF StackRuns

ReplayRight == ThreadsTimed /\ ReplayTimed

(* The facts about the rank under construction that the steps use. *)
LEMMA RankRows ==
  ASSUME HostsNested, ThreadsApart, Inv, pc \in {"thread", "replay", "connect"}
  PROVE  /\ rank \in Ranks /\ rank \in DOMAIN nodes /\ trace \in Traces /\ Rows(trace[rank])
         /\ Sound(nodes[rank]) /\ rank \notin todo
  BY RowsOfRank DEF Inv, RankBegun, NodesSound

(* A thread that is done stays done when nodes are added, and no event of  *)
(* a thread that is not begun becomes a node with an event of another.     *)
LEMMA DoneGrows ==
  ASSUME NEW rows, NEW map, NEW more, NEW th, Done(rows, map, th), DOMAIN map \subseteq DOMAIN more
  PROVE  Done(rows, more, th)
  BY DEF Done

(* An event of one thread does not begin another.                          *)
LEMMA StillNotBegun ==
  ASSUME NEW rows, Rows(rows), NEW map, NEW more, NEW s \in Threads(rows),
         NEW t \in Threads(rows), NEW e \in rows,
         e.stream = -1 => e \in HostRows(rows, t), s # t,
         DOMAIN more = DOMAIN map \cup {e.index}, NotBegun(rows, map, s)
  PROVE  NotBegun(rows, more, s)
<1> SUFFICES ASSUME NEW d \in HostRows(rows, s) PROVE d.index \notin DOMAIN more
  BY DEF NotBegun
<1>1. d \in rows /\ d.stream = -1 /\ d.pid = s.pid /\ d.tid = s.tid /\ s = [pid |-> s.pid, tid |-> s.tid]
  BY HostOf
<1>2. d # e
  <2> SUFFICES ASSUME d = e PROVE FALSE
    OBVIOUS
  <2>1. e \in HostRows(rows, t) /\ e.pid = s.pid /\ e.tid = s.tid
    BY <1>1
  <2>2. e \in rows /\ e.stream = -1
    BY <1>1
  <2>3. Home(e) = s
    BY <1>1, <2>1 DEF Home
  <2>4. e.pid = t.pid /\ e.tid = t.tid /\ t = [pid |-> t.pid, tid |-> t.tid]
    BY <2>1, HostOf DEF HostRows, ThreadRows
  <2> QED
    BY <2>3, <2>4 DEF Home
<1>3. d.index # e.index
  BY <1>1, <1>2 DEF Rows, Events
<1>4. d.index \notin DOMAIN map
  BY DEF NotBegun
<1> QED
  BY <1>3, <1>4

(* A step of the replay that adds a node, of e: an event of the thread or  *)
(* a kernel. *)
LEMMA ThreadsTimedGrow ==
  ASSUME HostsNested, ThreadsApart, Inv, OneStackEach, ThreadsTimed,
         pc = "replay", pc' = "replay", UNCHANGED <<trace, rank, threads, thread>>,
         NEW N, nodes' = Put(nodes, rank, N), Keeps(nodes[rank], N),
         NEW e \in trace[rank], e.stream = -1 => e \in HostRows(trace[rank], thread),
         DOMAIN N = DOMAIN nodes[rank] \cup {e.index},
         e.index \in DOMAIN nodes[rank] \/ RightNode(trace[rank], {}, {}, e.index, N[e.index])
  PROVE  ThreadsTimed' /\ nodes'[rank] = N
<1>1. /\ rank \in DOMAIN nodes /\ Rows(trace[rank]) /\ thread \in Threads(trace[rank])
      /\ threads \subseteq Threads(trace[rank]) /\ thread \notin threads
  BY RankRows DEF Inv, RankBegun, Replayed, OneStackEach, StackThreads
<1>2. nodes'[rank] = N
  BY <1>1 DEF Put
<1>3. PICK rows, map, x : rows = trace[rank] /\ map = nodes[rank] /\ x = e.index
  OBVIOUS
<1>4. MapTimed(rows, N)
  <2>1. MapTimed(rows, map)
    BY <1>3 DEF ThreadsTimed
  <2>2. Keeps(map, N) /\ DOMAIN N \subseteq DOMAIN map \cup {x}
        /\ (x \in DOMAIN map \/ RightNode(rows, {}, {}, x, N[x]))
    BY <1>3
  <2> QED
    BY <2>1, <2>2, MapGrows
<1>5. ASSUME NEW s \in threads PROVE NotBegun(rows, N, s)
  <2>1. NotBegun(rows, map, s) /\ s \in Threads(rows) /\ thread \in Threads(rows) /\ s # thread /\ Rows(rows)
    BY <1>1, <1>3 DEF ThreadsTimed
  <2>2. e \in rows /\ (e.stream = -1 => e \in HostRows(rows, thread))
        /\ DOMAIN N = DOMAIN map \cup {e.index}
    BY <1>3
  <2>3. PICK t : t = thread
    OBVIOUS
  <2> QED
    BY <2>1, <2>2, <2>3, StillNotBegun
<1>6. ASSUME NEW s \in Threads(rows) \ threads, s # thread PROVE Done(rows, N, s)
  <2>1. Done(rows, map, s) /\ DOMAIN map \subseteq DOMAIN N
    BY <1>3, <1>6 DEF ThreadsTimed
  <2> QED
    BY <2>1, DoneGrows
<1> QED
  BY <1>2, <1>3, <1>4, <1>5, <1>6 DEF ThreadsTimed

(* The event that begins gets the innermost around it. *)
LEMMA ReplayOpenEvent ==
  ASSUME HostsNested, ThreadsApart
  PROVE  Inv /\ OneStackEach /\ ReplayRight /\ OpenEvent => ReplayRight'
<1> SUFFICES ASSUME Inv, OneStackEach, ReplayRight, OpenEvent PROVE ReplayRight'
  OBVIOUS
<1> DEFINE rows == trace[rank]
           H == HostRows(rows, thread)
           parent == IF stack # << >> THEN stack[Len(stack)] ELSE RootIndex(thread)
           child == Head(ends).index
           N == AddEdge(nodes[rank], RootIndex(thread), parent, child, "CPU")
<1>1. /\ pc = "replay" /\ pc' = "replay" /\ ends # << >> /\ Head(ends).kind = Open
      /\ nodes' = Put(nodes, rank, N)
      /\ stack' = Append(stack, child) /\ ends' = Tail(ends)
      /\ UNCHANGED <<trace, rank, threads, thread, links>>
  BY DEF OpenEvent
<1>2. /\ ends \in Seq(EndsOf(H)) /\ stack \in Seq(Int)
      /\ \A i \in 1 .. Len(stack) : stack[i] \in DOMAIN nodes[rank]
      /\ thread \in Threads(rows) /\ RootIndex(thread) \in DOMAIN nodes[rank]
  BY <1>1 DEF Inv, Replayed
<1>3. rank \in Ranks /\ rank \in DOMAIN nodes /\ trace \in Traces /\ Rows(rows) /\ Sound(nodes[rank])
  BY <1>1, RankRows
<1>4. EndsInOrder(H) /\ StackRuns(H) /\ Opened(H) /\ Linked(rows)
  BY <1>1 DEF ReplayRight, ReplayTimed
<1>5. PICK e \in H : Head(ends) = OpenEnd(e)
  <2>1. Head(ends) \in EndsOf(H)
    BY <1>1, <1>2, HeadAndTail
  <2> QED
    BY <1>1, <2>1 DEF EndsOf, CloseEnd, Open, Close
<1>6. child = e.index /\ e \in rows /\ e.stream = -1 /\ e.index \in Nat /\ Events(H)
  <2>1. e \in rows /\ e.stream = -1 /\ Events(H)
    BY <1>2, <1>3, HostOf
  <2> QED
    BY <1>3, <1>5, <2>1 DEF OpenEnd, Rows
<1>7. parent \in DOMAIN nodes[rank]
  BY <1>2
<1>8. EndsInOrder(H)' /\ Range(ends') = Range(ends) \ {OpenEnd(e)} /\ OpenEnd(e) \in Range(ends)
  <2>1. PICK host : host = H
    OBVIOUS
  <2>2. Events(host) /\ ends \in Seq(EndsOf(host)) /\ EndsInOrder(host)
    BY <1>2, <1>4, <1>6, <2>1
  <2>3. EndsInOrder(host)' /\ Range(ends') = Range(ends) \ {Head(ends)} /\ Head(ends) \in Range(ends)
    BY <1>1, <2>2, InOrderNext
  <2> QED
    BY <1>1, <1>5, <2>1, <2>3
<1>9. child \notin DOMAIN nodes[rank]
  BY <1>4, <1>6, <1>8 DEF Opened
<1>10. Keeps(nodes[rank], N) /\ DOMAIN N = DOMAIN nodes[rank] \cup {child}
       /\ N[child].parent = parent /\ N[child].device = "CPU"
  <2> HIDE DEF parent, child
  <2>1. NewEdge(nodes[rank], N, parent, child, "CPU")
    BY <1>7, AddEdgeKeeps
  <2> HIDE DEF N
  <2> QED
    BY <1>9, <2>1 DEF NewEdge
<1> HIDE DEF N
<1>11. PICK th, host : th = thread /\ host = H
  OBVIOUS
<1>12. /\ Rows(rows) /\ th \in Threads(rows) /\ host = HostRows(rows, th)
       /\ EndsInOrder(host) /\ StackRuns(host) /\ ends \in Seq(EndsOf(host)) /\ e \in host
  BY <1>2, <1>3, <1>4, <1>11
<1>13. StackRuns(H)'
  <2>1. StackRuns(host)'
    BY <1>1, <1>2, <1>5, <1>6, <1>12, StackRunsOpen
  <2> QED
    BY <1>1, <1>11, <2>1
<1>14. ByOwn(rows, e, N[child].parent)
  <2>1. ByOwn(rows, e, IF stack # << >> THEN stack[Len(stack)] ELSE RootIndex(th))
    BY <1>1, <1>2, <1>5, <1>12, TopIsParent
  <2> QED
    BY <1>10, <1>11, <2>1
<1>15. RightNode(rows, {}, {}, e.index, N[e.index])
  BY <1>6, <1>10, <1>14, OwnNode
<1>16. ThreadsTimed' /\ nodes'[rank] = N
  BY <1>1, <1>6, <1>10, <1>15, ThreadsTimedGrow DEF ReplayRight
<1>17. Opened(H)'
  <2> SUFFICES ASSUME NEW d \in H
               PROVE  d.index \in DOMAIN N <=> OpenEnd(d) \notin Range(ends')
    BY <1>1, <1>16 DEF Opened
  <2>1. d.index \in DOMAIN nodes[rank] <=> OpenEnd(d) \notin Range(ends)
    BY <1>4 DEF Opened
  <2>2. d.index = e.index <=> OpenEnd(d) = OpenEnd(e)
    BY <1>6 DEF Events, OpenEnd
  <2> QED
    BY <1>6, <1>8, <1>10, <2>1, <2>2
<1>18. Linked(rows)'
  BY <1>1, <1>4, <1>10, <1>16 DEF Linked
<1> QED
  BY <1>1, <1>8, <1>13, <1>16, <1>17, <1>18 DEF ReplayRight, ReplayTimed

(* Steps that leave the nodes and the thread alone. *)
LEMMA ReplayCloseEvent ==
  ASSUME HostsNested, ThreadsApart
  PROVE  Inv /\ ReplayRight /\ CloseEvent => ReplayRight'
<1> SUFFICES ASSUME Inv, ReplayRight, CloseEvent PROVE ReplayRight'
  OBVIOUS
<1> DEFINE rows == trace[rank]
           H == HostRows(rows, thread)
<1>1. /\ pc = "replay" /\ pc' = "replay" /\ ends # << >> /\ Head(ends).kind = Close
      /\ stack' = IF stack # << >> THEN SubSeq(stack, 1, Len(stack) - 1) ELSE stack
      /\ ends' = Tail(ends)
      /\ UNCHANGED <<trace, rank, threads, thread, links, nodes>>
  BY DEF CloseEvent
<1>2. ends \in Seq(EndsOf(H)) /\ stack \in Seq(Int) /\ thread \in Threads(rows)
  BY <1>1 DEF Inv, Replayed
<1>3. Rows(rows)
  BY <1>1, RankRows
<1>4. EndsInOrder(H) /\ StackRuns(H) /\ Opened(H) /\ Linked(rows)
  BY <1>1 DEF ReplayRight, ReplayTimed
<1>5. PICK e \in H : Head(ends) = CloseEnd(e)
  <2>1. Head(ends) \in EndsOf(H)
    BY <1>1, <1>2, HeadAndTail
  <2> QED
    BY <1>1, <2>1 DEF EndsOf, OpenEnd, Open, Close
<1>6. PICK th, host : th = thread /\ host = H
  OBVIOUS
<1>7. /\ Rows(rows) /\ th \in Threads(rows) /\ host = HostRows(rows, th)
      /\ EndsInOrder(host) /\ StackRuns(host) /\ ends \in Seq(EndsOf(host)) /\ e \in host
      /\ Events(host)
  BY <1>2, <1>3, <1>4, <1>6, HostOf
<1>8. EndsInOrder(host)' /\ Range(ends') = Range(ends) \ {Head(ends)}
  BY <1>1, <1>7, InOrderNext
<1>9. StackRuns(host)'
  BY <1>1, <1>2, <1>5, <1>7, StackRunsClose
<1>10. Opened(H)'
  <2>1. \A d \in H : OpenEnd(d) # CloseEnd(e)
    BY DEF OpenEnd, CloseEnd, Open, Close
  <2> QED
    BY <1>1, <1>4, <1>5, <1>8, <2>1 DEF Opened
<1>11. Linked(rows)'
  BY <1>1, <1>4 DEF Linked
<1>12. ThreadsTimed'
  BY <1>1 DEF ReplayRight, ThreadsTimed
<1> QED
  BY <1>1, <1>6, <1>8, <1>9, <1>10, <1>11, <1>12 DEF ReplayRight, ReplayTimed

(* A kernel gets its launch. *)
LEMMA ReplayLinkKernel ==
  ASSUME HostsNested, ThreadsApart
  PROVE  Inv /\ OneStackEach /\ ReplayRight /\ LinkKernel => ReplayRight'
<1> SUFFICES ASSUME Inv, OneStackEach, ReplayRight, LinkKernel PROVE ReplayRight'
  OBVIOUS
<1> DEFINE rows == trace[rank]
           H == HostRows(rows, thread)
<1>1. PICK link \in links :
        /\ links' = links \ {link}
        /\ nodes' = Put(nodes, rank,
                        AddEdge(nodes[rank], RootIndex(thread), link.cpu, link.gpu, "GPU"))
  BY DEF LinkKernel
<1>2. /\ pc = "replay" /\ pc' = "replay" /\ ends = << >>
      /\ UNCHANGED <<trace, rank, threads, thread, ends, stack>>
  BY DEF LinkKernel
<1>3. link \in Links(rows, thread) /\ thread \in Threads(rows)
  BY <1>1, <1>2 DEF Inv, Replayed
<1>4. PICK k \in rows, e \in ThreadRows(rows, thread) :
        /\ k.stream > 0 /\ k.index_correlation > 0 /\ e.index = k.index_correlation
        /\ link.cpu = k.index_correlation /\ link.gpu = k.index
  BY <1>3 DEF Links
<1>5. rank \in Ranks /\ rank \in DOMAIN nodes /\ trace \in Traces /\ Rows(rows)
  BY <1>2, RankRows
<1>6. e \in H /\ k.index \in Nat
  <2>1. e \in rows
    BY DEF ThreadRows
  <2>2. e.stream = -1
    BY <1>4, <1>5, <2>1 DEF Rows
  <2> QED
    BY <1>5, <2>2 DEF HostRows, Rows
<1>7. EndsInOrder(H) /\ StackRuns(H) /\ Opened(H) /\ Linked(rows)
  BY <1>2 DEF ReplayRight, ReplayTimed
<1>8. link.cpu \in DOMAIN nodes[rank]
  BY <1>2, <1>4, <1>6 DEF Inv, Replayed, Range
<1> DEFINE N == AddEdge(nodes[rank], RootIndex(thread), link.cpu, link.gpu, "GPU")
<1>9. NewEdge(nodes[rank], N, link.cpu, link.gpu, "GPU")
  BY <1>8, AddEdgeKeeps
<1>10. nodes' = Put(nodes, rank, N)
  BY <1>1
<1> HIDE DEF N
<1>11. k.index \in DOMAIN nodes[rank] \/ RightNode(rows, {}, {}, k.index, N[k.index])
  BY <1>4, <1>6, <1>9 DEF NewEdge, RightNode, KernelNode
<1>12. DOMAIN N = DOMAIN nodes[rank] \cup {k.index} /\ Keeps(nodes[rank], N)
  BY <1>4, <1>9 DEF NewEdge
<1>13. k.stream # -1
  BY <1>4
<1>14. ThreadsTimed' /\ nodes'[rank] = N
  BY <1>2, <1>10, <1>11, <1>12, <1>13, ThreadsTimedGrow DEF ReplayRight
<1>15. Opened(H)'
  <2> SUFFICES ASSUME NEW d \in H
               PROVE  d.index \in DOMAIN N <=> OpenEnd(d) \notin Range(ends)
    BY <1>2, <1>14 DEF Opened
  <2>1. d.index \in DOMAIN nodes[rank] <=> OpenEnd(d) \notin Range(ends)
    BY <1>7 DEF Opened
  <2>2. d.index # k.index
    <3>1. d \in rows /\ d.stream = -1
      BY DEF HostRows, ThreadRows
    <3> QED
      BY <1>5, <1>13, <3>1 DEF Rows, Events
  <2> QED
    BY <1>12, <2>1, <2>2
<1>16. Linked(rows)'
  <2> SUFFICES ASSUME NEW l \in Links(rows, thread) PROVE l \in links' \/ l.gpu \in DOMAIN N
    BY <1>2, <1>14 DEF Linked
  <2> QED
    BY <1>1, <1>4, <1>7, <1>12 DEF Linked
<1>17. (EndsInOrder(H) /\ StackRuns(H))'
  BY <1>2, <1>7 DEF EndsInOrder, StackRuns, Running
<1> QED
  BY <1>2, <1>14, <1>15, <1>16, <1>17 DEF ReplayRight, ReplayTimed

(* No thread of the rank is begun when the rank is. *)
LEMMA ReplayStartRank == ReplayRight /\ StartRank => ReplayRight'
<1> SUFFICES ASSUME ReplayRight, StartRank PROVE ReplayRight'
  OBVIOUS
<1>1. /\ rank' \in todo /\ pc' = "thread" /\ trace' = trace /\ threads' = Threads(trace'[rank'])
      /\ nodes' = Put(nodes, rank', [n \in {} |-> {}])
  BY DEF StartRank
<1>2. DOMAIN nodes'[rank'] = {}
  BY <1>1 DEF Put
<1> QED
  BY <1>1, <1>2 DEF ReplayRight, ThreadsTimed, ReplayTimed, NotBegun, MapTimed, MapLinked

(* All ends are to come when a thread begins. *)
LEMMA ReplayStartThread ==
  ASSUME HostsNested, ThreadsApart, SortSorts
  PROVE  Inv /\ OneStackEach /\ ReplayRight /\ StartThread => ReplayRight'
<1> SUFFICES ASSUME Inv, OneStackEach, ReplayRight, StartThread PROVE ReplayRight'
  OBVIOUS
<1>1. PICK th \in threads :
        /\ thread' = th /\ threads' = threads \ {th}
        /\ nodes' = Put(nodes, rank, WithRoot(nodes[rank], RootIndex(th)))
        /\ ends' = Sorted(Melted(HostRows(trace[rank], th)))
        /\ links' = Links(trace[rank], th)
  BY DEF StartThread
<1>2. /\ pc = "thread" /\ pc' \in {"replay", "raised"} /\ stack' = << >>
      /\ UNCHANGED <<trace, rank>>
  BY DEF StartThread
<1> DEFINE rows == trace[rank]
           H == HostRows(rows, th)
           N == WithRoot(nodes[rank], RootIndex(th))
<1>3. /\ rank \in Ranks /\ rank \in DOMAIN nodes /\ trace \in Traces /\ Rows(rows)
      /\ th \in Threads(rows) /\ threads \subseteq Threads(rows)
      /\ RootIndex(th) \in Int /\ RootIndex(th) < 0
  BY <1>2, RankRows, RootsBelowEvents DEF Inv, RankBegun
<1>4. /\ Keeps(nodes[rank], N) /\ DOMAIN N = DOMAIN nodes[rank] \cup {RootIndex(th)}
      /\ RootIndex(th) \notin DOMAIN nodes[rank] => N[RootIndex(th)].device = "CPU"
  BY WithRootKeeps
<1>5. nodes' = Put(nodes, rank, N)
  BY <1>1
<1> HIDE DEF N
<1>6. nodes'[rank] = N
  BY <1>5 DEF Put
<1>7. MapTimed(rows, N)
  <2>1. PICK map, x, frame : map = nodes[rank] /\ x = RootIndex(th) /\ frame = rows
    OBVIOUS
  <2>2. MapTimed(frame, map)
    BY <1>2, <2>1 DEF ReplayRight, ThreadsTimed
  <2>3. Keeps(map, N) /\ DOMAIN N \subseteq DOMAIN map \cup {x}
    BY <1>4, <2>1
  <2>4. x \in DOMAIN map \/ RightNode(frame, {}, {}, x, N[x])
    BY <1>3, <1>4, <2>1 DEF RightNode
  <2>5. MapTimed(frame, N)
    BY <2>2, <2>3, <2>4, MapGrows
  <2> QED
    BY <2>1, <2>5
<1>8. \A s \in threads : NotBegun(rows, N, s)
  <2> SUFFICES ASSUME NEW s \in threads, NEW e \in HostRows(rows, s) PROVE e.index \notin DOMAIN N
    BY DEF NotBegun
  <2>1. e.index \in Nat
    BY <1>3 DEF Rows, HostRows, ThreadRows
  <2>2. e.index \notin DOMAIN nodes[rank]
    BY <1>2 DEF ReplayRight, ThreadsTimed, NotBegun
  <2> QED
    BY <1>3, <1>4, <2>1, <2>2
<1>9. \A s \in Threads(rows) \ threads : Done(rows, N, s)
  BY <1>2, <1>4 DEF ReplayRight, ThreadsTimed, Done
<1>10. ThreadsTimed'
  BY <1>1, <1>2, <1>6, <1>7, <1>8, <1>9 DEF ThreadsTimed
<1>11. Ordered(ends') /\ ends' \in Seq(EndsOf(H)) /\ EndsOf(H) \subseteq Range(ends')
  <2>1. StrictlyOrdered(EndsOf(H))
    BY <1>3, HostOf, EndsOrdered
  <2>2. Ordered(ends')
    BY <1>1, <1>3, <2>1 DEF SortSorts
  <2> QED
    BY <1>1, <1>3, <2>2, SortedAssumption
<1>12. Range(ends') = EndsOf(H)
  <2>1. Range(ends') \subseteq EndsOf(H)
    BY <1>11 DEF Range
  <2> QED
    BY <1>11, <2>1
<1>13. \A e \in H : OpenEnd(e) \in Range(ends')
  BY <1>12 DEF EndsOf
<1>14. EndsInOrder(H)'
  BY <1>2, <1>11, <1>12 DEF EndsInOrder
<1>15. StackRuns(H)'
  BY <1>2, <1>13 DEF StackRuns, Running
<1>16. Opened(H)'
  BY <1>2, <1>6, <1>8, <1>13 DEF Opened, NotBegun
<1>17. Linked(rows)'
  BY <1>1, <1>2 DEF Linked
<1> QED
  BY <1>1, <1>2, <1>10, <1>14, <1>15, <1>16, <1>17 DEF ReplayRight, ReplayTimed

(* A thread is done when its kernels are linked. *)
LEMMA ReplayFinishThread ==
  ASSUME HostsNested, ThreadsApart
  PROVE  Inv /\ ReplayRight /\ FinishThread => ReplayRight'
<1> SUFFICES ASSUME Inv, ReplayRight, FinishThread PROVE ReplayRight'
  OBVIOUS
<1>1. /\ pc = "replay" /\ pc' = "thread" /\ ends = << >> /\ links = {}
      /\ UNCHANGED <<trace, rank, threads, thread, nodes>>
  BY DEF FinishThread, threadVars
<1>2. Done(trace[rank], nodes[rank], thread)
  <2>1. RootIndex(thread) \in DOMAIN nodes[rank]
    BY <1>1 DEF Inv, Replayed
  <2>2. Range(ends) = {}
    BY <1>1 DEF Range
  <2> QED
    BY <1>1, <2>1, <2>2 DEF ReplayRight, ReplayTimed, Opened, Linked, Done
<1> QED
  BY <1>1, <1>2 DEF ReplayRight, ThreadsTimed, ReplayTimed

(* Every step of the replay keeps the parents that it has found right      *)
(* (trace_call_stack.py:346-384).                                          *)
LEMMA ReplayStep ==
  ASSUME HostsNested, ThreadsApart, SortSorts
  PROVE  Inv /\ OneStackEach /\ ReplayRight /\ [Next]_vars => ReplayRight'
<1> SUFFICES ASSUME Inv, OneStackEach, ReplayRight, [Next]_vars PROVE ReplayRight'
  OBVIOUS
<1>1. CASE UNCHANGED vars \/ Query
  <2>1. UNCHANGED <<trace, buildVars>>
    BY <1>1 DEF vars, Query, GetGpuKernels, GetNodeAttributes, GetCsgOfNode, GetStackOfNode
  <2> QED
    BY <2>1 DEF buildVars, threadVars, ReplayRight, ThreadsTimed, ReplayTimed, EndsInOrder, StackRuns,
                Running, Opened, Linked
<1>2. CASE StartConnect \/ LinkAnnotation \/ SaveStacks \/ ConstructAgain
  <2>1. pc' \notin {"thread", "replay"}
    BY <1>2 DEF StartConnect, LinkAnnotation, SaveStacks, ConstructAgain
  <2> QED
    BY <2>1 DEF ReplayRight, ThreadsTimed, ReplayTimed
<1> QED
  BY <1>1, <1>2, ReplayStartRank, ReplayStartThread, ReplayOpenEvent, ReplayCloseEvent,
     ReplayLinkKernel, ReplayFinishThread DEF Next, Build

-----------------------------------------------------------------------------
(* The parents while stacks are connected                                  *)

(* Children of a root that move under an event: they have it as parent,    *)
(* the others what they had, and only the root may go. *)
Moved(map, updated, root, moved, new) ==
  /\ DOMAIN updated \subseteq DOMAIN map /\ DOMAIN map \subseteq DOMAIN updated \cup {root}
  /\ \A n \in DOMAIN updated :
       /\ updated[n].device = map[n].device
       /\ updated[n].parent = IF n \in moved THEN new ELSE map[n].parent

(* Nodes whose parent is updated move, and no other does                   *)
(* (trace_call_stack.py:431-462).                                          *)
LEMMA UpdateParentMoves ==
  ASSUME NEW map, NEW root \in DOMAIN map, NEW new \in DOMAIN map, NEW moved,
         Sound(map), root < 0, new >= 0, moved \subseteq map[root].children
  PROVE  Moved(map, UpdateParent(map, moved, new), root, moved, new)
<1> DEFINE valid == (moved \cap DOMAIN map) \ map[new].children
           old_parents == {map[n].parent : n \in valid}
           attached == [n \in DOMAIN map |->
             Node(IF n \in valid THEN new ELSE map[n].parent,
                  map[n].depth, map[n].device,
                  (map[n].children \cup (IF n = new THEN valid ELSE {}))
                    \ (IF n \in old_parents THEN valid ELSE {}))]
           emptied == {p \in old_parents : attached[p].children = {}}
           updated == UpdateParent(map, moved, new)
<1>1. updated = [n \in DOMAIN map \ emptied |-> attached[n]]
  BY DEF UpdateParent
<1>2. \A n \in moved : n \in DOMAIN map /\ map[n].parent = root
  BY DEF Sound, Agree
<1>3. valid = moved
  <2>1. \A n \in map[new].children : map[n].parent = new
    BY DEF Sound, Agree
  <2>2. root # new
    BY DEF Sound, NodeMap
  <2> QED
    BY <1>2, <2>1, <2>2
<1>4. emptied \subseteq {root}
  BY <1>2, <1>3
<1>5. \A n \in DOMAIN map : /\ attached[n].parent = IF n \in valid THEN new ELSE map[n].parent
                            /\ attached[n].device = map[n].device
  BY DEF Node
<1> HIDE DEF updated, attached, emptied, old_parents, valid
<1>6. DOMAIN updated = DOMAIN map \ emptied /\ \A n \in DOMAIN updated : updated[n] = attached[n]
  BY <1>1
<1> QED
  BY <1>3, <1>4, <1>5, <1>6 DEF Moved, updated

(* The events without one around them that the annotation holds. *)
Held(rows, map, root, a) ==
  {c \in map[root].children : \E d \in rows : d.index = c /\ a.ts <= d.ts /\ d.end <= a.end}

(* What is right with the annotations A is right with one more that is     *)
(* later in the file, when the events that it holds have moved. *)
LinkReady(rows, map, tid, A, a) ==
  /\ Rows(rows) /\ Sound(map) /\ MapLinked(rows, map, {tid}, A)
  /\ tid \in Nat \ {0} /\ -tid \in DOMAIN map
  /\ a \in rows /\ a.index \in DOMAIN map
  /\ A \subseteq Nat /\ \A b \in A : b < a.index

(* One more annotation holds the events within its times.                  *)
LEMMA HoldersMore ==
  ASSUME NEW rows, Rows(rows), NEW A, NEW a \in rows, NEW e
  PROVE  Holders(rows, A \cup {a.index}, e) =
           Holders(rows, A, e) \cup (IF a.ts <= e.ts /\ e.end <= a.end THEN {a} ELSE {})
<1>1. \A b \in rows : b.index = a.index <=> b = a
  BY DEF Rows, Events
<1> QED
  BY <1>1 DEF Holders

(* The first annotation that holds an event stays the first, as            *)
(* annotations are linked in order.                                        *)
LEMMA FirstStays ==
  ASSUME NEW rows, Rows(rows), NEW A, NEW a \in rows, NEW e, A \subseteq Nat, \A b \in A : b < a.index,
         Holders(rows, A, e) # {}
  PROVE  FirstOf(Holders(rows, A \cup {a.index}, e)) = FirstOf(Holders(rows, A, e))
<1>1. PICK more, part : more = Holders(rows, A \cup {a.index}, e) /\ part = Holders(rows, A, e)
  OBVIOUS
<1>2. part \subseteq more /\ more \subseteq part \cup {a} /\ part # {}
  BY <1>1, HoldersMore
<1>3. a.index \in Nat /\ \A b \in part : b.index \in Nat /\ b.index < a.index
  BY <1>1 DEF Holders, Rows
<1>4. FirstOf(more) = FirstOf(part)
  <2>1. ASSUME NEW b \in FirstOf(more) PROVE b \in FirstOf(part)
    <3>1. b # a
      BY <1>2, <1>3, <2>1 DEF FirstOf
    <3> QED
      BY <1>2, <2>1, <3>1 DEF FirstOf
  <2>2. ASSUME NEW b \in FirstOf(part) PROVE b \in FirstOf(more)
    BY <1>2, <1>3, <2>2 DEF FirstOf
  <2> QED
    BY <2>1, <2>2
<1> QED
  BY <1>1, <1>4

(* A node is right after the events under one more annotation moved.       *)
LEMMA RightMoved ==
  ASSUME NEW rows, NEW map, NEW tid, NEW A, NEW a, LinkReady(rows, map, tid, A, a),
         NEW updated, Moved(map, updated, -tid, Held(rows, map, -tid, a), a.index),
         NEW n \in DOMAIN updated
  PROVE  RightNode(rows, {tid}, A \cup {a.index}, n, updated[n])
<1> DEFINE root == -tid
           moved == Held(rows, map, root, a)
<1>1. /\ Rows(rows) /\ Sound(map) /\ MapLinked(rows, map, {tid}, A) /\ tid \in Nat \ {0}
      /\ root \in DOMAIN map /\ a \in rows /\ A \subseteq Nat /\ \A b \in A : b < a.index
      /\ root < 0 /\ a.index \in Nat /\ root \in Int
  BY DEF LinkReady, Rows
<1>2. n \in DOMAIN map /\ updated[n].device = map[n].device /\ n \in Int
      /\ updated[n].parent = IF n \in moved THEN a.index ELSE map[n].parent
  BY <1>1 DEF Moved, Sound, NodeMap
<1>3. n \in moved => n >= 0 /\ map[n].parent = root
  BY <1>1 DEF Held, Sound, Agree, ChildrenAreEvents
<1>4. CASE n < 0
  <2>1. RightNode(rows, {tid}, A, n, map[n])
    BY <1>1, <1>2 DEF MapLinked
  <2> QED
    BY <1>2, <1>4, <2>1 DEF RightNode
<1>5. CASE n >= 0
  <2>1. PICK e \in rows : /\ e.index = n
                          /\ HostNode(rows, {tid}, A, e, map[n]) \/ KernelNode(e, map[n])
    BY <1>1, <1>2, <1>5 DEF MapLinked, RightNode
  <2>2. CASE KernelNode(e, map[n])
    <3>1. map[n].parent > 0
      BY <2>2 DEF KernelNode
    <3>2. n \notin moved
      BY <1>1, <1>3, <3>1
    <3> QED
      BY <1>2, <1>5, <2>1, <2>2, <3>2 DEF KernelNode, RightNode
  <2>3. CASE HostNode(rows, {tid}, A, e, map[n])
    <3>1. e.stream = -1 /\ map[n].device = "CPU" /\ LinkedTo(rows, {tid}, A, e, map[n].parent)
          /\ e.tid \in Nat
      BY <1>1, <2>3 DEF HostNode, Rows
    <3>2. PICK more : more = A \cup {a.index}
      OBVIOUS
    <3>3. SUFFICES LinkedTo(rows, {tid}, more, e, updated[n].parent)
      BY <1>2, <1>5, <2>1, <3>1, <3>2 DEF RightNode, HostNode
    <3>4. ASSUME map[n].parent = root
          PROVE  /\ Around(rows, e) = {} /\ e.tid = tid /\ Holders(rows, A, e) = {}
      <4>1. \A q \in rows : q.index \in Nat /\ q.index # root
        BY <1>1 DEF Rows
      <4>2. ~(Around(rows, e) = {} /\ e.tid \in {tid} /\ Holders(rows, A, e) # {})
        <5> SUFFICES ASSUME Around(rows, e) = {} /\ e.tid \in {tid} /\ Holders(rows, A, e) # {} PROVE FALSE
          OBVIOUS
        <5>1. \E b \in rows : map[n].parent = b.index
          BY <3>1 DEF LinkedTo, FirstOf, Holders
        <5> QED
          BY <3>4, <4>1, <5>1
      <4>3. ByOwn(rows, e, root)
        BY <3>1, <3>4, <4>2 DEF LinkedTo
      <4>4. Around(rows, e) = {} /\ root = -e.tid
        BY <4>1, <4>3 DEF ByOwn, Around
      <4>5. e.tid = tid
        BY <1>1, <3>1, <4>4
      <4> QED
        BY <4>2, <4>4, <4>5
    <3>5. CASE n \in moved
      <4>1. Around(rows, e) = {} /\ e.tid = tid /\ Holders(rows, A, e) = {}
        BY <1>3, <3>4, <3>5
      <4>2. a.ts <= e.ts /\ e.end <= a.end
        <5>1. PICK d \in rows : d.index = n /\ a.ts <= d.ts /\ d.end <= a.end
          BY <3>5 DEF Held
        <5>2. d = e
          BY <1>1, <2>1, <5>1 DEF Rows, Events
        <5> QED
          BY <5>1, <5>2
      <4>3. Holders(rows, more, e) = {a}
        BY <1>1, <3>2, <4>1, <4>2, HoldersMore
      <4>4. a \in FirstOf(Holders(rows, more, e))
        BY <1>1, <4>3 DEF FirstOf
      <4> QED
        BY <1>2, <3>5, <4>1, <4>3, <4>4 DEF LinkedTo
    <3>6. CASE n \notin moved
      <4>1. updated[n].parent = map[n].parent
        BY <1>2, <3>6
      <4>2. CASE ~(Around(rows, e) = {} /\ e.tid = tid)
        BY <3>1, <4>1, <4>2 DEF LinkedTo
      <4>3. CASE Around(rows, e) = {} /\ e.tid = tid /\ Holders(rows, A, e) # {}
        <5>1. FirstOf(Holders(rows, more, e)) = FirstOf(Holders(rows, A, e))
          BY <1>1, <3>2, <4>3, FirstStays
        <5>2. Holders(rows, more, e) # {}
          BY <3>2, <4>3 DEF Holders
        <5> QED
          BY <3>1, <4>1, <4>3, <5>1, <5>2 DEF LinkedTo
      <4>4. CASE Around(rows, e) = {} /\ e.tid = tid /\ Holders(rows, A, e) = {}
        <5>1. map[n].parent = root
          BY <3>1, <4>4 DEF LinkedTo, ByOwn
        <5>2. n \in map[root].children
          BY <1>1, <1>2, <1>5, <5>1 DEF Sound, Agree
        <5>3. ~(a.ts <= e.ts /\ e.end <= a.end)
          BY <2>1, <3>6, <5>2 DEF Held
        <5>4. Holders(rows, A \cup {a.index}, e) = Holders(rows, A, e)
          BY <1>1, <5>3 DEF Holders, Rows, Events
        <5>5. Holders(rows, more, e) = {}
          BY <3>2, <4>4, <5>4
        <5> QED
          BY <3>1, <4>1, <4>4, <5>5 DEF LinkedTo
      <4> QED
        BY <4>2, <4>3, <4>4
    <3> QED
      BY <3>5, <3>6
  <2> QED
    BY <2>1, <2>2, <2>3
<1> QED
  BY <1>2, <1>4, <1>5

(* The numbers of the thread that is connected, and the annotations of the *)
(* other.                                                                  *)
BwdTids(r) == {stacks[p[1]].thread.tid : p \in Pairs(r)}
Annots(r) == UNION {BackwardParents(r, stacks[p[2]].thread) : p \in Pairs(r)}

(* All events of the host and all linked kernels are nodes. *)
AllThere(rows, map) ==
  /\ \A th \in Threads(rows) : \A e \in HostRows(rows, th) : e.index \in DOMAIN map
  /\ \A th \in Threads(rows) : \A l \in Links(rows, th) : l.gpu \in DOMAIN map

(* The annotations are linked one after the other, the first one first.    *)
AnnotationsTimed ==
  /\ annotations \subseteq Annots(rank)
  /\ \A a \in Annots(rank) \ annotations, b \in annotations : a < b
  /\ MapLinked(trace[rank], nodes[rank], BwdTids(rank), Annots(rank) \ annotations)
  /\ AllThere(trace[rank], nodes[rank])
  /\ annotations # {} => \A p \in Pairs(rank) : stacks[p[1]].root = RootIndex(stacks[p[1]].thread)
ConnectTimed == pc = "connect" => AnnotationsTimed

(* The pairs, their threads and the annotations are of the labels. *)
SameStacks(r) ==
  /\ Labelled(r)' = Labelled(r)
  /\ \A i \in Labelled(r) : stacks'[i].label = stacks[i].label /\ stacks'[i].thread = stacks[i].thread

(* Labels and annotations depend on the stacks and the trace.              *)
LEMMA SameLabels ==
  ASSUME NEW r, SameStacks(r), trace' = trace
  PROVE  Pairs(r)' = Pairs(r) /\ BwdTids(r)' = BwdTids(r) /\ Annots(r)' = Annots(r)
<1>1. \A i, j \in Labelled(r) : LabelBefore(i, j)' <=> LabelBefore(i, j)
  BY DEF SameStacks, LabelBefore
<1>2. Pairs(r)' = Pairs(r)
  BY <1>1 DEF SameStacks, Pairs
<1>3. \A p \in Pairs(r) : /\ p[1] \in Labelled(r) /\ p[2] \in Labelled(r)
                          /\ stacks'[p[1]].thread = stacks[p[1]].thread
                          /\ stacks'[p[2]].thread = stacks[p[2]].thread
  BY DEF SameStacks, Pairs
<1>4. BwdTids(r)' = BwdTids(r)
  BY <1>2, <1>3 DEF BwdTids
<1>5. \A th : BackwardParents(r, th)' = BackwardParents(r, th)
  BY DEF BackwardParents, Named
<1>6. Annots(r)' = Annots(r)
  <2>1. \A p \in Pairs(r) : BackwardParents(r, stacks[p[2]].thread)' = BackwardParents(r, stacks[p[2]].thread)
    BY <1>3 DEF BackwardParents, Named
  <2> QED
    BY <1>2, <2>1 DEF Annots
<1> QED
  BY <1>2, <1>4, <1>6

(* Nothing is linked when all threads are done. *)
LEMMA ConnectStart ==
  ASSUME HostsNested, ThreadsApart, AnnotationsOnHost
  PROVE  Inv /\ PathsInv /\ ReplayRight /\ StartConnect => ConnectTimed'
<1> SUFFICES ASSUME Inv, PathsInv, ReplayRight, StartConnect PROVE ConnectTimed'
  OBVIOUS
<1>1. /\ pc = "thread" /\ pc' = "connect" /\ threads = {}
      /\ annotations' = Annots(rank)
      /\ UNCHANGED <<trace, rank, nodes, stacks>>
  BY DEF StartConnect, Annots
<1>2. Pairs(rank)' = Pairs(rank)
  BY <1>1 DEF Pairs, Labelled, LabelBefore
<1>3. BwdTids(rank)' = BwdTids(rank) /\ Annots(rank)' = Annots(rank)
  <2>1. BwdTids(rank)' = BwdTids(rank)
    BY <1>1, <1>2 DEF BwdTids
  <2>2. /\ trace' = trace /\ rank' = rank /\ stacks' = stacks
    BY <1>1
  <2>3. \A p \in Pairs(rank) : BackwardParents(rank, stacks[p[2]].thread)' = BackwardParents(rank, stacks[p[2]].thread)
    BY <2>2 DEF BackwardParents, Named, ThreadRows
  <2>4. Annots(rank)' = Annots(rank)
    BY <1>2, <2>2, <2>3 DEF Annots
  <2> QED
    BY <2>1, <2>4
<1>4. MapTimed(trace[rank], nodes[rank])
  BY <1>1 DEF ReplayRight, ThreadsTimed
<1>5. MapLinked(trace[rank], nodes[rank], BwdTids(rank), {})
  BY <1>4, NoHolders
<1>6. AllThere(trace[rank], nodes[rank])
  BY <1>1 DEF ReplayRight, ThreadsTimed, Done, AllThere
<1>7. \A p \in Pairs(rank) : stacks[p[1]].root = RootIndex(stacks[p[1]].thread)
  BY <1>1 DEF PathsInv, Stacked, Pairs, Labelled
<1>8. Annots(rank)' \ annotations' = {}
  BY <1>1, <1>3
<1>9. MapLinked(trace[rank], nodes[rank], BwdTids(rank), Annots(rank) \ annotations)'
  BY <1>1, <1>3, <1>5, <1>8
<1>10. AllThere(trace[rank], nodes[rank])'
  BY <1>1, <1>6
<1>11. \A p \in Pairs(rank)' : stacks'[p[1]].root = RootIndex(stacks'[p[1]].thread)
  BY <1>1, <1>2, <1>7
<1> QED
  BY <1>1, <1>3, <1>8, <1>9, <1>10, <1>11 DEF ConnectTimed, AnnotationsTimed

(* The stacks keep all but the root of one.  *)
LEMMA OtherRoot ==
  ASSUME stacks \in Seq(Range(stacks)), NEW p \in DOMAIN stacks, NEW main,
         stacks' = stacks \/ stacks' = [stacks EXCEPT ![p].root = main]
  PROVE  /\ DOMAIN stacks' = DOMAIN stacks
         /\ \A i \in DOMAIN stacks :
              /\ stacks'[i].rank = stacks[i].rank /\ stacks'[i].label = stacks[i].label
              /\ stacks'[i].thread = stacks[i].thread
              /\ i # p => stacks'[i] = stacks[i]
         /\ stacks' # stacks => stacks'[p].root = main
<1>1. CASE stacks' = stacks
  BY <1>1
<1>2. CASE stacks' = [stacks EXCEPT ![p].root = main]
  <2>1. stacks' = [i \in DOMAIN stacks |-> IF i = p THEN [stacks[p] EXCEPT !.root = main] ELSE stacks[i]]
    BY <1>2
  <2>2. DOMAIN stacks' = DOMAIN stacks
    BY <2>1
  <2>3. \A i \in DOMAIN stacks : i # p => stacks'[i] = stacks[i]
    BY <2>1
  <2>4. stacks'[p] = [stacks[p] EXCEPT !.root = main]
    BY <2>1
  <2>5. /\ stacks'[p].rank = stacks[p].rank /\ stacks'[p].label = stacks[p].label
        /\ stacks'[p].thread = stacks[p].thread
    BY <2>4
  <2>6. \A i \in DOMAIN stacks : stacks'[i].root = IF i = p THEN main ELSE stacks[i].root
    BY <2>1
  <2> QED
    BY <2>2, <2>3, <2>5, <2>6
<1> QED
  BY <1>1, <1>2

(* The annotations are rows of the host of the main thread. *)
LEMMA AnnotsRows ==
  ASSUME AnnotationsOnHost, trace \in Traces, NEW r \in Ranks,
         \A i \in DOMAIN stacks : stacks[i].thread \in Threads(trace[stacks[i].rank]),
         NEW a \in Annots(r)
  PROVE  \E p \in Pairs(r) : \E e \in HostRows(trace[r], stacks[p[2]].thread) : e.index = a
<1>1. PICK p \in Pairs(r) : a \in BackwardParents(r, stacks[p[2]].thread)
  BY DEF Annots
<1>2. stacks[p[2]].thread \in Threads(trace[r])
  BY DEF Pairs, Labelled
<1>3. PICK th : th = stacks[p[2]].thread
  OBVIOUS
<1>4. \E e \in HostRows(trace[r], th) : e.index = a
  BY <1>1, <1>2, <1>3, AnnotationRows
<1> QED
  BY <1>3, <1>4

(* Linking an annotation keeps parents right                               *)
(* (trace_call_graph.py:285-322).                                          *)
LEMMA ConnectLink ==
  ASSUME HostsNested, ThreadsApart, AnnotationsOnHost
  PROVE  Inv /\ PathsInv /\ OneStackEach /\ RootsApart /\ RootsApart' /\ ConnectTimed /\ LinkAnnotation
           => ConnectTimed'
<1> SUFFICES ASSUME Inv, PathsInv, OneStackEach, RootsApart, RootsApart', ConnectTimed, LinkAnnotation
             PROVE  ConnectTimed'
  OBVIOUS
<1>1. pc = "connect" /\ pc' = "connect" /\ trace' = trace /\ rank' = rank /\ AnnotationsTimed
  BY PathsLinkAnnotation DEF LinkAnnotation, ConnectTimed
<1>2. PICK annotation \in annotations, pair \in Pairs(rank) : Linking(annotation, pair)
  BY PathsLinkAnnotation
<1> DEFINE rows == trace[rank]
           map == nodes[rank]
           th == stacks[pair[1]].thread
           tid == th.tid
           root == stacks[pair[1]].root
           A == Annots(rank) \ annotations
<1>3. /\ rank \in Ranks /\ trace \in Traces /\ Sound(map) /\ stacks \in Seq(Range(stacks))
      /\ annotations \subseteq Nat
      /\ \A i \in DOMAIN stacks : stacks[i].thread \in Threads(trace[stacks[i].rank])
  BY <1>1 DEF Inv, RankBegun, NodesSound, StackRoots, OneStackEach, StackThreads
<1>4. Rows(rows)
  BY <1>3, RowsOfRank
<1>5. /\ pair[1] \in Labelled(rank) /\ pair[2] \in Labelled(rank) /\ pair[1] \in DOMAIN stacks
      /\ pair[2] \in DOMAIN stacks /\ pair[1] # pair[2] /\ th \in Threads(rows)
      /\ \A p \in Pairs(rank) : p[1] = pair[1] /\ p[2] = pair[2]
  BY <1>3, OnePair DEF Pairs, Labelled
<1>6. BwdTids(rank) = {tid}
  BY <1>5 DEF BwdTids
<1>7. root = -tid /\ tid \in Nat \ {0} /\ root \in DOMAIN map
  <2>1. root = RootIndex(th) /\ root < 0 /\ root \in DOMAIN map
    BY <1>1, <1>2 DEF AnnotationsTimed, Linking
  <2>2. tid \in Nat
    BY <1>4, <1>5, HostOf
  <2> QED
    BY <2>1, <2>2 DEF RootIndex
<1>8. \A b \in Annots(rank) : \E e \in rows : e.index = b
  BY <1>3, AnnotsRows DEF HostRows, ThreadRows
<1>9. PICK a \in rows : a.index = annotation
  BY <1>1, <1>8 DEF AnnotationsTimed
<1>10. A \subseteq Nat /\ \A b \in A : b < annotation
  BY <1>1, <1>4, <1>8 DEF AnnotationsTimed, Rows
<1>11. MapLinked(rows, map, {tid}, A)
  BY <1>1, <1>6 DEF AnnotationsTimed
<1>12. Guarded(root, annotation) = Held(rows, map, root, a)
  <2>1. (CHOOSE e \in rows : e.index = annotation) = a
    BY <1>4, <1>9 DEF Rows, Events
  <2> QED
    BY <2>1 DEF Guarded, Held
<1> HIDE DEF rows, map, th, tid, root, A
<1>13. PICK frame, same, number, before, top :
         frame = rows /\ same = map /\ number = tid /\ before = A /\ top = root
  OBVIOUS
<1> DEFINE updated == UpdateParent(same, Held(frame, same, top, a), a.index)
<1>14. LinkReady(frame, same, number, before, a)
  BY <1>2, <1>3, <1>4, <1>7, <1>9, <1>10, <1>11, <1>13 DEF LinkReady, Linking, map
<1>15. Moved(same, updated, -number, Held(frame, same, -number, a), a.index)
  <2>1. top = -number /\ top \in DOMAIN same /\ a.index \in DOMAIN same /\ Sound(same)
        /\ top < 0 /\ a.index >= 0
    BY <1>3, <1>7, <1>9, <1>13, <1>14 DEF LinkReady
  <2>2. Held(frame, same, top, a) \subseteq same[top].children
    BY DEF Held
  <2>3. PICK held : held = Held(frame, same, top, a)
    OBVIOUS
  <2>4. Moved(same, UpdateParent(same, held, a.index), top, held, a.index)
    BY <2>1, <2>2, <2>3, UpdateParentMoves
  <2> QED
    BY <2>1, <2>3, <2>4
<1>16. nodes' = Put(nodes, rank, updated)
  BY <1>2, <1>9, <1>12, <1>13 DEF Linking, root, map
<1> HIDE DEF updated
<1>17. nodes'[rank] = updated
  BY <1>16 DEF Put
<1>18. MapLinked(frame, updated, {number}, before \cup {a.index})
  BY <1>14, <1>15, RightMoved DEF MapLinked
<1>19. /\ DOMAIN stacks' = DOMAIN stacks
       /\ \A i \in DOMAIN stacks :
            /\ stacks'[i].rank = stacks[i].rank /\ stacks'[i].label = stacks[i].label
            /\ stacks'[i].thread = stacks[i].thread
            /\ i # pair[1] => stacks'[i] = stacks[i]
       /\ stacks' # stacks => stacks'[pair[1]].root = stacks[pair[2]].root
  <2>1. PICK p, main : p = pair[1] /\ main = stacks[pair[2]].root
    OBVIOUS
  <2>2. p \in DOMAIN stacks /\ (stacks' = stacks \/ stacks' = [stacks EXCEPT ![p].root = main])
    BY <1>2, <1>5, <2>1 DEF Linking
  <2>3. /\ DOMAIN stacks' = DOMAIN stacks
        /\ \A i \in DOMAIN stacks :
             /\ stacks'[i].rank = stacks[i].rank /\ stacks'[i].label = stacks[i].label
             /\ stacks'[i].thread = stacks[i].thread
             /\ i # p => stacks'[i] = stacks[i]
        /\ stacks' # stacks => stacks'[p].root = main
    BY <1>3, <2>2, OtherRoot
  <2> QED
    BY <2>1, <2>3
<1>20. Pairs(rank)' = Pairs(rank)
  <2>1. Labelled(rank)' = Labelled(rank)
    BY <1>1, <1>19 DEF Labelled
  <2>2. \A i, j \in Labelled(rank) : LabelBefore(i, j)' <=> LabelBefore(i, j)
    BY <1>19 DEF LabelBefore, Labelled
  <2> QED
    BY <1>1, <2>1, <2>2 DEF Pairs
<1>21. BwdTids(rank)' = BwdTids(rank) /\ Annots(rank)' = Annots(rank)
  <2>1. \A p \in Pairs(rank) : p[1] \in DOMAIN stacks /\ p[2] \in DOMAIN stacks
    BY <1>5
  <2>2. BwdTids(rank)' = BwdTids(rank)
    BY <1>1, <1>19, <1>20, <2>1 DEF BwdTids
  <2>3. ASSUME NEW p \in Pairs(rank)
        PROVE  BackwardParents(rank, stacks[p[2]].thread)' = BackwardParents(rank, stacks[p[2]].thread)
    <3>1. PICK x : x = stacks[p[2]].thread
      OBVIOUS
    <3>2. stacks'[p[2]].thread = x
      BY <1>19, <2>1, <3>1
    <3> QED
      BY <1>1, <3>1, <3>2 DEF BackwardParents, Named, ThreadRows
  <2>4. Annots(rank)' = Annots(rank)
    <3>1. \A p \in Pairs(rank) : BackwardParents(rank, stacks[p[2]].thread)' = BackwardParents(rank, stacks[p[2]].thread)
      BY <2>3
    <3> QED
      BY <1>1, <1>20, <3>1 DEF Annots
  <2> QED
    BY <2>2, <2>4
<1>22. annotations' = annotations \ {annotation} /\ \A b \in annotations : annotation <= b
  BY <1>2 DEF Linking
<1>23. /\ annotations' \subseteq Annots(rank)'
       /\ Annots(rank)' \ annotations' = A \cup {annotation}
       /\ \A x \in A \cup {annotation}, b \in annotations' : x < b
  <2>1. annotations \subseteq Annots(rank) /\ \A x \in A, b \in annotations : x < b
    BY <1>1 DEF AnnotationsTimed, A
  <2>2. Annots(rank)' \ annotations' = A \cup {annotation}
    BY <1>21, <1>22, <2>1 DEF A
  <2>3. ASSUME NEW b \in annotations' PROVE annotation < b
    <3>1. b \in annotations /\ b # annotation /\ annotation <= b /\ b \in Nat /\ annotation \in Nat
      BY <1>3, <1>22
    <3> QED
      BY <3>1
  <2> QED
    BY <1>21, <1>22, <2>1, <2>2, <2>3
<1>24. MapLinked(trace[rank], nodes[rank], BwdTids(rank), Annots(rank) \ annotations)'
  <2>1. MapLinked(frame, updated, {number}, before \cup {annotation})
    BY <1>9, <1>18
  <2>2. trace'[rank'] = frame /\ nodes'[rank'] = updated /\ BwdTids(rank)' = {number}
        /\ Annots(rank)' \ annotations' = before \cup {annotation}
    BY <1>1, <1>6, <1>13, <1>17, <1>21, <1>23 DEF rows
  <2> QED
    BY <2>1, <2>2
<1>25. AllThere(trace[rank], nodes[rank])'
  <2>1. AllThere(frame, same)
    BY <1>1, <1>13 DEF AnnotationsTimed, rows, map
  <2>2. \A n \in DOMAIN same : n \in Nat => n \in DOMAIN updated
    BY <1>7, <1>13, <1>15 DEF Moved
  <2>3. \A e \in frame : e.index \in Nat
    BY <1>4, <1>13 DEF Rows
  <2>4. AllThere(frame, updated)
    BY <2>1, <2>2, <2>3 DEF AllThere, HostRows, ThreadRows, Links
  <2> QED
    BY <1>1, <1>13, <1>17, <2>4 DEF rows
<1>26. ASSUME annotations' # {}, NEW p \in Pairs(rank)'
       PROVE  stacks'[p[1]].root = RootIndex(stacks'[p[1]].thread)
  <2>1. stacks'[p[1]].root # stacks'[p[2]].root
    BY <1>1, <1>26 DEF RootsApart
  <2>2. p[1] = pair[1] /\ p[2] = pair[2]
    BY <1>5, <1>20
  <2>3. stacks' = stacks
    BY <1>5, <1>19, <2>1, <2>2
  <2>4. annotations # {}
    BY <1>22, <1>26
  <2> QED
    BY <1>1, <1>20, <2>3, <2>4 DEF AnnotationsTimed
<1>27. annotations' # {} => \A p \in Pairs(rank)' : stacks'[p[1]].root = RootIndex(stacks'[p[1]].thread)
  BY <1>26
<1>28. \A x \in Annots(rank)' \ annotations', b \in annotations' : x < b
  BY <1>23
<1> QED
  BY <1>1, <1>23, <1>24, <1>25, <1>27, <1>28 DEF ConnectTimed, AnnotationsTimed

-----------------------------------------------------------------------------
(* What is saved                                                           *)

(* While a rank is constructed its columns are there, one for each row,    *)
(* and for the first graph they hold all numbers.                          *)
UnderWay == pc \in {"thread", "replay", "connect"}
ColumnsReady ==
  /\ graphs \in Nat \ {0} /\ width \in [Ranks -> {8, 16, 64}]
  /\ pc = "ready" => todo = {}
  /\ UnderWay => rank \in DOMAIN columns /\ DOMAIN columns[rank] = {e.index : e \in trace[rank]}
  /\ graphs = 1 => \A r \in Ranks : r \in todo \/ (UnderWay /\ r = rank) => width[r] = 64

(* Before a rank is begun there are no columns.                            *)
LEMMA ColumnsInit == Init => ColumnsReady
  BY DEF Init, ColumnsReady, UnderWay

(* Every step keeps a row of columns for each event.                       *)
LEMMA ColumnsStep == Inv /\ ColumnsReady /\ [Next]_vars => ColumnsReady'
<1> SUFFICES ASSUME Inv, ColumnsReady, [Next]_vars PROVE ColumnsReady'
  OBVIOUS
<1>1. CASE UNCHANGED vars \/ Query
  <2>1. UNCHANGED <<trace, buildVars>>
    BY <1>1 DEF vars, Query, GetGpuKernels, GetNodeAttributes, GetCsgOfNode, GetStackOfNode
  <2> QED
    BY <2>1 DEF buildVars, ColumnsReady, UnderWay
<1>2. CASE StartRank
  <2>1. /\ pc' = "thread" /\ rank' \in todo /\ todo' = todo \ {rank'} /\ UNCHANGED <<trace, width, graphs>>
        /\ columns' = Put(columns, rank', [i \in {e.index : e \in trace[rank']} |-> DefaultColumns])
    BY <1>2 DEF StartRank
  <2> DEFINE default == [i \in {e.index : e \in trace[rank']} |-> DefaultColumns]
  <2>2. DOMAIN default = {e.index : e \in trace[rank']} /\ columns' = Put(columns, rank', default)
    BY <2>1
  <2> HIDE DEF default
  <2>3. rank' \in DOMAIN columns' /\ columns'[rank'] = default
    BY <2>2 DEF Put
  <2> QED
    BY <2>1, <2>2, <2>3 DEF ColumnsReady, UnderWay
<1>3. CASE StartThread \/ OpenEvent \/ CloseEvent \/ LinkKernel \/ FinishThread \/ StartConnect \/ LinkAnnotation
  <2>1. UnderWay /\ pc' # "ready" /\ UNCHANGED <<trace, todo, rank, columns, width, graphs>>
    BY <1>3 DEF UnderWay, StartThread, OpenEvent, CloseEvent, LinkKernel, FinishThread, StartConnect, LinkAnnotation
  <2> QED
    BY <2>1 DEF ColumnsReady, UnderWay
<1>4. CASE SaveStacks
  <2>1. /\ pc = "connect" /\ pc' = (IF todo = {} THEN "ready" ELSE "rank") /\ UNCHANGED <<trace, todo, rank, graphs>>
        /\ \E values : width' = [width EXCEPT ![rank] = Downcast(values)]
    BY <1>4 DEF SaveStacks
  <2>2. PICK bits : bits \in {8, 16, 64} /\ width' = [width EXCEPT ![rank] = bits]
    <3>1. \A values : Downcast(values) \in {8, 16, 64}
      BY DEF Downcast
    <3> QED
      BY <2>1, <3>1
  <2>3. width' \in [Ranks -> {8, 16, 64}] /\ \A r \in Ranks : r # rank => width'[r] = width[r]
    BY <2>2 DEF ColumnsReady
  <2>4. rank \notin todo
    BY <2>1 DEF Inv, RankBegun
  <2> QED
    BY <2>1, <2>3, <2>4 DEF ColumnsReady, UnderWay
<1>5. CASE ConstructAgain
  <2>1. pc' = "rank" /\ graphs' = graphs + 1 /\ UNCHANGED width
    BY <1>5 DEF ConstructAgain
  <2> QED
    BY <2>1 DEF ColumnsReady, UnderWay
<1> QED
  BY <1>1, <1>2, <1>3, <1>4, <1>5 DEF Next, Build

(* The columns of the rank that is saved next hold the numbers of its      *)
(* nodes.                                                                  *)
Fits(x, bits) == bits = 64 \/ x \in -(2 ^ (bits - 1)) .. 2 ^ (bits - 1) - 1
Numbers(map, i) == {map[i].parent, map[i].depth, Heights(map)[i]}
NumbersFit(map, cols, bits) ==
  \A i \in DOMAIN cols \cap DOMAIN map : \A x \in Numbers(map, i) : Fits(x, bits)
WidthsHold ==
  pc = "connect" /\ annotations = {} =>
    NumbersFit(WithDepth(nodes[rank]), columns[rank], width[rank])

(* A type keeps the numbers that it holds. *)
LEMMA CastKeeps ==
  ASSUME NEW x, NEW bits \in {8, 16, 64}, Fits(x, bits)
  PROVE  Cast(x, bits) = x
<1>1. 2 ^ 7 = 128 /\ 2 ^ 8 = 256 /\ 2 ^ 15 = 32768 /\ 2 ^ 16 = 65536
  OBVIOUS
<1>2. CASE bits = 8
  BY <1>1, <1>2 DEF Fits, Cast
<1>3. CASE bits = 16
  BY <1>1, <1>3 DEF Fits, Cast
<1>4. CASE bits = 64
  BY <1>4 DEF Cast
<1> QED
  BY <1>2, <1>3, <1>4

(* The columns of the first graph hold all numbers. *)
LEMMA FirstWidths == Inv /\ ColumnsReady /\ graphs = 1 => WidthsHold
  BY DEF Inv, RankBegun, ColumnsReady, UnderWay, WidthsHold, NumbersFit, Fits

(* The kernel columns of an event, with the rows of its rank. *)
RowOf(rows, index) == CHOOSE e \in rows : e.index = index
KernelsOfRow(rows, saved, n, kernels) ==
  LET t_max == 2 * Max({e.ts : e \in rows})
      first == Min({t_max} \cup {RowOf(rows, k).ts : k \in kernels})
      last == Max({-1} \cup {RowOf(rows, k).end : k \in kernels})
  IN [num |-> Cardinality(kernels),
      sum |-> MapThenSumSet(LAMBDA k : RowOf(rows, k).dur, kernels),
      span |-> IF saved[n].children = {} /\ kernels = {} THEN 0 ELSE last - first,
      first |-> first, last |-> last]

(* The columns of kernels, as a function of the rows.                      *)
LEMMA KernelColumnsAre ==
  ASSUME NEW r, NEW saved, NEW n, NEW kernels
  PROVE  KernelColumns(r, saved, n, kernels) = KernelsOfRow(trace[r], saved, n, kernels)
  BY DEF KernelColumns, KernelsOfRow, Row, RowOf

(* What is saved of an event in columns that hold all numbers. *)
SavedRow(rows, saved, i) ==
  LET k == IF i \in Reached(saved, AllRootIndices(saved)) THEN KernelsOfRow(rows, saved, i, KernelsUnder(saved, i))
           ELSE [num |-> 0, sum |-> 0, span |-> 0, first |-> -1, last |-> -1]
  IN IF k.num > 0
     THEN [parent |-> saved[i].parent, depth |-> saved[i].depth, height |-> Heights(saved)[i],
           num_kernels |-> k.num, kernel_dur_sum |-> k.sum, kernel_span |-> k.span,
           first_kernel_start |-> k.first, last_kernel_end |-> k.last]
     ELSE [DefaultColumns EXCEPT !.parent = saved[i].parent, !.depth = saved[i].depth,
                                 !.height = Heights(saved)[i]]

(* A rank that is saved: the parents are right, for all its events, and    *)
(* the columns are those of the nodes.                                     *)
SavedRank(r) ==
  /\ r \in DOMAIN nodes /\ r \in DOMAIN columns
  /\ MapLinked(trace[r], nodes[r], BwdTids(r), Annots(r))
  /\ AllThere(trace[r], nodes[r])
  /\ \E map : Sound(map) /\ nodes[r] = WithDepth(map)
  /\ DOMAIN columns[r] = {e.index : e \in trace[r]}
  /\ \A i \in DOMAIN columns[r] \cap DOMAIN nodes[r] : columns[r][i] = SavedRow(trace[r], nodes[r], i)

Built(r) == r \in Ranks \ todo /\ (pc \in {"rank", "ready"} \/ r # rank)
SavedTimed == \A r \in Ranks : Built(r) => SavedRank(r)

(* A rank that is saved stays as it is when the others change.             *)
LEMMA SavedKept ==
  ASSUME NEW r, trace' = trace, r \in DOMAIN nodes', r \in DOMAIN columns', nodes'[r] = nodes[r], columns'[r] = columns[r],
         SameStacks(r), SavedRank(r)
  PROVE  SavedRank(r)'
<1>1. BwdTids(r)' = BwdTids(r) /\ Annots(r)' = Annots(r)
  BY SameLabels
<1> QED
  BY <1>1 DEF SavedRank

(* What SaveStacks writes for the row of a node. *)
LEMMA SavedIs ==
  ASSUME NEW r, NEW saved, width[r] \in {8, 16, 64}, NumbersFit(saved, columns[r], width[r]),
         NEW i \in DOMAIN columns[r] \cap DOMAIN saved
  PROVE  Normalized(SavedColumns(r, saved))[i] = SavedRow(trace[r], saved, i)
<1> DEFINE k == IF i \in Reached(saved, AllRootIndices(saved)) THEN KernelsOfRow(trace[r], saved, i, KernelsUnder(saved, i))
                ELSE [num |-> 0, sum |-> 0, span |-> 0, first |-> -1, last |-> -1]
           row == [parent |-> saved[i].parent, depth |-> saved[i].depth, height |-> Heights(saved)[i],
                   num_kernels |-> k.num, kernel_dur_sum |-> k.sum, kernel_span |-> k.span,
                   first_kernel_start |-> k.first, last_kernel_end |-> k.last]
<1>1. \A x \in Numbers(saved, i) : Cast(x, width[r]) = x
  BY CastKeeps DEF NumbersFit
<1>2. SavedColumns(r, saved)[i] = row /\ i \in DOMAIN SavedColumns(r, saved)
  BY <1>1, KernelColumnsAre DEF SavedColumns, Numbers
<1>3. SavedRow(trace[r], saved, i) =
        IF row.num_kernels > 0 THEN row
        ELSE [DefaultColumns EXCEPT !.parent = row.parent, !.depth = row.depth, !.height = row.height]
  BY DEF SavedRow
<1> HIDE DEF row, k
<1> QED
  BY <1>2, <1>3 DEF Normalized

(* Saving the stacks of a rank makes it a saved one, and leaves the others *)
(* alone.                                                                  *)
LEMMA SavedRankThen ==
  ASSUME HostsNested, ThreadsApart
  PROVE  Inv /\ OneStackEach /\ ConnectTimed /\ ColumnsReady /\ WidthsHold /\ SaveStacks
           => /\ SavedRank(rank)' /\ rank' = rank /\ trace' = trace
              /\ stacks' = stacks /\ todo' = todo /\ pc' \in {"rank", "ready"}
              /\ DOMAIN nodes \subseteq DOMAIN nodes'
              /\ \A r : r # rank /\ r \in DOMAIN nodes => nodes'[r] = nodes[r]
              /\ \A r \in DOMAIN columns : r # rank => r \in DOMAIN columns' /\ columns'[r] = columns[r]
<1> SUFFICES ASSUME Inv, OneStackEach, ConnectTimed, ColumnsReady, WidthsHold, SaveStacks
             PROVE  /\ SavedRank(rank)' /\ rank' = rank /\ trace' = trace
                    /\ stacks' = stacks /\ todo' = todo /\ pc' \in {"rank", "ready"}
                    /\ DOMAIN nodes \subseteq DOMAIN nodes'
                    /\ \A r : r # rank /\ r \in DOMAIN nodes => nodes'[r] = nodes[r]
                    /\ \A r \in DOMAIN columns : r # rank => r \in DOMAIN columns' /\ columns'[r] = columns[r]
  OBVIOUS
<1> DEFINE map == nodes[rank]
           saved == WithDepth(nodes[rank])
           with_saved == Put(columns, rank, SavedColumns(rank, saved))
           normalized == Normalized(with_saved[rank])
<1>1. /\ pc = "connect" /\ pc' \in {"rank", "ready"} /\ AnnotationsTimed /\ annotations = {}
      /\ UNCHANGED <<trace, todo, rank, annotations, stacks, graphs>>
      /\ stacks # << >> /\ stacks[Len(stacks)].rank = rank
  BY DEF SaveStacks, ConnectTimed, OneStackEach, LastStack
<1>2. /\ nodes' = Put(nodes, rank, saved)
      /\ columns' = Put(with_saved, rank, normalized)
  BY <1>1 DEF SaveStacks
<1>3. /\ rank \in Ranks /\ rank \in DOMAIN nodes /\ Sound(map) /\ rank \in DOMAIN columns
      /\ DOMAIN columns[rank] = {e.index : e \in trace[rank]} /\ width[rank] \in {8, 16, 64}
  BY <1>1 DEF Inv, RankBegun, NodesSound, ColumnsReady, UnderWay
<1>4. /\ nodes'[rank] = saved /\ DOMAIN nodes' = DOMAIN nodes
      /\ \A r : r # rank /\ r \in DOMAIN nodes => nodes'[r] = nodes[r]
  BY <1>2, <1>3 DEF Put
<1>5. with_saved[rank] = SavedColumns(rank, saved)
  BY DEF Put
<1>6. normalized = Normalized(SavedColumns(rank, saved))
  BY <1>5
<1> HIDE DEF normalized
<1>7. /\ columns'[rank] = normalized /\ rank \in DOMAIN columns'
      /\ \A r \in DOMAIN columns : r # rank => r \in DOMAIN columns' /\ columns'[r] = columns[r]
  BY <1>2 DEF Put
<1> HIDE DEF with_saved
<1>8. /\ DOMAIN saved = DOMAIN map
      /\ \A n \in DOMAIN map : saved[n].parent = map[n].parent /\ saved[n].device = map[n].device
  BY DEF WithDepth, Node
<1>9. MapLinked(trace[rank], saved, BwdTids(rank), Annots(rank))
  <2>1. MapLinked(trace[rank], map, BwdTids(rank), Annots(rank))
    <3>1. Annots(rank) \ annotations = Annots(rank)
      BY <1>1
    <3> QED
      BY <1>1, <3>1 DEF AnnotationsTimed
  <2> HIDE DEF saved, map
  <2>2. \A n \in DOMAIN saved : RightNode(trace[rank], BwdTids(rank), Annots(rank), n, saved[n])
    <3> SUFFICES ASSUME NEW n \in DOMAIN saved
                 PROVE  RightNode(trace[rank], BwdTids(rank), Annots(rank), n, saved[n])
      OBVIOUS
    <3>1. PICK rows, tids, A : rows = trace[rank] /\ tids = BwdTids(rank) /\ A = Annots(rank)
      OBVIOUS
    <3>2. RightNode(rows, tids, A, n, map[n])
      BY <1>8, <2>1, <3>1 DEF MapLinked
    <3>3. RightNode(rows, tids, A, n, saved[n])
      BY <1>8, <3>2, RightKept
    <3> QED
      BY <3>1, <3>3
  <2> QED
    BY <2>2 DEF MapLinked
<1>10. AllThere(trace[rank], saved)
  BY <1>1, <1>8 DEF AnnotationsTimed, AllThere
<1>11. SameStacks(rank)
  BY <1>1 DEF SameStacks, Labelled
<1>12. BwdTids(rank)' = BwdTids(rank) /\ Annots(rank)' = Annots(rank)
  <2>1. Pairs(rank)' = Pairs(rank)
    BY <1>1 DEF Pairs, Labelled, LabelBefore
  <2>2. BwdTids(rank)' = BwdTids(rank)
    BY <1>1, <2>1 DEF BwdTids
  <2>3. \A p \in Pairs(rank) : BackwardParents(rank, stacks[p[2]].thread)' = BackwardParents(rank, stacks[p[2]].thread)
    BY <1>1 DEF BackwardParents, Named, ThreadRows
  <2>4. Annots(rank)' = Annots(rank)
    BY <1>1, <2>1, <2>3 DEF Annots
  <2> QED
    BY <2>2, <2>4
<1>13. DOMAIN normalized = DOMAIN columns[rank]
  BY <1>6 DEF Normalized, SavedColumns
<1>14. \A i \in DOMAIN normalized \cap DOMAIN saved : normalized[i] = SavedRow(trace[rank], saved, i)
  <2> SUFFICES ASSUME NEW i \in DOMAIN normalized \cap DOMAIN saved
               PROVE  normalized[i] = SavedRow(trace[rank], saved, i)
    OBVIOUS
  <2>0. NumbersFit(saved, columns[rank], width[rank])
    BY <1>1 DEF WidthsHold
  <2> HIDE DEF saved
  <2>1. PICK r, s : r = rank /\ s = saved
    OBVIOUS
  <2>2. width[r] \in {8, 16, 64} /\ NumbersFit(s, columns[r], width[r]) /\ i \in DOMAIN columns[r] \cap DOMAIN s
    BY <1>3, <1>13, <2>0, <2>1
  <2>3. Normalized(SavedColumns(r, s))[i] = SavedRow(trace[r], s, i)
    BY <2>2, SavedIs
  <2> QED
    BY <1>6, <2>1, <2>3
<1>15. \E m : Sound(m) /\ saved = WithDepth(m)
  BY <1>3
<1> HIDE DEF saved, map
<1>16. SavedRank(rank)'
  BY <1>1, <1>3, <1>4, <1>7, <1>9, <1>10, <1>12, <1>13, <1>14, <1>15 DEF SavedRank
<1> QED
  BY <1>1, <1>4, <1>7, <1>16

(* Before the first rank nothing is saved.                                 *)
LEMMA SavedInit == Init => SavedTimed
  BY DEF Init, SavedTimed, Built

(* Every step keeps the ranks that are saved.                              *)
LEMMA SavedStep ==
  ASSUME HostsNested, ThreadsApart
  PROVE  Inv /\ OneStackEach /\ ConnectTimed /\ ColumnsReady /\ WidthsHold /\ SavedTimed /\ [Next]_vars => SavedTimed'
<1> SUFFICES ASSUME Inv, OneStackEach, ConnectTimed, ColumnsReady, WidthsHold, SavedTimed, [Next]_vars,
                    NEW r \in Ranks, Built(r)'
             PROVE  SavedRank(r)'
  BY DEF SavedTimed
<1>1. r \notin todo' /\ (pc' \in {"rank", "ready"} \/ r # rank')
  BY DEF Built
<1>2. ASSUME Built(r), trace' = trace, SameStacks(r),
             r \in DOMAIN nodes => r \in DOMAIN nodes' /\ nodes'[r] = nodes[r],
             r \in DOMAIN columns => r \in DOMAIN columns' /\ columns'[r] = columns[r]
      PROVE  SavedRank(r)'
  <2>1. SavedRank(r) /\ r \in DOMAIN nodes /\ r \in DOMAIN columns
    BY <1>2 DEF SavedTimed, SavedRank
  <2> QED
    BY <1>2, <2>1, SavedKept
<1>3. stacks' = stacks => SameStacks(r)
  BY DEF SameStacks, Labelled
<1>4. CASE UNCHANGED vars \/ Query
  <2>1. UNCHANGED <<trace, buildVars>>
    BY <1>4 DEF vars, Query, GetGpuKernels, GetNodeAttributes, GetCsgOfNode, GetStackOfNode
  <2>2. UNCHANGED <<trace, pc, todo, rank, nodes, stacks, columns, graphs>>
    BY <2>1 DEF buildVars, threadVars
  <2>3. Built(r)
    BY <1>1, <2>2 DEF Built
  <2> QED
    BY <1>2, <1>3, <2>2, <2>3
<1>5. CASE StartRank
  <2>1. /\ pc = "rank" /\ pc' = "thread" /\ todo' = todo \ {rank'} /\ UNCHANGED <<trace, stacks, graphs>>
        /\ nodes' = Put(nodes, rank', [n \in {} |-> {}])
        /\ columns' = Put(columns, rank', [i \in {e.index : e \in trace[rank']} |-> DefaultColumns])
    BY <1>5 DEF StartRank
  <2>2. Built(r) /\ r # rank'
    BY <1>1, <2>1 DEF Built
  <2>3. nodes' = Put(nodes, rank', [n \in {} |-> {}]) => (r \in DOMAIN nodes => r \in DOMAIN nodes' /\ nodes'[r] = nodes[r])
    BY <2>2 DEF Put
  <2>4. PICK default : columns' = Put(columns, rank', default)
    BY <2>1
  <2>5. r \in DOMAIN columns => r \in DOMAIN columns' /\ columns'[r] = columns[r]
    BY <2>2, <2>4 DEF Put
  <2> QED
    BY <1>2, <1>3, <2>1, <2>2, <2>3, <2>5
<1>6. CASE StartThread \/ OpenEvent \/ CloseEvent \/ LinkKernel \/ FinishThread \/ StartConnect
  <2>1. /\ pc \in {"thread", "replay"} /\ pc' \in {"thread", "replay", "raised", "connect"}
        /\ UNCHANGED <<trace, todo, rank, columns, graphs>>
        /\ nodes' = nodes \/ \E N : nodes' = Put(nodes, rank, N)
    BY <1>6 DEF StartThread, OpenEvent, CloseEvent, LinkKernel, FinishThread, StartConnect, threadVars
  <2>2. Built(r) /\ r # rank
    BY <1>1, <2>1 DEF Built
  <2>3. r \in DOMAIN nodes => r \in DOMAIN nodes' /\ nodes'[r] = nodes[r]
    BY <2>1, <2>2 DEF Put
  <2>4. SameStacks(r)
    <3>1. CASE stacks' = stacks
      BY <1>3, <3>1
    <3>2. CASE FinishThread
      <4> DEFINE new == [rank |-> rank, thread |-> thread, root |-> RootIndex(thread),
                         label |-> Label(trace[rank], thread)]
      <4>1. stacks' = Append(stacks, new) /\ stacks \in Seq(Range(stacks)) /\ new.rank = rank
        BY <3>2 DEF FinishThread, Inv, StackRoots
      <4> HIDE DEF new
      <4>2. /\ DOMAIN stacks = 1 .. Len(stacks) /\ DOMAIN stacks' = 1 .. (Len(stacks) + 1) /\ Len(stacks) \in Nat
            /\ \A i \in DOMAIN stacks : stacks'[i] = stacks[i]
            /\ stacks'[Len(stacks) + 1] = new
        BY <4>1
      <4>3. \A i \in DOMAIN stacks' : i \in DOMAIN stacks \/ i = Len(stacks) + 1
        BY <4>2
      <4>4. DOMAIN stacks \subseteq DOMAIN stacks'
        BY <4>2
      <4> QED
        BY <2>2, <4>1, <4>2, <4>3, <4>4 DEF SameStacks, Labelled
    <3> QED
      BY <1>6, <3>1, <3>2 DEF StartThread, OpenEvent, CloseEvent, LinkKernel, StartConnect
  <2> QED
    BY <1>2, <2>1, <2>2, <2>3, <2>4
<1>7. CASE LinkAnnotation
  <2>1. /\ pc = "connect" /\ pc' \in {"connect", "raised", "hung"}
        /\ UNCHANGED <<trace, todo, rank, columns, graphs>>
        /\ nodes' = nodes \/ \E N : nodes' = Put(nodes, rank, N)
    BY <1>7 DEF LinkAnnotation
  <2>2. Built(r) /\ r # rank
    BY <1>1, <2>1 DEF Built
  <2>3. r \in DOMAIN nodes => r \in DOMAIN nodes' /\ nodes'[r] = nodes[r]
    BY <2>1, <2>2 DEF Put
  <2>4. SameStacks(r)
    <3>1. PICK pair \in Pairs(rank) : stacks' = stacks \/ \E root : stacks' = [stacks EXCEPT ![pair[1]].root = root]
      BY <1>7 DEF LinkAnnotation
    <3>2. PICK p, root : p = pair[1] /\ (stacks' = stacks \/ stacks' = [stacks EXCEPT ![p].root = root])
      BY <3>1
    <3>3. p \in DOMAIN stacks /\ stacks \in Seq(Range(stacks))
      BY <3>2 DEF Pairs, Labelled, Inv, StackRoots
    <3>4. /\ DOMAIN stacks' = DOMAIN stacks
          /\ \A i \in DOMAIN stacks : /\ stacks'[i].rank = stacks[i].rank /\ stacks'[i].label = stacks[i].label
                                      /\ stacks'[i].thread = stacks[i].thread
      BY <3>2, <3>3, OtherRoot
    <3> QED
      BY <3>4 DEF SameStacks, Labelled
  <2> QED
    BY <1>2, <2>1, <2>2, <2>3, <2>4
<1>8. CASE SaveStacks
  <2>2. /\ SavedRank(rank)' /\ rank' = rank /\ trace' = trace /\ stacks' = stacks /\ todo' = todo
        /\ DOMAIN nodes \subseteq DOMAIN nodes'
        /\ \A s : s # rank /\ s \in DOMAIN nodes => nodes'[s] = nodes[s]
        /\ \A s \in DOMAIN columns : s # rank => s \in DOMAIN columns' /\ columns'[s] = columns[s]
    BY <1>8, SavedRankThen
  <2>3. CASE r = rank
    <3>1. PICK s : s = rank
      OBVIOUS
    <3>2. SavedRank(s)'
      BY <2>2, <3>1 DEF SavedRank, MapLinked, BwdTids, Annots
    <3> QED
      BY <2>3, <3>1, <3>2
  <2>4. CASE r # rank
    <3>1. Built(r)
      BY <1>1, <2>2, <2>4 DEF Built
    <3> QED
      BY <1>2, <1>3, <2>2, <2>4, <3>1
  <2> QED
    BY <2>3, <2>4
<1>9. CASE ConstructAgain
  <2>1. todo' = Ranks
    BY <1>9 DEF ConstructAgain
  <2> QED
    BY <1>1, <2>1
<1> QED
  BY <1>4, <1>5, <1>6, <1>7, <1>8, <1>9 DEF Next, Build

-----------------------------------------------------------------------------
(* The parents                                                             *)

(* The stacks to connect are of two threads, and the annotations are rows  *)
(* of the host of the main one.                                            *)
PairOf(r) ==
  /\ \A p, q \in Pairs(r) : p[1] = q[1] /\ p[2] = q[2]
  /\ \A p \in Pairs(r) : stacks[p[1]].thread.tid # stacks[p[2]].thread.tid
  /\ \A a \in Annots(r) : \E p \in Pairs(r) :
       \E e \in HostRows(trace[r], stacks[p[2]].thread) : e.index = a

(* A rank has at most one pair of stacks to connect.                       *)
LEMMA PairsAreOne ==
  ASSUME AnnotationsOnHost, HostsNested, ThreadsApart, NEW r \in Ranks, Inv, OneStackEach
  PROVE  Rows(trace[r]) /\ PairOf(r)
<1>1. trace \in Traces /\ stacks \in Seq(Range(stacks))
  BY DEF Inv, RankBegun, StackRoots
<1>2. Rows(trace[r])
  BY <1>1, RowsOfRank
<1>3. \A p, q \in Pairs(r) : p[1] = q[1] /\ p[2] = q[2] /\ p[1] # p[2]
  BY <1>1, OnePair
<1>4. \A i \in DOMAIN stacks : stacks[i].thread \in Threads(trace[stacks[i].rank])
  BY DEF OneStackEach, StackThreads
<1>5. ASSUME NEW p \in Pairs(r) PROVE stacks[p[1]].thread.tid # stacks[p[2]].thread.tid
  <2>1. /\ p[1] \in DOMAIN stacks /\ p[2] \in DOMAIN stacks
        /\ stacks[p[1]].rank = r /\ stacks[p[2]].rank = r /\ p[1] # p[2]
    BY <1>3 DEF Pairs, Labelled
  <2>2. /\ stacks[p[1]].thread # stacks[p[2]].thread
        /\ stacks[p[1]].thread \in Threads(trace[r]) /\ stacks[p[2]].thread \in Threads(trace[r])
    BY <1>4, <2>1 DEF OneStackEach, StackThreads
  <2> QED
    BY <1>2, <2>2 DEF Rows
<1>6. \A a \in Annots(r) : \E p \in Pairs(r) :
        \E e \in HostRows(trace[r], stacks[p[2]].thread) : e.index = a
  BY <1>1, <1>4, AnnotsRows
<1> QED
  BY <1>2, <1>3, <1>5, <1>6 DEF PairOf

(* The first of the rows that hold an event. *)
LEMMA FirstThere ==
  ASSUME NEW rows, Rows(rows), NEW A, NEW e, Holders(rows, A, e) # {}
  PROVE  \E a \in Holders(rows, A, e) : FirstOf(Holders(rows, A, e)) = {a}
<1> DEFINE S == Holders(rows, A, e)
           T == {a.index : a \in S}
<1>1. S \subseteq rows /\ S # {}
  BY DEF Holders
<1>2. T \subseteq Nat /\ T # {}
  BY <1>1 DEF Rows
<1>3. \E t \in T : \A u \in T : t <= u
  <2> HIDE DEF T
  <2> QED
    BY <1>2, Least
<1>4. PICK a \in S : \A b \in S : a.index <= b.index
  BY <1>3
<1>5. ASSUME NEW b \in FirstOf(S) PROVE b = a
  <2>1. b \in S /\ b.index <= a.index /\ a.index <= b.index /\ a.index \in Nat /\ b.index \in Nat
    BY <1>1, <1>4, <1>5 DEF FirstOf, Rows
  <2> QED
    BY <1>1, <2>1 DEF Rows, Events
<1>6. a \in FirstOf(S)
  BY <1>4 DEF FirstOf
<1> QED
  BY <1>4, <1>5, <1>6

(* The annotations of an event in terms of the outermost around it. *)
LEMMA AnnotationsAre ==
  ASSUME NEW r, Rows(trace[r]), PairOf(r), NEW e \in trace[r], NEW f, Outer(trace[r], e, f)
  PROVE  AnnotationsOf(r, e) =
           IF e.tid \in BwdTids(r) THEN FirstOf(Holders(trace[r], Annots(r), f)) ELSE {}
<1> DEFINE outermost == CHOOSE x \in Enclosing(r, e) \cup {e} : Enclosing(r, x) = {}
           holding(pair) ==
             {a \in trace[r] : /\ a.index \in BackwardParents(r, stacks[pair[2]].thread)
                               /\ a.ts <= outermost.ts /\ outermost.end <= a.end}
           H == Holders(trace[r], Annots(r), f)
<1>1. \A x : Enclosing(r, x) = Around(trace[r], x)
  BY DEF Enclosing, Around
<1>2. outermost = f
  <2>1. f \in Enclosing(r, e) \cup {e} /\ Enclosing(r, f) = {}
    BY <1>1 DEF Outer
  <2>2. outermost \in Enclosing(r, e) \cup {e} /\ Enclosing(r, outermost) = {}
    BY <2>1
  <2>3. PICK g : g = outermost
    OBVIOUS
  <2>4. Outer(trace[r], e, g)
    BY <1>1, <2>2, <2>3 DEF Outer
  <2>5. PICK rows : rows = trace[r]
    OBVIOUS
  <2>6. g = f
    BY <2>4, <2>5, OneOuter
  <2> QED
    BY <2>3, <2>6
<1>3. AnnotationsOf(r, e) =
        {a \in UNION {holding(pair) : pair \in {p \in Pairs(r) : stacks[p[1]].thread.tid = e.tid}} :
           \A pair \in Pairs(r) : \A b \in holding(pair) : a.index <= b.index}
  BY DEF AnnotationsOf
<1>4. ASSUME NEW p \in Pairs(r) PROVE holding(p) = H
  <2>1. Annots(r) = BackwardParents(r, stacks[p[2]].thread)
    BY DEF Annots, PairOf
  <2> QED
    BY <1>2, <2>1 DEF Holders
<1> HIDE DEF holding, H
<1>5. CASE e.tid \in BwdTids(r)
  <2>1. PICK p \in Pairs(r) : stacks[p[1]].thread.tid = e.tid
    BY <1>5 DEF BwdTids
  <2>2. UNION {holding(pair) : pair \in {q \in Pairs(r) : stacks[q[1]].thread.tid = e.tid}} = H
    BY <1>4, <2>1
  <2>3. AnnotationsOf(r, e) = {a \in H : \A b \in H : a.index <= b.index}
    BY <1>3, <1>4, <2>1, <2>2
  <2> QED
    BY <1>5, <2>3 DEF FirstOf, H
<1>6. CASE e.tid \notin BwdTids(r)
  <2>1. {p \in Pairs(r) : stacks[p[1]].thread.tid = e.tid} = {}
    BY <1>6 DEF BwdTids
  <2> QED
    BY <1>3, <1>6, <2>1
<1> QED
  BY <1>5, <1>6

(* The parent that the clock gives an event.  What is above it is of the   *)
(* host, and not above what is above.                                      *)
ParentTimed(r, e, parent) ==
  IF Above(r, e) = {} THEN parent = -e.tid
  ELSE \E q \in Above(r, e) : q.index = parent /\ Above(r, e) = Above(r, q) \cup {q}

(* On the main thread there is nothing but what is around.                 *)
LEMMA AnnotationsAbove ==
  ASSUME NEW r, Rows(trace[r]), PairOf(r), NEW a \in trace[r], a.index \in Annots(r)
  PROVE  /\ a.stream = -1 /\ a.tid \notin BwdTids(r) /\ AnnotationsOf(r, a) = {}
         /\ Above(r, a) = Around(trace[r], a)
<1>1. PICK p \in Pairs(r) : \E x \in HostRows(trace[r], stacks[p[2]].thread) : x.index = a.index
  BY DEF PairOf
<1> PICK e \in HostRows(trace[r], stacks[p[2]].thread) : e.index = a.index
  BY <1>1
<1>2. e = a /\ a.stream = -1 /\ a.tid = stacks[p[2]].thread.tid
  BY DEF HostRows, ThreadRows, Rows, Events
<1>3. \A q \in Pairs(r) : q[1] = p[1] /\ q[2] = p[2]
  BY DEF PairOf
<1>4. a.tid \notin BwdTids(r)
  BY <1>2, <1>3 DEF PairOf, BwdTids
<1>5. PICK rows : rows = trace[r]
  OBVIOUS
<1>6. PICK f : Outer(rows, a, f)
  BY <1>5, OuterExists
<1>7. AnnotationsOf(r, a) = {}
  BY <1>4, <1>5, <1>6, AnnotationsAre
<1>8. Above(r, a) = Around(trace[r], a)
  BY <1>7 DEF Above, Enclosing, Around
<1> QED
  BY <1>2, <1>4, <1>7, <1>8

(* The parent after linking is the one that the property describes.        *)
LEMMA ParentIs ==
  ASSUME NEW r, Rows(trace[r]), PairOf(r), NEW e \in trace[r], NEW parent,
         LinkedTo(trace[r], BwdTids(r), Annots(r), e, parent)
  PROVE  ParentTimed(r, e, parent)
<1> DEFINE tids == BwdTids(r)
           A == Annots(r)
           of == AnnotationsOf(r, e)
<1>1. PICK rows : rows = trace[r]
  OBVIOUS
<1>2. PICK f : Outer(rows, e, f)
  BY <1>1, OuterExists
<1>3. of = IF e.tid \in tids THEN FirstOf(Holders(rows, A, f)) ELSE {}
  BY <1>1, <1>2, AnnotationsAre
<1>4. Above(r, e) = Around(rows, e) \cup of \cup UNION {Around(rows, a) : a \in of}
  BY <1>1 DEF Above, Enclosing, Around
<1>5. CASE Around(rows, e) = {}
  <2>1. f = e
    BY <1>2, <1>5 DEF Outer
  <2>2. CASE e.tid \in tids /\ Holders(rows, A, e) # {}
    <3>1. PICK a \in Holders(rows, A, e) : FirstOf(Holders(rows, A, e)) = {a}
      BY <1>1, <2>2, FirstThere
    <3>2. of = {a} /\ parent = a.index
      BY <1>1, <1>3, <1>5, <2>1, <2>2, <3>1 DEF LinkedTo
    <3>3. a \in trace[r] /\ a.index \in Annots(r)
      BY <1>1, <3>1 DEF Holders
    <3>4. Above(r, a) = Around(rows, a)
      BY <1>1, <3>3, AnnotationsAbove
    <3>5. Above(r, e) = Above(r, a) \cup {a}
      BY <1>4, <1>5, <3>2, <3>4
    <3> QED
      BY <3>2, <3>5 DEF ParentTimed
  <2>3. CASE ~(e.tid \in tids /\ Holders(rows, A, e) # {})
    <3>1. of = {}
      BY <1>3, <2>1, <2>3 DEF FirstOf
    <3>2. parent = -e.tid
      BY <1>1, <1>5, <2>3 DEF LinkedTo, ByOwn
    <3> QED
      BY <1>4, <1>5, <3>1, <3>2 DEF ParentTimed
  <2> QED
    BY <2>2, <2>3
<1>6. CASE Around(rows, e) # {}
  <2>1. PICK q \in Around(rows, e) : q.index = parent /\ Around(rows, e) = Around(rows, q) \cup {q}
    BY <1>1, <1>6 DEF LinkedTo, ByOwn
  <2>2. q \in rows /\ q.tid = e.tid
    BY <2>1 DEF Around, Encloses
  <2>3. Outer(rows, q, f)
    BY <1>2, <1>6, <2>1 DEF Outer
  <2>4. AnnotationsOf(r, q) = of
    BY <1>1, <1>3, <2>2, <2>3, AnnotationsAre
  <2>5. Above(r, q) = Around(rows, q) \cup of \cup UNION {Around(rows, a) : a \in of}
    BY <1>1, <2>4 DEF Above, Enclosing, Around
  <2>6. Above(r, e) = Above(r, q) \cup {q}
    BY <1>4, <2>1, <2>5
  <2> QED
    BY <2>1, <2>6 DEF ParentTimed
<1> QED
  BY <1>5, <1>6

(* The nodes of a rank that is saved. *)
NodesTimed(r) ==
  /\ \A e \in Host(r) :
       /\ e.index \in DOMAIN nodes[r] /\ nodes[r][e.index].device = "CPU"
       /\ ParentTimed(r, e, nodes[r][e.index].parent)
       /\ \A k \in Launched(r, e) :
            /\ k.index \in DOMAIN nodes[r] /\ nodes[r][k.index].device = "GPU"
            /\ nodes[r][k.index].parent = e.index
  /\ \A n \in DOMAIN nodes[r] :
       \/ n < 0 /\ nodes[r][n].device = "CPU" /\ \E th \in Threads(trace[r]) : n = -th.tid
       \/ \E e \in Host(r) : n = e.index \/ \E k \in Launched(r, e) : n = k.index

(* Nodes that are linked as they should have the parents that the clock    *)
(* gives.                                                                  *)
LEMMA RankTimed ==
  ASSUME NEW r, Rows(trace[r]), PairOf(r), Sound(nodes[r]),
         MapLinked(trace[r], nodes[r], BwdTids(r), Annots(r)), AllThere(trace[r], nodes[r])
  PROVE  NodesTimed(r)
<1> DEFINE rows == trace[r]
           map == nodes[r]
<1>1. MapLinked(rows, map, BwdTids(r), Annots(r)) /\ AllThere(rows, map) /\ Rows(rows)
  OBVIOUS
<1>2. \A d, e \in rows : d.index = e.index => d = e
  BY DEF Rows, Events
<1>3. ASSUME NEW e \in Host(r)
      PROVE  /\ e.index \in DOMAIN map /\ map[e.index].device = "CPU"
             /\ ParentTimed(r, e, map[e.index].parent)
  <2>1. e \in rows /\ e.stream = -1 /\ e.index \in Nat
    BY DEF Host, Rows
  <2>2. Home(e) \in Threads(rows) /\ e \in HostRows(rows, Home(e))
    BY <2>1, HomeOf
  <2>3. e.index \in DOMAIN map
    BY <1>1, <2>2 DEF AllThere
  <2>4. PICK d \in rows : /\ d.index = e.index
                          /\ HostNode(rows, BwdTids(r), Annots(r), d, map[e.index]) \/ KernelNode(d, map[e.index])
    BY <1>1, <2>1, <2>3 DEF MapLinked, RightNode
  <2>5. HostNode(rows, BwdTids(r), Annots(r), e, map[e.index])
    BY <1>2, <2>1, <2>4 DEF KernelNode
  <2>6. PICK parent : parent = map[e.index].parent
    OBVIOUS
  <2>7. LinkedTo(trace[r], BwdTids(r), Annots(r), e, parent)
    BY <2>5, <2>6 DEF HostNode
  <2>8. ParentTimed(r, e, parent)
    BY <2>1, <2>7, ParentIs
  <2> QED
    BY <2>3, <2>5, <2>6, <2>8 DEF HostNode
<1>4. ASSUME NEW e \in Host(r), NEW k \in Launched(r, e)
      PROVE  /\ k.index \in DOMAIN map /\ map[k.index].device = "GPU" /\ map[k.index].parent = e.index
  <2>1. /\ e \in rows /\ e.stream = -1 /\ k \in rows /\ k.stream > 0 /\ k.index_correlation = e.index
        /\ k.index_correlation > 0 /\ k.index \in Nat
    BY DEF Host, Launched, Rows
  <2>2. Home(e) \in Threads(rows) /\ e \in HostRows(rows, Home(e))
    BY <2>1, HomeOf
  <2>3. [cpu |-> k.index_correlation, gpu |-> k.index] \in Links(rows, Home(e))
    BY <2>1, <2>2 DEF Links, HostRows
  <2>4. k.index \in DOMAIN map
    BY <1>1, <2>2, <2>3 DEF AllThere
  <2>5. PICK d \in rows : /\ d.index = k.index
                          /\ HostNode(rows, BwdTids(r), Annots(r), d, map[k.index]) \/ KernelNode(d, map[k.index])
    BY <1>1, <2>1, <2>4 DEF MapLinked, RightNode
  <2>6. KernelNode(k, map[k.index])
    BY <1>2, <2>1, <2>5 DEF HostNode
  <2> QED
    BY <2>1, <2>4, <2>6 DEF KernelNode
<1>5. ASSUME NEW n \in DOMAIN map
      PROVE  \/ n < 0 /\ map[n].device = "CPU" /\ \E th \in Threads(trace[r]) : n = -th.tid
             \/ \E e \in Host(r) : n = e.index \/ \E k \in Launched(r, e) : n = k.index
  <2>1. RightNode(rows, BwdTids(r), Annots(r), n, map[n]) /\ n \in Int
    BY <1>1 DEF MapLinked, Sound, NodeMap
  <2>2. CASE n < 0
    <3>1. map[n].device = "CPU" /\ \E th \in Threads(rows) : n = RootIndex(th)
      BY <2>1, <2>2 DEF RightNode
    <3> QED
      BY <2>2, <3>1 DEF RootIndex
  <2>3. CASE n >= 0
    <3>1. PICK e \in rows : /\ e.index = n
                            /\ HostNode(rows, BwdTids(r), Annots(r), e, map[n]) \/ KernelNode(e, map[n])
      BY <2>1, <2>3 DEF RightNode
    <3>2. CASE HostNode(rows, BwdTids(r), Annots(r), e, map[n])
      BY <3>1, <3>2 DEF HostNode, Host
    <3>3. CASE KernelNode(e, map[n])
      <4> DEFINE c == map[n].parent
      <4>1. e.stream > 0 /\ e.index_correlation = c /\ c > 0
        BY <3>3 DEF KernelNode
      <4>2. c \in DOMAIN map /\ c \in Int
        BY <2>3 DEF Sound, Agree, NodeMap
      <4>3. PICK d \in rows : d.index = c
        BY <1>1, <4>1, <4>2 DEF MapLinked, RightNode
      <4>4. d.stream = -1
        BY <1>1, <3>1, <4>1, <4>3 DEF Rows
      <4> QED
        BY <3>1, <4>1, <4>3, <4>4 DEF Host, Launched
    <3> QED
      BY <3>1, <3>2, <3>3
  <2> QED
    BY <2>1, <2>2, <2>3
<1> QED
  BY <1>3, <1>4, <1>5 DEF NodesTimed

(* The third invariant: the parents agree with the clock. *)
TimeInv == OneStackEach /\ ReplayRight /\ ConnectTimed /\ ColumnsReady /\ SavedTimed

(* The third invariant holds initially.                                    *)
LEMMA TimeInit == Init => TimeInv
  BY OneStackInit, ColumnsInit, SavedInit DEF Init, TimeInv, ReplayRight, ThreadsTimed, ReplayTimed, ConnectTimed

(* Every step keeps the parents right while stacks are connected.          *)
LEMMA ConnectStep ==
  ASSUME AnnotationsOnHost, HostsNested, ThreadsApart
  PROVE  Inv /\ PathsInv /\ RootsApart /\ RootsApart' /\ TimeInv /\ [Next]_vars => ConnectTimed'
<1> SUFFICES ASSUME Inv, PathsInv, RootsApart, RootsApart', TimeInv, [Next]_vars PROVE ConnectTimed'
  OBVIOUS
<1>1. CASE UNCHANGED vars \/ Query
  <2>1. UNCHANGED <<trace, buildVars>>
    BY <1>1 DEF vars, Query, GetGpuKernels, GetNodeAttributes, GetCsgOfNode, GetStackOfNode
  <2>2. UNCHANGED <<trace, pc, rank, annotations, nodes, stacks>>
    BY <2>1 DEF buildVars, threadVars
  <2>3. Pairs(rank)' = Pairs(rank)
    BY <2>2 DEF Pairs, Labelled, LabelBefore
  <2>4. BwdTids(rank)' = BwdTids(rank)
    BY <2>2, <2>3 DEF BwdTids
  <2>5. \A p \in Pairs(rank) : BackwardParents(rank, stacks[p[2]].thread)' = BackwardParents(rank, stacks[p[2]].thread)
    BY <2>2 DEF BackwardParents, Named, ThreadRows
  <2>6. Annots(rank)' = Annots(rank)
    BY <2>2, <2>3, <2>5 DEF Annots
  <2> QED
    BY <2>2, <2>3, <2>4, <2>6 DEF TimeInv, ConnectTimed, AnnotationsTimed
<1>2. CASE StartRank \/ StartThread \/ OpenEvent \/ CloseEvent \/ LinkKernel \/ FinishThread \/ SaveStacks \/ ConstructAgain
  <2>1. pc' # "connect"
    BY <1>2 DEF StartRank, StartThread, OpenEvent, CloseEvent, LinkKernel, FinishThread, SaveStacks, ConstructAgain
  <2> QED
    BY <2>1 DEF ConnectTimed
<1>3. CASE StartConnect
  BY <1>3, ConnectStart DEF TimeInv
<1>4. CASE LinkAnnotation
  BY <1>4, ConnectLink DEF TimeInv
<1> QED
  BY <1>1, <1>2, <1>3, <1>4 DEF Next, Build

(* Every step keeps the third invariant.                                   *)
LEMMA TimeStep ==
  ASSUME AnnotationsOnHost, HostsNested, ThreadsApart, SortSorts
  PROVE  Inv /\ PathsInv /\ RootsApart /\ RootsApart' /\ WidthsHold /\ TimeInv /\ [Next]_vars => TimeInv'
  BY OneStackStep, ReplayStep, ConnectStep, ColumnsStep, SavedStep DEF TimeInv

(* The third invariant holds as long as roots are apart and the columns    *)
(* hold what is saved.                                                     *)
LEMMA Timed ==
  ASSUME AnnotationsOnHost, HostsNested, ThreadsApart, SortSorts
  PROVE  Spec /\ []RootsApart /\ []WidthsHold => []TimeInv
  BY Invariance, Paths, TimeInit, TimeStep, PTL DEF Spec

(* Columns are there in every graph of a trace.                            *)
LEMMA Columns == Spec => []ColumnsReady
  BY Invariance, ColumnsInit, ColumnsStep, PTL DEF Spec

(* What a step of the first graph leads to, what came before belongs to    *)
(* that graph too.                                                         *)
LEMMA FirstBefore == ColumnsReady /\ [Next]_vars /\ graphs' = 1 => graphs = 1
<1> SUFFICES ASSUME ColumnsReady, [Next]_vars, graphs' = 1 PROVE graphs = 1
  OBVIOUS
<1>1. graphs' = graphs \/ graphs' = graphs + 1
  BY DEF Next, Build, Query, StartRank, StartThread, OpenEvent, CloseEvent, LinkKernel, FinishThread,
         StartConnect, LinkAnnotation, SaveStacks, ConstructAgain, GetGpuKernels, GetNodeAttributes,
         GetCsgOfNode, GetStackOfNode, buildVars, vars
<1> QED
  BY <1>1 DEF ColumnsReady

(* In the first graph the third invariant needs nothing of the widths.     *)
LEMMA TimedFirst ==
  ASSUME AnnotationsOnHost, HostsNested, ThreadsApart, SortSorts
  PROVE  Spec /\ []RootsApart => [](graphs = 1 => TimeInv)
<1> DEFINE First == graphs = 1 => TimeInv
<1>1. Init => First
  BY TimeInit
<1>2. Inv /\ PathsInv /\ RootsApart /\ RootsApart' /\ ColumnsReady /\ First /\ [Next]_vars => First'
  BY FirstBefore, FirstWidths, TimeStep
<1> QED
  BY Invariance, Paths, Columns, <1>1, <1>2, PTL DEF Spec

(* What a rank is when the constructor returned. *)
LEMMA FinishedRank ==
  ASSUME AnnotationsOnHost, HostsNested, ThreadsApart, NEW r \in Ranks,
         Inv, TimeInv, pc = "ready"
  PROVE  /\ Rows(trace[r]) /\ PairOf(r) /\ SavedRank(r) /\ Sound(nodes[r]) /\ NodesTimed(r)
         /\ \A e \in trace[r] : e.index \in DOMAIN nodes[r] =>
              columns[r][e.index] = SavedRow(trace[r], nodes[r], e.index)
<1>1. Rows(trace[r]) /\ PairOf(r)
  BY PairsAreOne DEF TimeInv
<1>2. SavedRank(r)
  BY DEF TimeInv, ColumnsReady, SavedTimed, Built
<1>3. Sound(nodes[r])
  BY <1>2 DEF Inv, NodesSound, SavedRank
<1>4. NodesTimed(r)
  BY <1>1, <1>2, <1>3, RankTimed DEF SavedRank
<1> QED
  BY <1>1, <1>2, <1>3, <1>4 DEF SavedRank

(* The first columns of a saved row are those of its node.                 *)
LEMMA SavedParent ==
  ASSUME NEW rows, NEW saved, NEW i
  PROVE  /\ SavedRow(rows, saved, i).parent = saved[i].parent
         /\ SavedRow(rows, saved, i).depth = saved[i].depth
         /\ SavedRow(rows, saved, i).height = Heights(saved)[i]
<1> DEFINE k == IF i \in Reached(saved, AllRootIndices(saved)) THEN KernelsOfRow(rows, saved, i, KernelsUnder(saved, i))
                ELSE [num |-> 0, sum |-> 0, span |-> 0, first |-> -1, last |-> -1]
<1>1. SavedRow(rows, saved, i) =
        IF k.num > 0
        THEN [parent |-> saved[i].parent, depth |-> saved[i].depth, height |-> Heights(saved)[i],
              num_kernels |-> k.num, kernel_dur_sum |-> k.sum, kernel_span |-> k.span,
              first_kernel_start |-> k.first, last_kernel_end |-> k.last]
        ELSE [DefaultColumns EXCEPT !.parent = saved[i].parent, !.depth = saved[i].depth,
                                    !.height = Heights(saved)[i]]
  BY DEF SavedRow
<1> HIDE DEF k
<1> QED
  BY <1>1 DEF DefaultColumns

(* The invariant gives the property of the parents.                        *)
LEMMA ParentsAreTimed ==
  ASSUME AnnotationsOnHost, HostsNested, ThreadsApart
  PROVE  Inv /\ TimeInv => ParentsByTime
<1> SUFFICES ASSUME Inv, TimeInv, pc = "ready", NEW r \in Ranks, NEW e \in Host(r)
             PROVE  /\ ParentTimed(r, e, columns[r][e.index].parent)
                    /\ \A k \in Launched(r, e) : columns[r][k.index].parent = e.index
  BY DEF ParentsByTime, ParentTimed, Finished
<1>1. /\ NodesTimed(r)
      /\ \A x \in trace[r] : x.index \in DOMAIN nodes[r] =>
           columns[r][x.index] = SavedRow(trace[r], nodes[r], x.index)
  BY FinishedRank
<1>2. \A x \in trace[r] : x.index \in DOMAIN nodes[r] =>
        columns[r][x.index].parent = nodes[r][x.index].parent
  BY <1>1, SavedParent
<1> QED
  BY <1>1, <1>2 DEF NodesTimed, Host, Launched

(* For the first graph of a trace the parent of an event is what the clock *)
(* gives: the innermost event around it on its thread, or the annotation   *)
(* of the main thread that holds it, or the root; that of a kernel is its  *)
(* launch.  So the replay of the sorted ends (trace_call_stack.py:346-384) *)
(* and the linking of the backward thread (431-462) agree with the times.  *)
THEOREM ParentsFollowTime ==
  ASSUME AnnotationsOnHost, HostsNested, ThreadsApart, SortSorts
  PROVE  Spec /\ []RootsApart => [](graphs = 1 => ParentsByTime)
  BY Invariance, TimedFirst, ParentsAreTimed, PTL

-----------------------------------------------------------------------------
(* Levels and distances                                                    *)

(* The levels of a traversal are a function on the distances. *)
LEMMA LevelSteps ==
  ASSUME NEW map, IsFiniteSet(DOMAIN map), NEW from
  PROVE  /\ Cardinality(DOMAIN map) \in Nat
         /\ DOMAIN Levels(map, from) = 0 .. Cardinality(DOMAIN map)
         /\ Levels(map, from)[0] = DOMAIN map \cap from
         /\ \A k \in 0 .. Cardinality(DOMAIN map) - 1 :
              Levels(map, from)[k + 1] =
                DOMAIN map \cap UNION {map[m].children : m \in Levels(map, from)[k]}
<1> DEFINE D == DOMAIN map
           N == Cardinality(DOMAIN map)
           all == SUBSET D
           step == [S \in all |-> D \cap UNION {map[m].children : m \in S}]
           Step(g, k) == DOMAIN map \cap (IF k = 0 THEN from ELSE UNION {map[m].children : m \in g[k - 1]})
           level == CHOOSE g : g = [k \in 0 .. N |-> Step(g, k)]
           base == D \cap from
<1>1. N \in Nat
  BY FS_CardinalityType
<1>2. step \in [all -> all] /\ base \in all
  OBVIOUS
<1>3. PICK f \in [Nat -> all] : f[0] = base /\ \A k \in Nat : f[k + 1] = step[f[k]]
  <2>1. PICK sets, start, move : sets = all /\ start = base /\ move = step
    OBVIOUS
  <2>2. start \in sets
    BY <1>2, <2>1
  <2>4. move \in [sets -> sets]
    BY <1>2, <2>1
  <2> HIDE DEF step, all, base, D, N, Step, level
  <2>3. \E f \in [Nat -> sets] : f[0] = start /\ \A k \in Nat : f[k + 1] = move[f[k]]
    BY ONLY <2>2, <2>4, Iterates, SMTT(60)
  <2> QED
    BY <2>1, <2>3
<1> DEFINE g == [k \in 0 .. N |-> f[k]]
<1>4. \A k \in 0 .. N : g[k] = Step(g, k)
  <2> SUFFICES ASSUME NEW k \in 0 .. N PROVE g[k] = Step(g, k)
    OBVIOUS
  <2>1. CASE k = 0
    BY <1>1, <1>3, <2>1
  <2>2. CASE k # 0
    <3>1. k - 1 \in Nat /\ k - 1 \in 0 .. N /\ (k - 1) + 1 = k
      BY <1>1, <2>2
    <3>2. f[k] = step[f[k - 1]] /\ f[k - 1] \in all
      BY <1>3, <3>1
    <3>3. f[k] = D \cap UNION {map[m].children : m \in f[k - 1]}
      BY <3>2
    <3>4. g[k] = f[k] /\ g[k - 1] = f[k - 1]
      BY <3>1
    <3> HIDE DEF g
    <3> QED
      BY <2>2, <3>3, <3>4
  <2> QED
    BY <2>1, <2>2
<1>5. g = [k \in 0 .. N |-> Step(g, k)]
  <2>1. g = [k \in 0 .. N |-> g[k]]
    OBVIOUS
  <2> HIDE DEF g, Step
  <2> QED
    BY <1>4, <2>1
<1>6. level = [k \in 0 .. N |-> Step(level, k)]
  <2> HIDE DEF g, Step
  <2> QED
    BY <1>5
<1>7. Levels(map, from) = level
  BY DEF Levels
<1> HIDE DEF level, g
<1>8. level[0] = D \cap from /\ DOMAIN level = 0 .. N
  <2>1. level[0] = Step(level, 0)
    <3> HIDE DEF Step
    <3> QED
      BY <1>1, <1>6
  <2>2. DOMAIN level = 0 .. N
    <3> HIDE DEF Step
    <3> QED
      BY <1>6
  <2> QED
    BY <2>1, <2>2
<1>9. ASSUME NEW k \in 0 .. N - 1 PROVE level[k + 1] = D \cap UNION {map[m].children : m \in level[k]}
  <2>1. k + 1 \in 0 .. N /\ k + 1 # 0 /\ (k + 1) - 1 = k
    BY <1>1
  <2>2. level[k + 1] = Step(level, k + 1)
    <3> HIDE DEF Step
    <3> QED
      BY <1>6, <2>1
  <2> QED
    BY <2>1, <2>2
<1> QED
  BY <1>1, <1>7, <1>8, <1>9

(* The nodes B that are found from the nodes F are in layers: d is how far *)
(* a node is from its root, base how far F are.                            *)
Distances(map, d) ==
  /\ d \in [DOMAIN map -> Nat]
  /\ \A n \in DOMAIN map : /\ d[n] <= Cardinality(DOMAIN map)
                           /\ n < 0 => d[n] = 0
                           /\ n >= 0 => d[n] = d[map[n].parent] + 1
Layered(map, F, B, d, base) ==
  /\ Distances(map, d) /\ base \in Nat /\ B \subseteq DOMAIN map
  /\ \A n \in DOMAIN map : n \in F <=> n \in B /\ d[n] = base
  /\ \A n \in B : d[n] >= base
  /\ \A n \in DOMAIN map : n >= 0 /\ d[n] > base => (n \in B <=> map[n].parent \in B)

(* Level k of a traversal is what has distance k, and all of it is         *)
(* reached.                                                                *)
LEMMA LevelsAre ==
  ASSUME NEW map, Sound(map), IsFiniteSet(DOMAIN map), NEW F, NEW B, NEW d, NEW base, Layered(map, F, B, d, base)
  PROVE  /\ \A k \in 0 .. Cardinality(DOMAIN map) : Levels(map, F)[k] = {n \in B : d[n] = base + k}
         /\ Reached(map, F) = B
<1> DEFINE N == Cardinality(DOMAIN map)
           level == Levels(map, F)
           Layer(k) == {n \in B : d[n] = base + k}
           S == {k \in Nat : k <= N => level[k] = Layer(k)}
<1>1. /\ N \in Nat /\ DOMAIN level = 0 .. N /\ level[0] = DOMAIN map \cap F
      /\ \A k \in 0 .. N - 1 : level[k + 1] = DOMAIN map \cap UNION {map[m].children : m \in level[k]}
  BY LevelSteps
<1> HIDE DEF level, N
<1>2. /\ base \in Nat /\ B \subseteq DOMAIN map
      /\ \A n \in DOMAIN map : d[n] \in Nat /\ d[n] <= N /\ n \in Int
      /\ \A n \in DOMAIN map : n \in F <=> n \in B /\ d[n] = base
      /\ \A n \in B : d[n] >= base
      /\ \A n \in DOMAIN map : n < 0 => d[n] = 0
      /\ \A n \in DOMAIN map : n >= 0 =>
           /\ d[n] = d[map[n].parent] + 1 /\ map[n].parent \in DOMAIN map
           /\ d[n] > base => (n \in B <=> map[n].parent \in B)
      /\ \A m \in DOMAIN map : \A n : n \in map[m].children <=> n \in DOMAIN map /\ n >= 0 /\ map[n].parent = m
  BY DEF Layered, Distances, Sound, NodeMap, Agree, ChildrenAreEvents, N
<1>3. Nat \subseteq S
  <2>1. 0 \in S
    BY <1>1, <1>2
  <2>2. ASSUME NEW k \in Nat, k \in S PROVE k + 1 \in S
    <3> SUFFICES ASSUME k + 1 <= N PROVE level[k + 1] = Layer(k + 1)
      OBVIOUS
    <3>1. k \in 0 .. N - 1 /\ level[k] = Layer(k)
      BY <1>1, <2>2
    <3>2. level[k + 1] = DOMAIN map \cap UNION {map[m].children : m \in Layer(k)}
      BY <1>1, <3>1
    <3>3. ASSUME NEW n \in level[k + 1] PROVE n \in Layer(k + 1)
      <4>1. PICK m \in Layer(k) : n \in map[m].children
        BY <3>2
      <4>2. n \in DOMAIN map /\ n >= 0 /\ map[n].parent = m /\ m \in B /\ d[m] = base + k
        BY <1>2, <4>1
      <4> QED
        BY <1>2, <4>2
    <3>4. ASSUME NEW n \in Layer(k + 1) PROVE n \in level[k + 1]
      <4>1. n \in DOMAIN map /\ n \in B /\ d[n] = base + k + 1
        BY <1>2
      <4>2. n >= 0
        BY <1>2, <4>1
      <4>3. map[n].parent \in Layer(k) /\ n \in map[map[n].parent].children
        BY <1>2, <4>1, <4>2
      <4> QED
        BY <3>2, <4>1, <4>3
    <3> QED
      BY <3>3, <3>4
  <2> HIDE DEF S
  <2> QED
    BY <2>1, <2>2, Naturals
<1>4. \A k \in 0 .. N : level[k] = Layer(k)
  <2> SUFFICES ASSUME NEW k \in 0 .. N PROVE level[k] = Layer(k)
    OBVIOUS
  <2>1. k \in Nat /\ k <= N
    BY <1>1
  <2> QED
    BY <1>3, <2>1
<1>5. Reached(map, F) = UNION {level[k] : k \in 0 .. N}
  BY <1>1 DEF Reached, level
<1>6. ASSUME NEW n \in B PROVE \E k \in 0 .. N : n \in Layer(k)
  <2>1. d[n] - base \in 0 .. N /\ d[n] = base + (d[n] - base)
    BY <1>1, <1>2
  <2> QED
    BY <2>1
<1>7. Reached(map, F) = B
  <2> HIDE DEF Layer
  <2>1. \A n \in B : n \in Reached(map, F)
    BY <1>4, <1>5, <1>6
  <2>2. \A n \in Reached(map, F) : n \in B
    BY <1>4, <1>5 DEF Layer
  <2> QED
    BY <2>1, <2>2
<1> QED
  BY <1>4, <1>7 DEF level, N

(* What is above an event is of the host, other than the event, and has    *)
(* above it nothing else.                                                  *)
LEMMA AboveIs ==
  ASSUME NEW r, Rows(trace[r]), PairOf(r), NEW e \in Host(r)
  PROVE  /\ Above(r, e) \subseteq Host(r) /\ e \notin Above(r, e)
         /\ \A d \in Above(r, e) : Above(r, d) \subseteq Above(r, e)
<1> DEFINE of == AnnotationsOf(r, e)
           rowsOf == trace[r]
<1>1. PICK rows : rows = trace[r]
  OBVIOUS
<1>2. e \in rows /\ e.stream = -1
  BY <1>1 DEF Host
<1>3. PICK f : Outer(rows, e, f)
  BY <1>1, <1>2, OuterExists
<1>4. of = IF e.tid \in BwdTids(r) THEN FirstOf(Holders(rows, Annots(r), f)) ELSE {}
  BY <1>1, <1>2, <1>3, AnnotationsAre
<1>5. Above(r, e) = Around(rows, e) \cup of \cup UNION {Around(rows, a) : a \in of}
  BY <1>1 DEF Above, Enclosing, Around
<1> HIDE DEF of
<1>6. ASSUME NEW a \in of
      PROVE  /\ a \in rows /\ a.stream = -1 /\ a.tid # e.tid
             /\ Above(r, a) = Around(rows, a)
             /\ \A d \in Around(rows, a) : /\ d \in rows /\ d.stream = -1 /\ d.tid # e.tid
                                          /\ Above(r, d) \subseteq Around(rows, a)
  <2>1. a \in rows /\ a.index \in Annots(r) /\ e.tid \in BwdTids(r)
    BY <1>4 DEF FirstOf, Holders
  <2>2. a.stream = -1 /\ a.tid \notin BwdTids(r) /\ Above(r, a) = Around(rows, a)
    BY <1>1, <2>1, AnnotationsAbove
  <2>3. ASSUME NEW d \in Around(rows, a)
        PROVE  d \in rows /\ d.stream = -1 /\ d.tid # e.tid /\ Above(r, d) \subseteq Around(rows, a)
    <3>1. d \in rows /\ d.stream = -1 /\ d.tid = a.tid
      BY DEF Around, Encloses
    <3>2. PICK g : Outer(rows, d, g)
      BY <1>1, <3>1, OuterExists
    <3>3. AnnotationsOf(r, d) = {}
      BY <1>1, <2>2, <3>1, <3>2, AnnotationsAre
    <3>4. Above(r, d) = Around(rows, d)
      BY <1>1, <3>3 DEF Above, Enclosing, Around
    <3>5. Around(rows, d) \subseteq Around(rows, a)
      BY <1>1, <2>1, AroundGrows
    <3> QED
      BY <2>1, <2>2, <3>1, <3>4, <3>5
  <2> QED
    BY <2>1, <2>2, <2>3
<1>7. ASSUME NEW d \in Around(rows, e)
      PROVE  d \in rows /\ d.stream = -1 /\ d # e /\ Above(r, d) \subseteq Above(r, e)
  <2>1. d \in rows /\ d.stream = -1 /\ d.tid = e.tid /\ d.index # e.index /\ Encloses(d, e)
    BY DEF Around, Encloses
  <2>2. Outer(rows, d, f)
    <3>1. f \in Around(rows, e) /\ Around(rows, f) = {}
      BY <1>3, <1>7 DEF Outer
    <3>2. d = f \/ Encloses(d, f) \/ Encloses(f, d)
      BY <1>1, <1>2, <3>1, AroundChain
    <3>3. ~Encloses(d, f)
      BY <2>1, <3>1 DEF Around
    <3> QED
      BY <3>1, <3>2, <3>3 DEF Outer, Around
  <2>3. AnnotationsOf(r, d) = of
    BY <1>1, <1>4, <2>1, <2>2, AnnotationsAre
  <2>4. Above(r, d) = Around(rows, d) \cup of \cup UNION {Around(rows, a) : a \in of}
    BY <1>1, <2>3 DEF Above, Enclosing, Around
  <2>5. Around(rows, d) \subseteq Around(rows, e)
    BY <1>1, <1>2, AroundGrows
  <2> QED
    BY <1>5, <2>1, <2>4, <2>5
<1>8. Above(r, e) \subseteq Host(r)
  BY <1>1, <1>5, <1>6, <1>7 DEF Host
<1>9. e \notin Above(r, e)
  BY <1>5, <1>6, <1>7
<1>10. ASSUME NEW d \in Above(r, e) PROVE Above(r, d) \subseteq Above(r, e)
  <2>1. CASE d \in Around(rows, e)
    BY <1>7, <2>1
  <2>2. CASE d \in of
    BY <1>5, <1>6, <2>2
  <2>3. CASE \E a \in of : d \in Around(rows, a)
    BY <1>5, <1>6, <2>3
  <2> QED
    BY <1>5, <2>1, <2>2, <2>3
<1> QED
  BY <1>8, <1>9, <1>10

(* What is above a node: of a kernel, its launch too. *)
NodeAbove(r, n) ==
  {d \in Host(r) : \E e \in Host(r) :
     \/ n = e.index /\ d \in Above(r, e)
     \/ \E k \in Launched(r, e) : n = k.index /\ (d = e \/ d \in Above(r, e))}

(* The nodes of a rank as a tree: a node has above it its parent and what  *)
(* is above that.                                                          *)
ParentStep(r, n) ==
  \/ nodes[r][n].parent < 0 /\ NodeAbove(r, n) = {}
  \/ \E q \in Host(r) : /\ nodes[r][n].parent = q.index
                        /\ NodeAbove(r, n) = Above(r, q) \cup {q}
NodeTree(r) ==
  /\ IsFiniteSet(Host(r)) /\ \A d, e \in Host(r) : d.index = e.index => d = e
  /\ \A e \in Host(r) : /\ e.index \in Nat /\ e.index \in DOMAIN nodes[r] /\ NodeAbove(r, e.index) = Above(r, e)
                        /\ Above(r, e) \subseteq Host(r) /\ e \notin Above(r, e)
                        /\ \A d \in Above(r, e) : Above(r, d) \subseteq Above(r, e)
  /\ \A n \in DOMAIN nodes[r] : n >= 0 => ParentStep(r, n)

(* The nodes of a rank are a tree: each has the parent next above it.      *)
LEMMA TreeIs ==
  ASSUME NEW r, Rows(trace[r]), PairOf(r), Sound(nodes[r]), NodesTimed(r)
  PROVE  NodeTree(r)
<1>1. IsFiniteSet(Host(r)) /\ \A d, e \in trace[r] : d.index = e.index => d = e
  <2>1. IsFiniteSet(trace[r]) /\ Host(r) \subseteq trace[r]
    BY DEF Rows, OnHost, Host
  <2> QED
    BY <2>1, FS_Subset DEF Rows, Events
<1>2. \A e \in Host(r) : /\ e \in trace[r] /\ e.stream = -1 /\ e.index \in Nat /\ e.tid \in Nat /\ e.tid # 0
                         /\ e.index \in DOMAIN nodes[r]
                         /\ Above(r, e) \subseteq Host(r) /\ e \notin Above(r, e)
                         /\ \A d \in Above(r, e) : Above(r, d) \subseteq Above(r, e)
  BY AboveIs DEF Host, Rows, OnHost, NodesTimed
<1>3. \A e \in Host(r) : \A k \in Launched(r, e) :
        k \in trace[r] /\ k.stream > 0 /\ k.index_correlation = e.index
  BY DEF Launched
<1>4. ASSUME NEW e \in Host(r) PROVE NodeAbove(r, e.index) = Above(r, e)
  <2>1. \A d \in Host(r) : \A k \in Launched(r, d) : e.index # k.index
    BY <1>1, <1>2, <1>3
  <2>2. \A d \in Host(r) : e.index = d.index => d = e
    BY <1>1, <1>2
  <2> QED
    BY <1>2, <2>1, <2>2 DEF NodeAbove
<1>5. ASSUME NEW e \in Host(r), NEW k \in Launched(r, e) PROVE NodeAbove(r, k.index) = Above(r, e) \cup {e}
  <2>1. \A d \in Host(r) : k.index # d.index
    BY <1>1, <1>2, <1>3
  <2>2. \A d \in Host(r) : \A c \in Launched(r, d) : k.index = c.index => d = e
    BY <1>1, <1>2, <1>3
  <2>3. NodeAbove(r, k.index) = {d \in Host(r) : d = e \/ d \in Above(r, e)}
    BY <2>1, <2>2 DEF NodeAbove
  <2> QED
    BY <1>2, <2>3
<1>6. ASSUME NEW n \in DOMAIN nodes[r], n >= 0 PROVE ParentStep(r, n)
  <2>1. CASE \E e \in Host(r) : n = e.index
    <3>1. PICK e \in Host(r) : n = e.index
      BY <2>1
    <3>2. PICK p : p = nodes[r][n].parent
      OBVIOUS
    <3>3. ParentTimed(r, e, p)
      BY <3>1, <3>2 DEF NodesTimed
    <3>4. NodeAbove(r, n) = Above(r, e) /\ Above(r, e) \subseteq Host(r) /\ e.tid \in Nat \ {0}
      BY <1>2, <1>4, <3>1
    <3>5. CASE Above(r, e) = {}
      BY <3>2, <3>3, <3>4, <3>5 DEF ParentTimed, ParentStep
    <3>6. CASE Above(r, e) # {}
      BY <3>2, <3>3, <3>4, <3>6 DEF ParentTimed, ParentStep
    <3> QED
      BY <3>5, <3>6
  <2>2. CASE \E e \in Host(r) : \E k \in Launched(r, e) : n = k.index
    <3>1. PICK e \in Host(r) : \E k \in Launched(r, e) : n = k.index
      BY <2>2
    <3>2. PICK k \in Launched(r, e) : n = k.index
      BY <3>1
    <3>3. NodeAbove(r, n) = Above(r, e) \cup {e} /\ nodes[r][n].parent = e.index
      BY <1>5, <3>2 DEF NodesTimed
    <3> QED
      BY <3>3 DEF ParentStep
  <2>3. n \in Int
    BY DEF Sound, NodeMap
  <2> QED
    BY <1>6, <2>1, <2>2, <2>3 DEF NodesTimed
<1> QED
  BY <1>1, <1>2, <1>4, <1>6 DEF NodeTree

(* The distance of a node from its root, and the nodes below an event. *)
Dist(r) == [n \in DOMAIN nodes[r] |-> IF n < 0 THEN 0 ELSE Cardinality(NodeAbove(r, n)) + 1]
BelowNode(r, e) == {n \in DOMAIN nodes[r] : n >= 0 /\ (n = e.index \/ e \in NodeAbove(r, n))}

(* The rows above are finitely many, and those above a row are fewer. *)
LEMMA AboveSizes ==
  ASSUME NEW r, NodeTree(r)
  PROVE  /\ \A n : IsFiniteSet(NodeAbove(r, n)) /\ Cardinality(NodeAbove(r, n)) \in Nat
         /\ \A q \in Host(r) : /\ IsFiniteSet(Above(r, q)) /\ Cardinality(Above(r, q)) \in Nat
                               /\ Cardinality(Above(r, q) \cup {q}) = Cardinality(Above(r, q)) + 1
         /\ \A q \in Host(r) : \A d \in Above(r, q) : Cardinality(Above(r, d)) < Cardinality(Above(r, q))
<1>1. ASSUME NEW n PROVE IsFiniteSet(NodeAbove(r, n)) /\ Cardinality(NodeAbove(r, n)) \in Nat
  <2>1. NodeAbove(r, n) \subseteq Host(r)
    BY DEF NodeAbove
  <2>2. IsFiniteSet(NodeAbove(r, n))
    BY <2>1, FS_Subset DEF NodeTree
  <2> QED
    BY <2>2, FS_CardinalityType
<1>2. ASSUME NEW q \in Host(r) PROVE IsFiniteSet(Above(r, q)) /\ Cardinality(Above(r, q)) \in Nat
  BY <1>1 DEF NodeTree
<1>3. ASSUME NEW q \in Host(r) PROVE Cardinality(Above(r, q) \cup {q}) = Cardinality(Above(r, q)) + 1
  <2>1. q \notin Above(r, q)
    BY DEF NodeTree
  <2>2. PICK S : S = Above(r, q)
    OBVIOUS
  <2> QED
    BY <1>2, <2>1, <2>2, FS_AddElement
<1>4. ASSUME NEW q \in Host(r), NEW d \in Above(r, q)
      PROVE  Cardinality(Above(r, d)) < Cardinality(Above(r, q))
  <2>1. Above(r, d) \subseteq Above(r, q) /\ d \notin Above(r, d)
    BY DEF NodeTree
  <2>2. PICK S, T : S = Above(r, q) /\ T = Above(r, d)
    OBVIOUS
  <2> QED
    BY <1>2, <2>1, <2>2, SmallerPart
<1> QED
  BY <1>1, <1>2, <1>3, <1>4

(* The number of events above a node is its distance.                      *)
LEMMA DistancesOf ==
  ASSUME NEW r, NodeTree(r), Sound(nodes[r]), IsFiniteSet(DOMAIN nodes[r])
  PROVE  Distances(nodes[r], Dist(r))
<1> DEFINE map == nodes[r]
           d == Dist(r)
           N == Cardinality(DOMAIN map)
<1>1. \A n \in DOMAIN map : /\ n \in Int
                            /\ n >= 0 => map[n].parent \in DOMAIN map
                            /\ d[n] = IF n < 0 THEN 0 ELSE Cardinality(NodeAbove(r, n)) + 1
                            /\ Cardinality(NodeAbove(r, n)) \in Nat
  BY AboveSizes DEF Dist, Sound, NodeMap, Agree
<1>2. d \in [DOMAIN map -> Nat]
  <2>1. \A n \in DOMAIN map : d[n] \in Nat
    BY <1>1
  <2> QED
    BY <2>1 DEF Dist
<1>3. N \in Nat
  BY FS_CardinalityType
<1>4. ASSUME NEW n \in DOMAIN map, n >= 0 PROVE d[n] = d[map[n].parent] + 1
  <2>1. CASE map[n].parent < 0 /\ NodeAbove(r, n) = {}
    <3>1. Cardinality(NodeAbove(r, n)) = 0
      BY <2>1, FS_EmptySet
    <3>2. d[n] = 1 /\ map[n].parent \in DOMAIN map
      <4> HIDE DEF d
      <4> QED
        BY <1>1, <1>4, <3>1
    <3>3. d[map[n].parent] = 0
      <4> HIDE DEF d
      <4> QED
        BY <1>1, <2>1, <3>2
    <3> QED
      BY <3>2, <3>3
  <2>2. CASE \E q \in Host(r) : map[n].parent = q.index /\ NodeAbove(r, n) = Above(r, q) \cup {q}
    <3>1. PICK q \in Host(r) : map[n].parent = q.index /\ NodeAbove(r, n) = Above(r, q) \cup {q}
      BY <2>2
    <3>2. q.index \in Nat /\ q.index \in DOMAIN map /\ NodeAbove(r, q.index) = Above(r, q)
      BY DEF NodeTree
    <3>3. Cardinality(NodeAbove(r, n)) = Cardinality(Above(r, q)) + 1
      BY <3>1, AboveSizes
    <3> QED
      BY <1>1, <1>4, <3>1, <3>2, <3>3
  <2> QED
    BY <1>4, <2>1, <2>2 DEF NodeTree, ParentStep
<1>5. ASSUME NEW n \in DOMAIN map PROVE d[n] <= N
  <2>1. CASE n < 0
    BY <1>1, <1>3, <2>1
  <2>2. CASE n >= 0
    <3> DEFINE S == NodeAbove(r, n)
               index == [x \in S |-> x.index]
               T == {index[x] : x \in S}
    <3>1. S \subseteq Host(r) /\ IsFiniteSet(S)
      BY AboveSizes DEF NodeAbove
    <3>2. \A x, y \in S : index[x] = index[y] => x = y
      BY <3>1 DEF NodeTree
    <3>3. Cardinality(T) = Cardinality(S)
      <4> HIDE DEF S, index
      <4> QED
        BY <3>1, <3>2, Image
    <3>4. T \subseteq DOMAIN map
      BY <3>1 DEF NodeTree
    <3>5. n \notin T
      <4> SUFFICES ASSUME NEW x \in S, n = x.index PROVE FALSE
        OBVIOUS
      <4> QED
        BY <3>1 DEF NodeTree
    <3> HIDE DEF T, S
    <3>6. PICK D : D = DOMAIN map
      OBVIOUS
    <3>7. Cardinality(T) < Cardinality(D)
      BY <3>4, <3>5, <3>6, SmallerPart
    <3> QED
      BY <1>1, <1>3, <2>2, <3>3, <3>6, <3>7 DEF S
  <2> QED
    BY <1>1, <2>1, <2>2
<1>6. \A n \in DOMAIN map : n < 0 => d[n] = 0
  BY <1>1
<1> QED
  BY <1>2, <1>4, <1>5, <1>6 DEF Distances

(* What is below an event is layered by the distance from it.              *)
LEMMA BelowLayered ==
  ASSUME NEW r, NodeTree(r), Sound(nodes[r]), IsFiniteSet(DOMAIN nodes[r]), NEW e \in Host(r)
  PROVE  Layered(nodes[r], {e.index}, BelowNode(r, e), Dist(r), Cardinality(Above(r, e)) + 1)
<1> DEFINE map == nodes[r]
           d == Dist(r)
           B == BelowNode(r, e)
           base == Cardinality(Above(r, e)) + 1
<1>1. \A n \in DOMAIN map : /\ n \in Int
                            /\ d[n] = IF n < 0 THEN 0 ELSE Cardinality(NodeAbove(r, n)) + 1
                            /\ Cardinality(NodeAbove(r, n)) \in Nat
  BY AboveSizes DEF Dist, Sound, NodeMap
<1>2. /\ e.index \in DOMAIN map /\ e.index >= 0 /\ NodeAbove(r, e.index) = Above(r, e)
      /\ e \notin Above(r, e) /\ base \in Nat \ {0}
  BY AboveSizes DEF NodeTree
<1>3. ASSUME NEW n \in DOMAIN map, n >= 0, e \in NodeAbove(r, n)
      PROVE  Cardinality(Above(r, e)) < Cardinality(NodeAbove(r, n))
  <2>1. PICK q \in Host(r) : NodeAbove(r, n) = Above(r, q) \cup {q}
    BY <1>3 DEF NodeTree, ParentStep
  <2>2. Cardinality(NodeAbove(r, n)) = Cardinality(Above(r, q)) + 1
    BY <2>1, AboveSizes
  <2>3. Cardinality(Above(r, e)) <= Cardinality(Above(r, q)) /\ Cardinality(Above(r, q)) \in Nat
        /\ Cardinality(Above(r, e)) \in Nat
    <3>1. Cardinality(Above(r, q)) \in Nat /\ Cardinality(Above(r, e)) \in Nat
      BY AboveSizes
    <3>2. CASE e = q
      BY <3>1, <3>2
    <3>3. CASE e \in Above(r, q)
      <4>1. Cardinality(Above(r, e)) < Cardinality(Above(r, q))
        BY <3>3, AboveSizes
      <4> QED
        BY <3>1, <4>1
    <3> QED
      BY <1>3, <2>1, <3>2, <3>3
  <2> QED
    BY <2>2, <2>3
<1>4. \A n \in DOMAIN map : n \in {e.index} <=> n \in B /\ d[n] = base
  BY <1>1, <1>2, <1>3 DEF BelowNode
<1>5. \A n \in B : d[n] >= base
  BY <1>1, <1>2, <1>3 DEF BelowNode
<1>6. ASSUME NEW n \in DOMAIN map, n >= 0, d[n] > base PROVE n \in B <=> map[n].parent \in B
  <2>1. n # e.index
    BY <1>1, <1>2, <1>6
  <2>2. n \in B <=> e \in NodeAbove(r, n)
    BY <1>6, <2>1 DEF BelowNode
  <2>3. CASE map[n].parent < 0 /\ NodeAbove(r, n) = {}
    BY <2>2, <2>3 DEF BelowNode, Sound, NodeMap, Agree
  <2>4. CASE \E q \in Host(r) : map[n].parent = q.index /\ NodeAbove(r, n) = Above(r, q) \cup {q}
    <3>1. PICK q \in Host(r) : map[n].parent = q.index /\ NodeAbove(r, n) = Above(r, q) \cup {q}
      BY <2>4
    <3>2. q.index \in Nat /\ q.index \in DOMAIN map /\ NodeAbove(r, q.index) = Above(r, q)
          /\ (q.index = e.index => q = e)
      BY DEF NodeTree
    <3>3. q.index \in B <=> e = q \/ e \in Above(r, q)
      BY <3>2 DEF BelowNode
    <3> QED
      BY <2>2, <3>1, <3>3
  <2> QED
    BY <1>6, <2>3, <2>4 DEF NodeTree, ParentStep
<1>7. B \subseteq DOMAIN map
  BY DEF BelowNode
<1> QED
  BY <1>2, <1>4, <1>5, <1>6, <1>7, DistancesOf DEF Layered

(* All nodes are layered by the distance from the roots.                   *)
LEMMA AllLayered ==
  ASSUME NEW r, NodeTree(r), Sound(nodes[r]), IsFiniteSet(DOMAIN nodes[r]),
         NON_EXISTENT_NODE_INDEX \notin DOMAIN nodes[r]
  PROVE  Layered(nodes[r], AllRootIndices(nodes[r]), DOMAIN nodes[r], Dist(r), 0)
<1>1. Distances(nodes[r], Dist(r))
  BY DistancesOf
<1>2. \A n \in DOMAIN nodes[r] : /\ n \in Int /\ Dist(r)[n] \in Nat
                                 /\ n < 0 <=> Dist(r)[n] = 0
                                 /\ n >= 0 => nodes[r][n].parent \in DOMAIN nodes[r]
  BY AboveSizes DEF Dist, Sound, NodeMap, Agree
<1> QED
  BY <1>1, <1>2 DEF Layered, AllRootIndices

-----------------------------------------------------------------------------
(* Depths and heights                                                      *)

(* No thread has the number that makes its root the index of no node: from *)
(* that root the traversals of all call stacks do not start.               *)
RootsCounted ==
  \A frames \in Traces : \A r \in Ranks : \A th \in Threads(frames[r]) :
    RootIndex(th) # NON_EXISTENT_NODE_INDEX

(* The depth that is saved is the distance from the root, roots at -1.     *)
LEMMA DepthsAre ==
  ASSUME NEW map, Sound(map), IsFiniteSet(DOMAIN map), NEW d,
         Layered(map, AllRootIndices(map), DOMAIN map, d, 0)
  PROVE  \A n \in DOMAIN map : WithDepth(map)[n].depth = d[n] - 1
<1> DEFINE N == Cardinality(DOMAIN map)
           level == Levels(map, AllRootIndices(map))
           distances(n) == {k \in 0 .. N : n \in level[k]}
<1>1. \A k \in 0 .. N : level[k] = {n \in DOMAIN map : d[n] = 0 + k}
  BY LevelsAre
<1>2. N \in Nat /\ \A n \in DOMAIN map : d[n] \in Nat /\ d[n] <= N
  BY FS_CardinalityType DEF Layered, Distances
<1> SUFFICES ASSUME NEW n \in DOMAIN map PROVE WithDepth(map)[n].depth = d[n] - 1
  OBVIOUS
<1> DEFINE depth == IF distances(n) = {} THEN map[n].depth ELSE (CHOOSE k \in distances(n) : TRUE) - 1
<1>3. WithDepth(map)[n].depth = depth
  BY DEF WithDepth, Node
<1> HIDE DEF level, N
<1>4. d[n] \in distances(n) /\ \A k \in distances(n) : k = d[n]
  BY <1>1, <1>2
<1> HIDE DEF distances
<1> QED
  BY <1>3, <1>4

(* A distance does not look at depths. *)
LEMMA LayersKept ==
  ASSUME NEW map, NEW m, Sound(m), map = WithDepth(m), NEW B, NEW d, NEW base,
         Layered(map, AllRootIndices(map), B, d, base)
  PROVE  Layered(m, AllRootIndices(m), B, d, base)
<1>1. DOMAIN map = DOMAIN m /\ \A n \in DOMAIN m : map[n].parent = m[n].parent
  BY DEF WithDepth, Node
<1>2. AllRootIndices(map) = AllRootIndices(m)
  BY <1>1 DEF AllRootIndices
<1>3. \A n \in DOMAIN m : n >= 0 => m[n].parent \in DOMAIN m
  BY DEF Sound, Agree
<1> QED
  BY <1>1, <1>2, <1>3 DEF Layered, Distances

(* The nodes of a rank are a finite tree, and all of them have an index.   *)
LEMMA TreeOf ==
  ASSUME RootsCounted, NEW r \in Ranks, trace \in Traces, Rows(trace[r]), PairOf(r),
         Sound(nodes[r]), NodesTimed(r), Founded(nodes[r])
  PROVE  /\ NodeTree(r) /\ IsFiniteSet(DOMAIN nodes[r]) /\ NON_EXISTENT_NODE_INDEX \notin DOMAIN nodes[r]
<1>1. IsFiniteSet(DOMAIN nodes[r])
  BY DEF Founded
<1>2. \A th \in Threads(trace[r]) : -th.tid # NON_EXISTENT_NODE_INDEX
  BY DEF RootsCounted, RootIndex
<1>3. \A e \in trace[r] : e.index # NON_EXISTENT_NODE_INDEX
  BY DEF Rows, NON_EXISTENT_NODE_INDEX
<1>4. NON_EXISTENT_NODE_INDEX \notin DOMAIN nodes[r]
  BY <1>2, <1>3 DEF NodesTimed, Host, Launched
<1> QED
  BY <1>1, <1>4, TreeIs

(* The nodes of a rank that is saved. *)
LEMMA FinishedTree ==
  ASSUME AnnotationsOnHost, HostsNested, ThreadsApart, RootsCounted, NEW r \in Ranks,
         Inv, PathsInv, TimeInv, pc = "ready"
  PROVE  /\ NodeTree(r) /\ IsFiniteSet(DOMAIN nodes[r]) /\ NON_EXISTENT_NODE_INDEX \notin DOMAIN nodes[r]
<1>1. Rows(trace[r]) /\ PairOf(r) /\ SavedRank(r) /\ Sound(nodes[r]) /\ NodesTimed(r)
  BY FinishedRank
<1>2. trace \in Traces /\ Founded(nodes[r])
  BY <1>1 DEF Inv, RankBegun, PathsInv, AllFounded, SavedRank
<1> QED
  BY <1>1, <1>2, TreeOf

(* The depths of a rank that is saved. *)
LEMMA FinishedDepths ==
  ASSUME NEW r, NodeTree(r), SavedRank(r), Sound(nodes[r]), IsFiniteSet(DOMAIN nodes[r]),
         NON_EXISTENT_NODE_INDEX \notin DOMAIN nodes[r]
  PROVE  \A n \in DOMAIN nodes[r] : nodes[r][n].depth = Dist(r)[n] - 1
<1>1. PICK m : Sound(m) /\ nodes[r] = WithDepth(m)
  BY DEF SavedRank
<1>2. DOMAIN m = DOMAIN nodes[r]
  BY <1>1, WithDepthSound
<1>3. Layered(nodes[r], AllRootIndices(nodes[r]), DOMAIN nodes[r], Dist(r), 0)
  BY AllLayered
<1>4. Layered(m, AllRootIndices(m), DOMAIN m, Dist(r), 0)
  BY <1>1, <1>2, <1>3, LayersKept
<1> QED
  BY <1>1, <1>2, <1>4, DepthsAre

(* The distance of an event counts what is above it.                       *)
LEMMA DepthsAreTimed ==
  ASSUME NEW r, NodeTree(r), NodesTimed(r), NEW d, \A n \in DOMAIN nodes[r] : d[n] = Dist(r)[n] - 1
  PROVE  \A e \in Host(r) : /\ d[e.index] = Cardinality(Above(r, e))
                            /\ \A k \in Launched(r, e) : k.index \in Nat => d[k.index] = Cardinality(Above(r, e)) + 1
<1> SUFFICES ASSUME NEW e \in Host(r)
             PROVE  /\ d[e.index] = Cardinality(Above(r, e))
                    /\ \A k \in Launched(r, e) : k.index \in Nat => d[k.index] = Cardinality(Above(r, e)) + 1
  OBVIOUS
<1>1. /\ e.index \in DOMAIN nodes[r] /\ e.index \in Nat /\ NodeAbove(r, e.index) = Above(r, e)
      /\ Cardinality(Above(r, e)) \in Nat
  BY AboveSizes DEF NodeTree
<1>2. Dist(r)[e.index] = Cardinality(Above(r, e)) + 1
  BY <1>1 DEF Dist
<1>3. ASSUME NEW k \in Launched(r, e), k.index \in Nat PROVE d[k.index] = Cardinality(Above(r, e)) + 1
  <2>1. k.index \in DOMAIN nodes[r] /\ nodes[r][k.index].parent = e.index
    BY DEF NodesTimed
  <2>2. PICK q \in Host(r) : q.index = e.index /\ NodeAbove(r, k.index) = Above(r, q) \cup {q}
    BY <1>1, <1>3, <2>1 DEF NodeTree, ParentStep
  <2>3. q = e
    BY <2>2 DEF NodeTree
  <2>4. Cardinality(NodeAbove(r, k.index)) = Cardinality(Above(r, e)) + 1
    BY <2>2, <2>3, AboveSizes
  <2>5. Dist(r)[k.index] = Cardinality(Above(r, e)) + 2
    BY <1>1, <1>3, <2>1, <2>4 DEF Dist
  <2> QED
    BY <1>1, <2>1, <2>5
<1> QED
  BY <1>1, <1>2, <1>3

(* Heights are what agrees with those of the children. *)
HeightStep(map, h, n) ==
  IF map[n].device = "GPU" THEN 0
  ELSE Max({1} \cup {h[c] + 1 : c \in map[n].children \cap DOMAIN map})

(* A function that satisfies the equations of the heights is the heights,  *)
(* computed from the deepest level up (trace_call_stack.py:631-690).       *)
LEMMA HeightsAre ==
  ASSUME NEW map, Sound(map), IsFiniteSet(DOMAIN map), NEW d,
         Layered(map, AllRootIndices(map), DOMAIN map, d, 0),
         NEW v, v = [n \in DOMAIN map |-> HeightStep(map, v, n)]
  PROVE  \A n \in DOMAIN map : Heights(map)[n] = v[n]
<1> DEFINE D == DOMAIN map
           N == Cardinality(D)
           reached == Reached(map, AllRootIndices(map))
           h == CHOOSE g : g = [n \in reached |-> IF map[n].device = "GPU" THEN 0
                                ELSE Max({1} \cup {g[c] + 1 : c \in map[n].children \cap DOMAIN map})]
           H == CHOOSE g : g = [n \in D |-> HeightStep(map, g, n)]
           S == {k \in Nat : \A n \in D : d[n] + k > N => H[n] = v[n]}
<1>1. reached = D
  BY LevelsAre
<1>2. Heights(map) = [n \in D |-> IF n \in reached THEN h[n] ELSE -1]
  BY DEF Heights
<1>3. h = H
  <2> HIDE DEF reached
  <2> QED
    BY <1>1 DEF HeightStep
<1>4. H = [n \in D |-> HeightStep(map, H, n)]
  <2> HIDE DEF D
  <2>1. v = [n \in D |-> HeightStep(map, v, n)]
    BY DEF D
  <2> QED
    BY <2>1
<1> HIDE DEF h, H, reached
<1>5. N \in Nat /\ \A n \in D : d[n] \in Nat /\ d[n] <= N
  BY FS_CardinalityType DEF Layered, Distances
<1>6. \A n \in D : \A c \in map[n].children : d[c] = d[n] + 1
  BY DEF Layered, Distances, Sound, Agree, ChildrenAreEvents
<1> HIDE DEF N
<1>7. Nat \subseteq S
  <2>1. 0 \in S
    BY <1>5
  <2>2. ASSUME NEW k \in Nat, k \in S PROVE k + 1 \in S
    <3> SUFFICES ASSUME NEW n \in D, d[n] + (k + 1) > N PROVE H[n] = v[n]
      OBVIOUS
    <3>1. ASSUME NEW c \in map[n].children \cap D PROVE H[c] = v[c]
      <4>1. d[c] + k > N
        BY <1>5, <1>6
      <4> QED
        BY <2>2, <4>1
    <3>2. {H[c] + 1 : c \in map[n].children \cap D} = {v[c] + 1 : c \in map[n].children \cap D}
      BY <3>1
    <3>3. HeightStep(map, H, n) = HeightStep(map, v, n)
      BY <3>2 DEF HeightStep
    <3>4. H[n] = HeightStep(map, H, n)
      BY <1>4
    <3> QED
      BY <3>3, <3>4
  <2> HIDE DEF S
  <2> QED
    BY <2>1, <2>2, Naturals
<1>8. ASSUME NEW n \in D PROVE H[n] = v[n]
  <2>1. N + 1 \in Nat /\ d[n] + (N + 1) > N
    BY <1>5
  <2> QED
    BY <1>7, <2>1
<1> QED
  BY <1>1, <1>2, <1>3, <1>8

(* The maximum is the member that bounds the others.                       *)
LEMMA MaxIs ==
  ASSUME NEW S, S \subseteq Int, NEW m \in S, \A t \in S : t <= m
  PROVE  Max(S) = m
<1>1. m \in S /\ \A t \in S : m >= t
  OBVIOUS
<1>2. Max(S) \in S /\ \A t \in S : Max(S) >= t
  BY <1>1 DEF Max
<1>3. PICK x : x = Max(S)
  OBVIOUS
<1>4. x \in Int /\ m \in Int /\ x >= m /\ m >= x
  BY <1>1, <1>2, <1>3
<1> QED
  BY <1>3, <1>4

(* What is on top of an event at some time, and how high it gets.          *)
On(r, e) == {d \in Host(r) : d = e \/ e \in Above(r, d)}
Rise(r, e) == {Cardinality(Above(r, d)) - Cardinality(Above(r, e)) : d \in On(r, e)}

(* The rises of an event are numbers, and the largest is one of them.      *)
LEMMA RiseIs ==
  ASSUME NEW r, NodeTree(r), NEW e \in Host(r)
  PROVE  /\ Rise(r, e) \subseteq Nat /\ 0 \in Rise(r, e) /\ Max(Rise(r, e)) \in Rise(r, e)
         /\ \A t \in Rise(r, e) : t <= Max(Rise(r, e))
<1> DEFINE rise == [d \in On(r, e) |-> Cardinality(Above(r, d)) - Cardinality(Above(r, e))]
<1>1. e \in On(r, e) /\ On(r, e) \subseteq Host(r)
  BY DEF On
<1>2. ASSUME NEW d \in On(r, e) PROVE rise[d] \in Nat
  <2>1. Cardinality(Above(r, d)) \in Nat /\ Cardinality(Above(r, e)) \in Nat
    BY <1>1, AboveSizes
  <2>2. d = e \/ Cardinality(Above(r, e)) < Cardinality(Above(r, d))
    BY AboveSizes DEF On
  <2> QED
    BY <2>1, <2>2
<1>3. rise[e] = 0
  <2>1. Cardinality(Above(r, e)) \in Nat
    BY AboveSizes
  <2> QED
    BY <1>1, <2>1
<1>4. Rise(r, e) = {rise[d] : d \in On(r, e)}
  BY DEF Rise
<1>5. IsFiniteSet(Rise(r, e))
  <2> DEFINE N == Cardinality(Host(r))
  <2>1. N \in Nat
    BY FS_CardinalityType DEF NodeTree
  <2>2. ASSUME NEW d \in On(r, e) PROVE rise[d] \in 0 .. N
    <3>1. Above(r, d) \subseteq Host(r) /\ IsFiniteSet(Host(r))
      BY <1>1 DEF NodeTree
    <3>2. Cardinality(Above(r, d)) <= N
      BY <3>1, FS_Subset
    <3>3. Cardinality(Above(r, d)) \in Nat /\ Cardinality(Above(r, e)) \in Nat
      BY <1>1, AboveSizes
    <3>4. rise[d] \in Nat /\ rise[d] = Cardinality(Above(r, d)) - Cardinality(Above(r, e))
      BY <1>2
    <3> HIDE DEF rise, N
    <3> QED
      BY <2>1, <3>2, <3>3, <3>4 DEF N
  <2> HIDE DEF rise, N
  <2>3. Rise(r, e) \subseteq 0 .. N
    BY <1>4, <2>2
  <2>4. 0 \in Int /\ N \in Int
    BY <2>1
  <2>5. IsFiniteSet(0 .. N)
    BY <2>4, FS_Interval
  <2> QED
    BY <2>3, <2>5, FS_Subset
<1> HIDE DEF rise
<1>7. Rise(r, e) \subseteq Nat /\ 0 \in Rise(r, e) /\ IsFiniteSet(Rise(r, e))
  BY <1>1, <1>2, <1>3, <1>4, <1>5
<1>8. PICK T : T = Rise(r, e)
  OBVIOUS
<1>9. T \subseteq Int /\ T # {} /\ IsFiniteSet(T)
  BY <1>7, <1>8
<1>10. Max(T) \in T /\ \A t \in T : t <= Max(T)
  BY <1>9, Greatest
<1> QED
  BY <1>7, <1>8, <1>10

(* An event below another is below a child of it, or the child. *)
LEMMA ChildAbove ==
  ASSUME NEW r, NodeTree(r), NEW e \in Host(r), NEW x \in Host(r), e \in Above(r, x)
  PROVE  \E c \in Host(r) : /\ Above(r, c) = Above(r, e) \cup {e} /\ nodes[r][c.index].parent = e.index
                            /\ x \in On(r, c)
<1> DEFINE C == {c \in Above(r, x) \cup {x} : e \in Above(r, c)}
           T == {Cardinality(Above(r, c)) : c \in C}
<1>1. C \subseteq Host(r) /\ x \in C
  BY DEF NodeTree
<1>2. T \subseteq Nat /\ T # {}
  <2>1. \A c \in C : Cardinality(Above(r, c)) \in Nat
    BY <1>1, AboveSizes
  <2> HIDE DEF C
  <2> QED
    BY <1>1, <2>1
<1> HIDE DEF T
<1>3. PICK least : least \in T /\ \A t \in T : least <= t
  BY <1>2, Least
<1>4. PICK c \in C : \A o \in C : Cardinality(Above(r, c)) <= Cardinality(Above(r, o))
  BY <1>3 DEF T
<1>5. c \in Host(r) /\ e \in Above(r, c) /\ x \in On(r, c) /\ Above(r, c) \subseteq Above(r, x)
  BY <1>1, <1>4 DEF On, NodeTree
<1>6. /\ c.index \in DOMAIN nodes[r] /\ c.index >= 0 /\ NodeAbove(r, c.index) = Above(r, c)
  BY <1>5 DEF NodeTree
<1>7. PICK q \in Host(r) : nodes[r][c.index].parent = q.index /\ Above(r, c) = Above(r, q) \cup {q}
  BY <1>5, <1>6 DEF NodeTree, ParentStep
<1>8. q = e
  <2> SUFFICES ASSUME e \in Above(r, q) PROVE FALSE
    BY <1>5, <1>7
  <2>1. q \in C
    BY <1>5, <1>7
  <2>2. Cardinality(Above(r, q)) < Cardinality(Above(r, c))
    BY <1>5, <1>7, AboveSizes
  <2>3. Cardinality(Above(r, q)) \in Nat /\ Cardinality(Above(r, c)) \in Nat
    BY <1>5, AboveSizes
  <2> QED
    BY <1>4, <2>1, <2>2, <2>3
<1> QED
  BY <1>5, <1>7, <1>8

(* The height of an event is one more than its greatest rise. *)
TallNode(r, n) ==
  IF nodes[r][n].device = "GPU" THEN 0 ELSE 1 + Max(Rise(r, CHOOSE e \in Host(r) : e.index = n))

(* An event rises one more than the highest of its children.               *)
LEMMA RiseOfChildren ==
  ASSUME NEW r, NodeTree(r), NodesTimed(r), Sound(nodes[r]), NEW e \in Host(r),
         NEW w, \A n \in DOMAIN nodes[r] : n >= 0 => w[n] = TallNode(r, n)
  PROVE  Max({1} \cup {w[c] + 1 : c \in nodes[r][e.index].children \cap DOMAIN nodes[r]}) = 1 + Max(Rise(r, e))
<1> DEFINE map == nodes[r]
           children == map[e.index].children \cap DOMAIN map
           L == {1} \cup {w[c] + 1 : c \in children}
           m == Max(Rise(r, e))
<1>1. /\ e.index \in DOMAIN map /\ e.index \in Nat
      /\ \A d \in Host(r) : /\ d.index \in DOMAIN map /\ d.index \in Nat /\ NodeAbove(r, d.index) = Above(r, d)
                            /\ (d.index = e.index => d = e)
  BY DEF NodeTree
<1>2. ASSUME NEW d \in Host(r) PROVE w[d.index] = 1 + Max(Rise(r, d))
  <2>1. map[d.index].device = "CPU"
    BY DEF NodesTimed
  <2>2. (CHOOSE x \in Host(r) : x.index = d.index) = d
    BY DEF NodeTree
  <2>3. w[d.index] = TallNode(r, d.index)
    BY <1>1
  <2>4. TallNode(r, d.index) = 1 + Max(Rise(r, CHOOSE x \in Host(r) : x.index = d.index))
    BY <2>1 DEF TallNode
  <2> QED
    BY <2>2, <2>3, <2>4
<1>3. m \in Nat /\ 0 <= m
  BY RiseIs
<1> HIDE DEF m
<1>4. ASSUME NEW c \in children PROVE w[c] + 1 \in Int /\ w[c] + 1 <= m + 1
  <2>1. c \in DOMAIN map /\ c >= 0 /\ map[c].parent = e.index
    BY <1>1 DEF Sound, Agree, ChildrenAreEvents
  <2>2. CASE \E x \in Host(r) : c = x.index
    <3>1. PICK x \in Host(r) : c = x.index
      BY <2>2
    <3>2. Above(r, x) = Above(r, e) \cup {e}
      BY <1>1, <2>1, <3>1 DEF NodeTree, ParentStep
    <3>3. PICK t : t = Max(Rise(r, x)) /\ t \in Nat /\ t \in Rise(r, x)
      BY RiseIs
    <3>4. PICK y \in On(r, x) : t = Cardinality(Above(r, y)) - Cardinality(Above(r, x))
      BY <3>3 DEF Rise
    <3>5. y \in On(r, e) /\ y \in Host(r)
      BY <3>2, <3>4 DEF On, NodeTree
    <3>6. /\ Cardinality(Above(r, x)) = Cardinality(Above(r, e)) + 1 /\ Cardinality(Above(r, e)) \in Nat
          /\ Cardinality(Above(r, y)) \in Nat
      BY <3>2, <3>5, AboveSizes
    <3>7. Cardinality(Above(r, y)) - Cardinality(Above(r, e)) \in Rise(r, e)
      BY <3>5 DEF Rise
    <3>8. Cardinality(Above(r, y)) - Cardinality(Above(r, e)) <= m
      BY <3>7, RiseIs DEF m
    <3>9. w[c] = 1 + t
      BY <1>2, <3>1, <3>3
    <3> QED
      BY <1>3, <3>3, <3>4, <3>6, <3>8, <3>9
  <2>3. CASE \E x \in Host(r) : \E k \in Launched(r, x) : c = k.index
    <3>2. map[c].device = "GPU"
      BY <2>3 DEF NodesTimed
    <3>3. w[c] = TallNode(r, c)
      BY <2>1
    <3>1. w[c] = 0
      BY <3>2, <3>3 DEF TallNode
    <3> QED
      BY <1>3, <3>1
  <2>4. c \in Int
    BY <2>1 DEF Sound, NodeMap
  <2> QED
    BY <2>1, <2>2, <2>3, <2>4 DEF NodesTimed
<1>5. L \subseteq Int /\ \A t \in L : t <= m + 1
  BY <1>3, <1>4
<1>6. m + 1 \in L
  <2>1. PICK x \in On(r, e) : m = Cardinality(Above(r, x)) - Cardinality(Above(r, e))
    BY RiseIs DEF m, Rise
  <2>2. CASE x = e
    <3>2. Cardinality(Above(r, e)) \in Nat
      BY AboveSizes
    <3>1. m = 0
      BY <2>1, <2>2, <3>2
    <3> QED
      BY <3>1
  <2>3. CASE e \in Above(r, x)
    <3>1. x \in Host(r)
      BY DEF On
    <3>2. PICK c \in Host(r) : /\ Above(r, c) = Above(r, e) \cup {e} /\ map[c.index].parent = e.index
                               /\ x \in On(r, c)
      BY <2>3, <3>1, ChildAbove
    <3>3. c.index \in children
      BY <1>1, <3>2 DEF Sound, Agree
    <3>4. Cardinality(Above(r, x)) - Cardinality(Above(r, c)) \in Rise(r, c)
      BY <3>2 DEF Rise
    <3>5. Cardinality(Above(r, x)) - Cardinality(Above(r, c)) <= Max(Rise(r, c)) /\ Max(Rise(r, c)) \in Nat
      BY <3>4, RiseIs
    <3>6. /\ Cardinality(Above(r, c)) = Cardinality(Above(r, e)) + 1 /\ Cardinality(Above(r, e)) \in Nat
          /\ Cardinality(Above(r, x)) \in Nat
      BY <3>1, <3>2, AboveSizes
    <3>7. w[c.index] = 1 + Max(Rise(r, c))
      BY <1>2
    <3>8. w[c.index] + 1 <= m + 1
      BY <1>4, <3>3
    <3>9. w[c.index] + 1 = m + 1
      BY <1>3, <2>1, <3>5, <3>6, <3>7, <3>8
    <3> QED
      BY <3>3, <3>9
  <2> QED
    BY <2>2, <2>3 DEF On
<1> HIDE DEF L
<1>7. Max(L) = m + 1
  BY <1>5, <1>6, MaxIs
<1> QED
  BY <1>3, <1>7 DEF L, m

(* The heights that the clock gives satisfy the equations.                 *)
LEMMA TallFunction ==
  ASSUME NEW r, NodeTree(r), NodesTimed(r), Sound(nodes[r])
  PROVE  \E v : /\ v = [n \in DOMAIN nodes[r] |-> HeightStep(nodes[r], v, n)]
                /\ \A n \in DOMAIN nodes[r] : n >= 0 => v[n] = TallNode(r, n)
<1> DEFINE map == nodes[r]
           w == [n \in DOMAIN map |-> TallNode(r, n)]
           v == [n \in DOMAIN map |-> IF n >= 0 THEN w[n] ELSE HeightStep(map, w, n)]
<1>1. \A n \in DOMAIN map : n >= 0 => w[n] = TallNode(r, n) /\ v[n] = w[n]
  OBVIOUS
<1>2. ASSUME NEW n \in DOMAIN map PROVE HeightStep(map, v, n) = HeightStep(map, w, n)
  <2> HIDE DEF v, w
  <2>1. \A c \in map[n].children \cap DOMAIN map : v[c] = w[c]
    BY <1>1 DEF Sound, ChildrenAreEvents
  <2>2. {v[c] + 1 : c \in map[n].children \cap DOMAIN map} = {w[c] + 1 : c \in map[n].children \cap DOMAIN map}
    BY <2>1
  <2> QED
    BY <2>2 DEF HeightStep
<1>3. ASSUME NEW n \in DOMAIN map, n >= 0 PROVE HeightStep(map, w, n) = w[n]
  <2>1. CASE map[n].device = "GPU"
    BY <1>1, <1>3, <2>1 DEF HeightStep, TallNode
  <2>2. CASE map[n].device # "GPU"
    <3>1. PICK e \in Host(r) : n = e.index
      BY <1>3, <2>2 DEF NodesTimed, Sound, NodeMap
    <3>2. (CHOOSE x \in Host(r) : x.index = n) = e
      BY <3>1 DEF NodeTree
    <3>3. w[n] = 1 + Max(Rise(r, e))
      BY <1>1, <1>3, <2>2, <3>2 DEF TallNode
    <3>4. Max({1} \cup {w[c] + 1 : c \in map[e.index].children \cap DOMAIN map}) = 1 + Max(Rise(r, e))
      <4>1. PICK u : u = w
        OBVIOUS
      <4>2. \A x \in DOMAIN nodes[r] : x >= 0 => u[x] = TallNode(r, x)
        BY <1>1, <4>1
      <4>3. Max({1} \cup {u[c] + 1 : c \in nodes[r][e.index].children \cap DOMAIN nodes[r]}) = 1 + Max(Rise(r, e))
        BY <4>2, RiseOfChildren
      <4> QED
        BY <4>1, <4>3
    <3> HIDE DEF w
    <3> QED
      BY <2>2, <3>1, <3>3, <3>4 DEF HeightStep
  <2> QED
    BY <2>1, <2>2
<1>4. v = [n \in DOMAIN map |-> HeightStep(map, v, n)]
  <2>1. \A n \in DOMAIN map : v[n] = IF n >= 0 THEN w[n] ELSE HeightStep(map, w, n)
    OBVIOUS
  <2>2. v = [n \in DOMAIN map |-> v[n]]
    OBVIOUS
  <2> HIDE DEF v, w
  <2>3. \A n \in DOMAIN map : v[n] = HeightStep(map, v, n)
    BY <1>2, <1>3, <2>1
  <2> QED
    BY <2>2, <2>3
<1> HIDE DEF v, w
<1> QED
  BY <1>1, <1>4

(* The heights of a rank that is saved. *)
LEMMA FinishedHeights ==
  ASSUME NEW r, NodeTree(r), NodesTimed(r), Sound(nodes[r]), IsFiniteSet(DOMAIN nodes[r]),
         NON_EXISTENT_NODE_INDEX \notin DOMAIN nodes[r]
  PROVE  \A n \in DOMAIN nodes[r] : n >= 0 => Heights(nodes[r])[n] = TallNode(r, n)
<1>1. PICK v : /\ v = [n \in DOMAIN nodes[r] |-> HeightStep(nodes[r], v, n)]
               /\ \A n \in DOMAIN nodes[r] : n >= 0 => v[n] = TallNode(r, n)
  BY TallFunction
<1>2. Layered(nodes[r], AllRootIndices(nodes[r]), DOMAIN nodes[r], Dist(r), 0)
  BY AllLayered
<1>3. \A n \in DOMAIN nodes[r] : Heights(nodes[r])[n] = v[n]
  BY <1>1, <1>2, HeightsAre
<1> QED
  BY <1>1, <1>3

(* The heights do not look at depths. *)
LEMMA HeightsOfSaved ==
  ASSUME NEW r, NodeTree(r), NodesTimed(r), Sound(nodes[r]), IsFiniteSet(DOMAIN nodes[r]),
         NON_EXISTENT_NODE_INDEX \notin DOMAIN nodes[r]
  PROVE  \A n \in DOMAIN nodes[r] : n >= 0 => Heights(WithDepth(nodes[r]))[n] = TallNode(r, n)
<1> DEFINE saved == WithDepth(nodes[r])
<1>1. PICK v : /\ v = [n \in DOMAIN nodes[r] |-> HeightStep(nodes[r], v, n)]
               /\ \A n \in DOMAIN nodes[r] : n >= 0 => v[n] = TallNode(r, n)
  BY TallFunction
<1>2. Layered(nodes[r], AllRootIndices(nodes[r]), DOMAIN nodes[r], Dist(r), 0)
  BY AllLayered
<1>3. /\ DOMAIN saved = DOMAIN nodes[r]
      /\ \A n \in DOMAIN nodes[r] : /\ saved[n].parent = nodes[r][n].parent
                                     /\ saved[n].device = nodes[r][n].device
                                     /\ saved[n].children = nodes[r][n].children
  BY DEF WithDepth, Node
<1>4. Sound(saved)
  BY WithDepthSound
<1> HIDE DEF saved
<1>5. AllRootIndices(saved) = AllRootIndices(nodes[r])
  BY <1>3 DEF AllRootIndices
<1>6. \A n \in DOMAIN nodes[r] : n >= 0 => nodes[r][n].parent \in DOMAIN nodes[r]
  BY DEF Sound, Agree
<1>7. Layered(saved, AllRootIndices(saved), DOMAIN saved, Dist(r), 0)
  BY <1>2, <1>3, <1>5, <1>6 DEF Layered, Distances
<1>8. \A n \in DOMAIN nodes[r] : HeightStep(saved, v, n) = HeightStep(nodes[r], v, n)
  BY <1>3 DEF HeightStep
<1>9. v = [n \in DOMAIN saved |-> HeightStep(saved, v, n)]
  BY <1>1, <1>3, <1>8
<1>10. IsFiniteSet(DOMAIN saved)
  BY <1>3
<1>11. \A n \in DOMAIN saved : Heights(saved)[n] = v[n]
  BY <1>4, <1>7, <1>9, <1>10, HeightsAre
<1> QED
  BY <1>1, <1>3, <1>11 DEF saved

(* The invariants give the property of the depths and heights.             *)
LEMMA DepthsHold ==
  ASSUME AnnotationsOnHost, HostsNested, ThreadsApart, RootsCounted
  PROVE  Inv /\ PathsInv /\ TimeInv => DepthsByTime
<1> SUFFICES ASSUME Inv, PathsInv, TimeInv, pc = "ready", NEW r \in Ranks, NEW e \in Host(r)
             PROVE  /\ columns[r][e.index].depth = Cardinality(Above(r, e))
                    /\ columns[r][e.index].height = 1 + Max(Rise(r, e))
                    /\ \A k \in Launched(r, e) : /\ columns[r][k.index].depth = Cardinality(Above(r, e)) + 1
                                                 /\ columns[r][k.index].height = 0
  BY DEF DepthsByTime, Finished, Rise, On
<1>1. /\ Rows(trace[r]) /\ SavedRank(r) /\ Sound(nodes[r]) /\ NodesTimed(r)
      /\ \A x \in trace[r] : x.index \in DOMAIN nodes[r] =>
           columns[r][x.index] = SavedRow(trace[r], nodes[r], x.index)
  BY FinishedRank
<1>2. NodeTree(r) /\ IsFiniteSet(DOMAIN nodes[r]) /\ NON_EXISTENT_NODE_INDEX \notin DOMAIN nodes[r]
  BY FinishedTree
<1>3. \A x \in trace[r] : x.index \in DOMAIN nodes[r] =>
        /\ columns[r][x.index].depth = nodes[r][x.index].depth
        /\ columns[r][x.index].height = Heights(nodes[r])[x.index]
  BY <1>1, SavedParent
<1>4. \A n \in DOMAIN nodes[r] : nodes[r][n].depth = Dist(r)[n] - 1
  BY <1>1, <1>2, FinishedDepths
<1>5. \A n \in DOMAIN nodes[r] : n >= 0 => Heights(nodes[r])[n] = TallNode(r, n)
  BY <1>1, <1>2, FinishedHeights
<1>6. /\ e \in trace[r] /\ e.index \in DOMAIN nodes[r] /\ e.index >= 0 /\ nodes[r][e.index].device = "CPU"
      /\ (CHOOSE x \in Host(r) : x.index = e.index) = e
      /\ \A k \in Launched(r, e) : /\ k \in trace[r] /\ k.index \in DOMAIN nodes[r] /\ k.index \in Nat
                                   /\ nodes[r][k.index].device = "GPU"
  BY <1>1, <1>2 DEF Host, Launched, NodesTimed, NodeTree, Rows
<1>7. /\ TallNode(r, e.index) = 1 + Max(Rise(r, e))
      /\ \A k \in Launched(r, e) : TallNode(r, k.index) = 0
  BY <1>6 DEF TallNode
<1> DEFINE depth == [n \in DOMAIN nodes[r] |-> nodes[r][n].depth]
<1>8. \A n \in DOMAIN nodes[r] : depth[n] = Dist(r)[n] - 1 /\ depth[n] = nodes[r][n].depth
  BY <1>4
<1>9. PICK d : d = depth
  OBVIOUS
<1> HIDE DEF depth
<1>10. \A n \in DOMAIN nodes[r] : d[n] = Dist(r)[n] - 1
  BY <1>8, <1>9
<1>11. /\ d[e.index] = Cardinality(Above(r, e))
       /\ \A k \in Launched(r, e) : k.index \in Nat => d[k.index] = Cardinality(Above(r, e)) + 1
  BY <1>1, <1>2, <1>10, DepthsAreTimed
<1> QED
  BY <1>3, <1>5, <1>6, <1>7, <1>8, <1>9, <1>11

(* For the first graph of a trace the depth of an event counts what the    *)
(* clock gives as above it, and its height the longest way down to a leaf: *)
(* the two traversals from the roots (trace_call_stack.py:631-690) reach   *)
(* every node, once the stacks of all threads are connected.               *)
THEOREM DepthsFollowTime ==
  ASSUME AnnotationsOnHost, HostsNested, ThreadsApart, SortSorts, RootsCounted
  PROVE  Spec /\ []RootsApart => [](graphs = 1 => DepthsByTime)
  BY Invariance, Paths, TimedFirst, DepthsHold, PTL

-----------------------------------------------------------------------------
(* Kernels                                                                 *)

(* The sum of a column over rows, and over indices of rows. *)
DurOf(S) == MapThenSumSet(LAMBDA k : k.dur, S)
DurOfRows(rows, S) == MapThenSumSet(LAMBDA k : RowOf(rows, k).dur, S)

(* The sum of the durations, as the sum of a function.                     *)
LEMMA DurOfIs ==
  ASSUME NEW T, IsFiniteSet(T)
  PROVE  DurOf(T) = SumFunctionOnSet([k \in T |-> k.dur], T)
<1> DEFINE f == [k \in T |-> k.dur]
           g == CHOOSE h : h = [s \in SUBSET T |-> IF s = {} THEN 0
                                 ELSE (CHOOSE x \in s : TRUE).dur + h[s \ {CHOOSE x \in s : TRUE}]]
<1>1. DurOf(T) = g[T]
  BY DEF DurOf, MapThenSumSet, MapThenFoldSet
<1>2. PICK h : Sums(h, f, SUBSET T) /\ SumFunctionOnSet(f, T) = h[T]
  BY SumIsSums
<1>3. \A s \in SUBSET T : s # {} => f[CHOOSE x \in s : TRUE] = (CHOOSE x \in s : TRUE).dur
  OBVIOUS
<1> HIDE DEF f
<1>4. h = [s \in SUBSET T |-> IF s = {} THEN 0 ELSE f[CHOOSE x \in s : TRUE] + h[s \ {CHOOSE x \in s : TRUE}]]
  BY <1>2 DEF Sums, Chosen
<1>5. h = [s \in SUBSET T |-> IF s = {} THEN 0
             ELSE (CHOOSE x \in s : TRUE).dur + h[s \ {CHOOSE x \in s : TRUE}]]
  BY <1>3, <1>4
<1>6. g = [s \in SUBSET T |-> IF s = {} THEN 0
             ELSE (CHOOSE x \in s : TRUE).dur + g[s \ {CHOOSE x \in s : TRUE}]]
  BY <1>5
<1> HIDE DEF g
<1>7. g = [s \in SUBSET T |-> IF s = {} THEN 0 ELSE f[CHOOSE x \in s : TRUE] + g[s \ {CHOOSE x \in s : TRUE}]]
  BY <1>3, <1>6
<1>8. Sums(g, f, SUBSET T)
  BY <1>7 DEF Sums, Chosen
<1>9. g[T] = h[T]
  <2>1. T \in SUBSET T
    OBVIOUS
  <2> QED
    BY <1>2, <1>8, <2>1, SumsAgree
<1> QED
  BY <1>1, <1>2, <1>9 DEF f

(* The sum of the durations over indices, as the sum of a function.        *)
LEMMA DurOfRowsIs ==
  ASSUME NEW rows, NEW T, IsFiniteSet(T)
  PROVE  DurOfRows(rows, T) = SumFunctionOnSet([k \in T |-> RowOf(rows, k).dur], T)
<1> DEFINE f == [k \in T |-> RowOf(rows, k).dur]
           g == CHOOSE h : h = [s \in SUBSET T |-> IF s = {} THEN 0
                                 ELSE RowOf(rows, CHOOSE x \in s : TRUE).dur + h[s \ {CHOOSE x \in s : TRUE}]]
<1>1. DurOfRows(rows, T) = g[T]
  BY DEF DurOfRows, MapThenSumSet, MapThenFoldSet
<1>2. PICK h : Sums(h, f, SUBSET T) /\ SumFunctionOnSet(f, T) = h[T]
  BY SumIsSums
<1>3. \A s \in SUBSET T : s # {} => f[CHOOSE x \in s : TRUE] = RowOf(rows, CHOOSE x \in s : TRUE).dur
  OBVIOUS
<1> HIDE DEF f
<1>4. h = [s \in SUBSET T |-> IF s = {} THEN 0 ELSE f[CHOOSE x \in s : TRUE] + h[s \ {CHOOSE x \in s : TRUE}]]
  BY <1>2 DEF Sums, Chosen
<1>5. h = [s \in SUBSET T |-> IF s = {} THEN 0
             ELSE RowOf(rows, CHOOSE x \in s : TRUE).dur + h[s \ {CHOOSE x \in s : TRUE}]]
  BY <1>3, <1>4
<1>6. g = [s \in SUBSET T |-> IF s = {} THEN 0
             ELSE RowOf(rows, CHOOSE x \in s : TRUE).dur + g[s \ {CHOOSE x \in s : TRUE}]]
  BY <1>5
<1> HIDE DEF g
<1>7. g = [s \in SUBSET T |-> IF s = {} THEN 0 ELSE f[CHOOSE x \in s : TRUE] + g[s \ {CHOOSE x \in s : TRUE}]]
  BY <1>3, <1>6
<1>8. Sums(g, f, SUBSET T)
  BY <1>7 DEF Sums, Chosen
<1>9. g[T] = h[T]
  <2>1. T \in SUBSET T
    OBVIOUS
  <2> QED
    BY <1>2, <1>8, <2>1, SumsAgree
<1> QED
  BY <1>1, <1>2, <1>9 DEF f

(* The sum over elements that stand each for another. *)
LEMMA SumOfImage ==
  ASSUME NEW T, IsFiniteSet(T), NEW f, \A x, y \in T : f[x] = f[y] => x = y,
         NEW g, NEW h, \A x \in T : g[x] \in Int /\ h[f[x]] = g[x]
  PROVE  SumFunctionOnSet(h, {f[x] : x \in T}) = SumFunctionOnSet(g, T)
<1> DEFINE C == {S \in SUBSET T : SumFunctionOnSet(h, {f[x] : x \in S}) = SumFunctionOnSet(g, S)}
<1>1. {} \in C
  <2>1. {f[x] : x \in {}} = {}
    OBVIOUS
  <2> QED
    BY <2>1, FS_EmptySet, SumRecursion
<1>2. ASSUME NEW S \in SUBSET T, NEW x \in T \ S, S \in C PROVE S \cup {x} \in C
  <2> DEFINE I == {f[y] : y \in S}
  <2>1. IsFiniteSet(S) /\ IsFiniteSet(I)
    BY FS_Subset, Image
  <2>2. {f[y] : y \in S \cup {x}} = I \cup {f[x]} /\ f[x] \notin I
    OBVIOUS
  <2>3. \A y \in I \cup {f[x]} : h[y] \in Int
    OBVIOUS
  <2>4. SumFunctionOnSet(h, I) = SumFunctionOnSet(g, S)
    BY <1>2
  <2> HIDE DEF I
  <2>5. PICK z : z = f[x]
    OBVIOUS
  <2>6. SumFunctionOnSet(h, I \cup {z}) = h[z] + SumFunctionOnSet(h, I)
    BY <2>1, <2>2, <2>3, <2>5, SumWith
  <2>7. SumFunctionOnSet(g, S \cup {x}) = g[x] + SumFunctionOnSet(g, S)
    BY <2>1, SumWith
  <2> QED
    BY <2>2, <2>4, <2>5, <2>6, <2>7
<1>3. T \in C
  <2> HIDE DEF C
  <2> QED
    BY <1>1, <1>2, FiniteSubsets
<1> QED
  BY <1>3

(* The minimum is the member that bounds the others.                       *)
LEMMA MinIs ==
  ASSUME NEW S, S \subseteq Int, NEW m \in S, \A t \in S : m <= t
  PROVE  Min(S) = m
<1>1. Min(S) \in S /\ \A t \in S : Min(S) <= t
  BY DEF Min
<1>2. PICK x : x = Min(S)
  OBVIOUS
<1>3. x \in Int /\ m \in Int /\ x <= m /\ m <= x
  BY <1>1, <1>2
<1> QED
  BY <1>2, <1>3

(* A bound that is not below, or not above, changes nothing. *)
LEMMA MinWithBound ==
  ASSUME NEW S, IsFiniteSet(S), S \subseteq Int, S # {}, NEW b \in Int, \A t \in S : t <= b
  PROVE  Min({b} \cup S) = Min(S)
<1>1. PICK m : m = Min(S)
  OBVIOUS
<1>2. m \in S /\ \A t \in S : m <= t
  BY <1>1, LeastInteger
<1>3. {b} \cup S \subseteq Int /\ m \in {b} \cup S /\ \A t \in {b} \cup S : m <= t
  BY <1>2
<1>4. PICK U : U = {b} \cup S
  OBVIOUS
<1>5. Min(U) = m
  BY <1>3, <1>4, MinIs
<1> QED
  BY <1>1, <1>4, <1>5

(* A lower bound does not change the maximum.                              *)
LEMMA MaxWithBound ==
  ASSUME NEW S, IsFiniteSet(S), S \subseteq Int, S # {}, NEW b \in Int, \A t \in S : b <= t
  PROVE  Max({b} \cup S) = Max(S)
<1>1. PICK m : m = Max(S)
  OBVIOUS
<1>2. m \in S /\ \A t \in S : t <= m
  BY <1>1, Greatest
<1>3. {b} \cup S \subseteq Int /\ m \in {b} \cup S /\ \A t \in {b} \cup S : t <= m
  BY <1>2
<1>4. PICK U : U = {b} \cup S
  OBVIOUS
<1>5. Max(U) = m
  BY <1>3, <1>4, MaxIs
<1> QED
  BY <1>1, <1>4, <1>5

(* The end of an event is where its duration ends. *)
EndsMeasured ==
  \A frames \in Traces : \A r \in Ranks : \A e \in frames[r] : e.end = e.ts + e.dur

Measured(rows) == \A e \in rows : e.ts \in Nat /\ e.end = e.ts + e.dur

(* The columns of the kernels K, which are found by their indices.         *)
InfoOf(info, K) ==
  /\ info.num = Cardinality(K) /\ info.num \in Nat /\ (info.num = 0 <=> K = {})
  /\ info.sum = DurOf(K)
  /\ K # {} => info.first = Min({k.ts : k \in K}) /\ info.last = Max({k.end : k \in K})

(* What is computed over indices of kernels is what the kernels are.       *)
LEMMA KernelsOfRowAre ==
  ASSUME NEW rows, Rows(rows), Measured(rows), NEW K, K \subseteq rows, NEW I, I = {k.index : k \in K},
         NEW saved, NEW n, NEW info, info = KernelsOfRow(rows, saved, n, I)
  PROVE  InfoOf(info, K)
<1> DEFINE index == [k \in K |-> k.index]
           ts == [k \in K |-> k.ts]
           end == [k \in K |-> k.end]
           dur == [k \in K |-> k.dur]
           all == {e.ts : e \in rows}
           top == Max(all)
<1>1. IsFiniteSet(rows) /\ IsFiniteSet(K)
  BY FS_Subset DEF Rows, OnHost
<1>2. \A e \in rows : e.index \in Nat /\ e.ts \in Nat /\ e.dur \in Nat /\ e.end \in Nat
  BY DEF Rows, Events, Measured
<1>3. \A k \in K : RowOf(rows, k.index) = k
  BY DEF Rows, Events, RowOf
<1>4. /\ I = {index[k] : k \in K} /\ {k.ts : k \in K} = {ts[k] : k \in K}
      /\ {k.end : k \in K} = {end[k] : k \in K}
  OBVIOUS
<1>5. \A k, l \in K : index[k] = index[l] => k = l
  BY DEF Rows, Events
<1>6. /\ IsFiniteSet({ts[k] : k \in K}) /\ IsFiniteSet({end[k] : k \in K}) /\ IsFiniteSet(I)
      /\ Cardinality(I) = Cardinality(K)
  <2> HIDE DEF index, ts, end
  <2>1. IsFiniteSet({ts[k] : k \in K})
    BY <1>1, Image
  <2>2. IsFiniteSet({end[k] : k \in K})
    BY <1>1, Image
  <2>3. IsFiniteSet({index[k] : k \in K}) /\ Cardinality({index[k] : k \in K}) = Cardinality(K)
    BY <1>1, <1>5, Image
  <2> QED
    BY <1>4, <2>1, <2>2, <2>3
<1>7. /\ {RowOf(rows, k).ts : k \in I} = {ts[k] : k \in K}
      /\ {RowOf(rows, k).end : k \in I} = {end[k] : k \in K}
  BY <1>3
<1>8. Cardinality(K) \in Nat /\ (Cardinality(K) = 0 <=> K = {})
  BY <1>1, FS_CardinalityType, FS_EmptySet
<1>9. info.num = Cardinality(I) /\ info.sum = DurOfRows(rows, I)
  BY DEF KernelsOfRow, DurOfRows
<1>10. info.first = Min({2 * top} \cup {RowOf(rows, k).ts : k \in I})
  BY DEF KernelsOfRow
<1>11. info.last = Max({-1} \cup {RowOf(rows, k).end : k \in I})
  BY DEF KernelsOfRow
<1>12. DurOfRows(rows, I) = DurOf(K)
  <2> DEFINE g == [k \in K |-> k.dur]
             h == [i \in I |-> RowOf(rows, i).dur]
  <2>1. DurOf(K) = SumFunctionOnSet(g, K)
    BY <1>1, DurOfIs
  <2>2. DurOfRows(rows, I) = SumFunctionOnSet(h, I)
    BY <1>6, DurOfRowsIs
  <2>3. \A k \in K : g[k] \in Int /\ h[index[k]] = g[k]
    BY <1>2, <1>3
  <2> HIDE DEF g, h, index
  <2>4. SumFunctionOnSet(h, {index[k] : k \in K}) = SumFunctionOnSet(g, K)
    BY <1>1, <1>5, <2>3, SumOfImage
  <2> QED
    BY <1>4, <2>1, <2>2, <2>4
<1>13. ASSUME K # {} PROVE info.first = Min({k.ts : k \in K}) /\ info.last = Max({k.end : k \in K})
  <2> DEFINE S == {ts[k] : k \in K}
             E == {end[k] : k \in K}
  <2>1. S \subseteq Nat /\ S # {} /\ E \subseteq Nat /\ E # {} /\ S \subseteq all
    BY <1>2, <1>13
  <2>2. top \in Nat /\ \A t \in all : t <= top
    <3> DEFINE start == [e \in rows |-> e.ts]
    <3>1. all = {start[e] : e \in rows} /\ all \subseteq Nat /\ all # {}
      BY <1>2, <2>1
    <3>2. IsFiniteSet({start[e] : e \in rows})
      <4> HIDE DEF start
      <4> QED
        BY <1>1, Image
    <3>3. IsFiniteSet(all) /\ all \subseteq Int
      <4> HIDE DEF start, all
      <4> QED
        BY <3>1, <3>2
    <3> HIDE DEF all
    <3> QED
      BY <3>1, <3>3, Greatest
  <2> HIDE DEF S, E, top, all
  <2>3. 2 * top \in Int /\ S \subseteq Int /\ \A t \in S : t <= 2 * top
    BY <2>1, <2>2
  <2>4. PICK b : b = 2 * top
    OBVIOUS
  <2>5. Min({b} \cup S) = Min(S)
    BY <1>6, <2>1, <2>3, <2>4, MinWithBound DEF S
  <2>6. PICK a : a = -1
    OBVIOUS
  <2>7. a \in Int /\ E \subseteq Int /\ \A t \in E : a <= t
    BY <2>1, <2>6
  <2>8. Max({a} \cup E) = Max(E)
    BY <1>6, <2>1, <2>7, MaxWithBound DEF E
  <2> QED
    BY <1>4, <1>7, <1>10, <1>11, <2>4, <2>5, <2>6, <2>8 DEF S, E
<1> QED
  BY <1>6, <1>8, <1>9, <1>12, <1>13 DEF InfoOf

(* The kernels found below the node of an event are those launched while   *)
(* it was on the stack.                                                    *)
LEMMA KernelsAre ==
  ASSUME NEW r, Rows(trace[r]), NodeTree(r), NodesTimed(r), Sound(nodes[r]), IsFiniteSet(DOMAIN nodes[r]),
         NEW e \in Host(r)
  PROVE  /\ KernelsUnder(nodes[r], e.index) = {k.index : k \in KernelsBelow(r, e)}
         /\ KernelsBelow(r, e) \subseteq trace[r]
<1> DEFINE map == nodes[r]
<1>1. Reached(map, {e.index}) = BelowNode(r, e)
  <2>1. Layered(map, {e.index}, BelowNode(r, e), Dist(r), Cardinality(Above(r, e)) + 1)
    BY BelowLayered
  <2>2. PICK F, B, d, b : /\ F = {e.index} /\ B = BelowNode(r, e) /\ d = Dist(r)
                          /\ b = Cardinality(Above(r, e)) + 1
    OBVIOUS
  <2>3. Layered(map, F, B, d, b)
    BY <2>1, <2>2
  <2>4. Reached(map, F) = B
    BY <2>3, LevelsAre
  <2> QED
    BY <2>2, <2>4
<1>2. ASSUME NEW x \in Host(r), NEW k \in Launched(r, x)
      PROVE  /\ k \in trace[r] /\ k.index \in DOMAIN map /\ k.index >= 0 /\ map[k.index].device = "GPU"
             /\ k.index # e.index /\ NodeAbove(r, k.index) = Above(r, x) \cup {x}
  <2>1. k \in trace[r] /\ k.index \in Nat
    BY DEF Launched, Rows
  <2>2. k.index \in DOMAIN map /\ map[k.index].device = "GPU" /\ map[k.index].parent = x.index
    BY DEF NodesTimed
  <2>3. map[e.index].device = "CPU"
    BY DEF NodesTimed
  <2>4. x.index \in Nat
    BY DEF NodeTree
  <2>5. PICK q \in Host(r) : map[k.index].parent = q.index /\ NodeAbove(r, k.index) = Above(r, q) \cup {q}
    BY <2>1, <2>2, <2>4 DEF NodeTree, ParentStep
  <2>6. q = x
    BY <2>2, <2>5 DEF NodeTree
  <2> QED
    BY <2>1, <2>2, <2>3, <2>5, <2>6
<1>3. KernelsBelow(r, e) = UNION {Launched(r, x) : x \in On(r, e)}
  BY DEF KernelsBelow, On
<1>4. ASSUME NEW m \in KernelsUnder(map, e.index) PROVE \E k \in KernelsBelow(r, e) : m = k.index
  <2>1. m \in BelowNode(r, e) /\ map[m].device = "GPU" /\ m \in DOMAIN map /\ m >= 0
    BY <1>1 DEF KernelsUnder, BelowNode
  <2>2. PICK x \in Host(r) : m = x.index \/ \E k \in Launched(r, x) : m = k.index
    BY <2>1 DEF NodesTimed
  <2>3. PICK k \in Launched(r, x) : m = k.index
    BY <2>1, <2>2 DEF NodesTimed
  <2>4. e \in Above(r, x) \cup {x}
    BY <1>2, <2>1, <2>3 DEF BelowNode
  <2>5. x \in On(r, e)
    BY <2>4 DEF On
  <2> QED
    BY <1>3, <2>3, <2>5
<1>5. ASSUME NEW k \in KernelsBelow(r, e) PROVE k.index \in KernelsUnder(map, e.index) /\ k \in trace[r]
  <2>1. PICK x \in On(r, e) : k \in Launched(r, x)
    BY <1>3
  <2>2. x \in Host(r) /\ (x = e \/ e \in Above(r, x))
    BY <2>1 DEF On
  <2>3. k.index \in BelowNode(r, e)
    BY <1>2, <2>1, <2>2 DEF BelowNode
  <2> QED
    BY <1>1, <1>2, <2>1, <2>2, <2>3 DEF KernelsUnder
<1> QED
  BY <1>4, <1>5

(* The columns of kernels that are saved are those computed, or the        *)
(* defaults without a kernel.                                              *)
LEMMA SavedKernels ==
  ASSUME NEW rows, NEW saved, NEW i \in Reached(saved, AllRootIndices(saved)),
         NEW info, info = KernelsOfRow(rows, saved, i, KernelsUnder(saved, i)), info.num \in Nat,
         NEW c, c = SavedRow(rows, saved, i)
  PROVE  /\ info.num # 0 => /\ c.num_kernels = info.num /\ c.kernel_dur_sum = info.sum
                            /\ c.first_kernel_start = info.first /\ c.last_kernel_end = info.last
         /\ info.num = 0 => /\ c.num_kernels = 0 /\ c.kernel_dur_sum = 0
                            /\ c.first_kernel_start = -1 /\ c.last_kernel_end = -1
<1>1. c = IF info.num > 0
          THEN [parent |-> saved[i].parent, depth |-> saved[i].depth, height |-> Heights(saved)[i],
                num_kernels |-> info.num, kernel_dur_sum |-> info.sum, kernel_span |-> info.span,
                first_kernel_start |-> info.first, last_kernel_end |-> info.last]
          ELSE [DefaultColumns EXCEPT !.parent = saved[i].parent, !.depth = saved[i].depth,
                                      !.height = Heights(saved)[i]]
  BY DEF SavedRow
<1> QED
  BY <1>1 DEF DefaultColumns

(* The invariants give the property of the kernels.                        *)
LEMMA KernelsHold ==
  ASSUME AnnotationsOnHost, HostsNested, ThreadsApart, RootsCounted, EndsMeasured
  PROVE  Inv /\ PathsInv /\ TimeInv => KernelsByTime
<1> SUFFICES ASSUME Inv, PathsInv, TimeInv, pc = "ready", NEW r \in Ranks, NEW e \in Host(r)
             PROVE  LET kernels == KernelsBelow(r, e)
                        c == columns[r][e.index]
                    IN /\ c.num_kernels = Cardinality(kernels)
                       /\ c.kernel_dur_sum = DurOf(kernels)
                       /\ c.first_kernel_start = IF kernels = {} THEN -1 ELSE Min({k.ts : k \in kernels})
                       /\ c.last_kernel_end = IF kernels = {} THEN -1 ELSE Max({k.end : k \in kernels})
  BY DEF KernelsByTime, Finished, DurOf
<1>1. /\ Rows(trace[r]) /\ SavedRank(r) /\ Sound(nodes[r]) /\ NodesTimed(r)
      /\ \A x \in trace[r] : x.index \in DOMAIN nodes[r] =>
           columns[r][x.index] = SavedRow(trace[r], nodes[r], x.index)
  BY FinishedRank
<1>2. NodeTree(r) /\ IsFiniteSet(DOMAIN nodes[r]) /\ NON_EXISTENT_NODE_INDEX \notin DOMAIN nodes[r]
  BY FinishedTree
<1>3. PICK rows, saved, n, K, I, c : /\ rows = trace[r] /\ saved = nodes[r] /\ n = e.index /\ K = KernelsBelow(r, e)
                                     /\ I = KernelsUnder(saved, n) /\ c = columns[r][e.index]
  OBVIOUS
<1>4. n \in Reached(saved, AllRootIndices(saved)) /\ c = SavedRow(rows, saved, n)
  <2>1. Layered(nodes[r], AllRootIndices(nodes[r]), DOMAIN nodes[r], Dist(r), 0)
    BY <1>1, <1>2, AllLayered
  <2>2. PICK d : d = Dist(r)
    OBVIOUS
  <2>3. Layered(saved, AllRootIndices(saved), DOMAIN saved, d, 0) /\ Sound(saved) /\ IsFiniteSet(DOMAIN saved)
    BY <1>1, <1>2, <1>3, <2>1, <2>2
  <2>4. Reached(saved, AllRootIndices(saved)) = DOMAIN saved
    BY <2>3, LevelsAre
  <2>5. e \in trace[r] /\ e.index \in DOMAIN nodes[r]
    BY <1>2 DEF NodeTree, Host
  <2> QED
    BY <1>1, <1>3, <2>4, <2>5
<1>5. I = {k.index : k \in K} /\ K \subseteq rows
  BY <1>1, <1>2, <1>3, KernelsAre
<1>6. Rows(rows) /\ Measured(rows)
  BY <1>1, <1>3, TracesAssumption DEF EndsMeasured, Measured, Inv, RankBegun
<1>7. PICK info : info = KernelsOfRow(rows, saved, n, I)
  OBVIOUS
<1>8. /\ info.num = Cardinality(K) /\ info.num \in Nat /\ (info.num = 0 <=> K = {})
      /\ info.sum = DurOf(K)
      /\ K # {} => info.first = Min({k.ts : k \in K}) /\ info.last = Max({k.end : k \in K})
  <2>1. InfoOf(info, K)
    BY <1>5, <1>6, <1>7, KernelsOfRowAre
  <2> QED
    BY <2>1 DEF InfoOf
<1>9. DurOf({}) = 0
  <2>1. PICK T : T = {}
    OBVIOUS
  <2>2. DurOf(T) = SumFunctionOnSet([k \in T |-> k.dur], T)
    BY <2>1, FS_EmptySet, DurOfIs
  <2> QED
    BY <2>1, <2>2, FS_EmptySet, SumRecursion
<1>10. /\ info.num # 0 => /\ c.num_kernels = info.num /\ c.kernel_dur_sum = info.sum
                          /\ c.first_kernel_start = info.first /\ c.last_kernel_end = info.last
       /\ info.num = 0 => /\ c.num_kernels = 0 /\ c.kernel_dur_sum = 0
                          /\ c.first_kernel_start = -1 /\ c.last_kernel_end = -1
  BY <1>3, <1>4, <1>7, <1>8, SavedKernels
<1>11. /\ c.num_kernels = Cardinality(K) /\ c.kernel_dur_sum = DurOf(K)
       /\ c.first_kernel_start = IF K = {} THEN -1 ELSE Min({k.ts : k \in K})
       /\ c.last_kernel_end = IF K = {} THEN -1 ELSE Max({k.end : k \in K})
  BY <1>8, <1>9, <1>10
<1> QED
  BY <1>3, <1>11

(* For the first graph of a trace the kernels counted for an event, their  *)
(* durations summed and the times of the first and the last of them are    *)
(* those of the kernels launched while it was on the stack: what is        *)
(* gathered from the children (trace_call_stack.py:769-868) counts none    *)
(* twice and forgets none.                                                 *)
THEOREM KernelsFollowTime ==
  ASSUME AnnotationsOnHost, HostsNested, ThreadsApart, SortSorts, RootsCounted, EndsMeasured
  PROVE  Spec /\ []RootsApart => [](graphs = 1 => KernelsByTime)
  BY Invariance, Paths, TimedFirst, KernelsHold, PTL

-----------------------------------------------------------------------------
(* Rows that are no node                                                   *)

(* A row that is no node keeps the parent that the columns begin with.     *)
Unlisted(cols, map) == \A i \in DOMAIN cols \ DOMAIN map : cols[i].parent = -1
UnlistedInv ==
  /\ UnderWay => \A i \in DOMAIN columns[rank] : columns[rank][i].parent = -1
  /\ \A r \in Ranks : Built(r) => Unlisted(columns[r], nodes[r])

(* Initially there are no columns.                                         *)
LEMMA UnlistedInit == Init => UnlistedInv
  BY DEF Init, UnlistedInv, UnderWay, Built

(* Saving leaves the parent of a row that is no node alone.                *)
LEMMA UnlistedSaved ==
  ASSUME NEW r, NEW saved, \A i \in DOMAIN columns[r] : columns[r][i].parent = -1
  PROVE  Unlisted(Normalized(SavedColumns(r, saved)), saved)
<1> SUFFICES ASSUME NEW i \in DOMAIN Normalized(SavedColumns(r, saved)) \ DOMAIN saved
             PROVE  Normalized(SavedColumns(r, saved))[i].parent = -1
  BY DEF Unlisted
<1>1. i \in DOMAIN columns[r] /\ i \in DOMAIN SavedColumns(r, saved)
  BY DEF Normalized, SavedColumns
<1>2. SavedColumns(r, saved)[i] = columns[r][i]
  BY <1>1 DEF SavedColumns
<1>3. PICK cols : cols = SavedColumns(r, saved)
  OBVIOUS
<1>4. Normalized(cols)[i].parent = cols[i].parent
  BY <1>1, <1>3 DEF Normalized, DefaultColumns
<1> QED
  BY <1>1, <1>2, <1>3, <1>4

(* Every step keeps the parent of a row that is no node.                   *)
LEMMA UnlistedStep ==
  ASSUME HostsNested, ThreadsApart
  PROVE  Inv /\ TimeInv /\ UnlistedInv /\ [Next]_vars => UnlistedInv'
<1> SUFFICES ASSUME Inv, TimeInv, UnlistedInv, [Next]_vars PROVE UnlistedInv'
  OBVIOUS
<1>1. CASE UNCHANGED vars \/ Query
  <2>1. UNCHANGED <<trace, buildVars>>
    BY <1>1 DEF vars, Query, GetGpuKernels, GetNodeAttributes, GetCsgOfNode, GetStackOfNode
  <2> QED
    BY <2>1 DEF buildVars, UnlistedInv, UnderWay, Unlisted, Built
<1>2. ASSUME NEW r \in Ranks, Built(r),
             nodes'[r] = nodes[r], columns'[r] = columns[r]
      PROVE  Unlisted(columns'[r], nodes'[r])
  BY <1>2 DEF UnlistedInv
<1>4. ASSUME NEW r \in Ranks, Built(r) PROVE r \in DOMAIN nodes /\ r \in DOMAIN columns
  BY <1>4 DEF TimeInv, SavedTimed, SavedRank
<1>5. CASE StartRank
  <2>1. /\ pc = "rank" /\ pc' = "thread" /\ todo' = todo \ {rank'} /\ graphs' = graphs
        /\ nodes' = Put(nodes, rank', [n \in {} |-> {}])
        /\ columns' = Put(columns, rank', [i \in {e.index : e \in trace[rank']} |-> DefaultColumns])
    BY <1>5 DEF StartRank
  <2> DEFINE default == [i \in {e.index : e \in trace[rank']} |-> DefaultColumns]
             none == [n \in {} |-> {}]
  <2>2. \A i \in DOMAIN default : default[i].parent = -1
    BY DEF DefaultColumns
  <2>3. columns' = Put(columns, rank', default) /\ nodes' = Put(nodes, rank', none)
    BY <2>1
  <2> HIDE DEF default, none
  <2>4. columns'[rank'] = default
    BY <2>3 DEF Put
  <2>5. ASSUME NEW r \in Ranks, Built(r)' PROVE Unlisted(columns'[r], nodes'[r])
    <3>1. Built(r) /\ r # rank'
      BY <2>1, <2>5 DEF Built
    <3>2. nodes'[r] = nodes[r] /\ columns'[r] = columns[r]
      BY <1>4, <2>3, <2>5, <3>1 DEF Put
    <3> QED
      BY <1>2, <2>5, <3>1, <3>2
  <2> QED
    BY <2>1, <2>2, <2>4, <2>5 DEF UnlistedInv, UnderWay
<1>6. CASE StartThread \/ OpenEvent \/ CloseEvent \/ LinkKernel \/ FinishThread \/ StartConnect \/ LinkAnnotation
  <2>1. /\ UnderWay /\ pc' \notin {"rank", "ready"}
        /\ UNCHANGED <<todo, rank, columns, graphs>>
        /\ nodes' = nodes \/ \E N : nodes' = Put(nodes, rank, N)
    BY <1>6 DEF UnderWay, StartThread, OpenEvent, CloseEvent, LinkKernel, FinishThread, StartConnect, LinkAnnotation, threadVars
  <2>2. ASSUME NEW r \in Ranks, Built(r)' PROVE Unlisted(columns'[r], nodes'[r])
    <3>1. Built(r) /\ r # rank
      BY <2>1, <2>2 DEF Built
    <3>2. nodes'[r] = nodes[r]
      BY <1>4, <2>1, <2>2, <3>1 DEF Put
    <3> QED
      BY <1>2, <2>1, <2>2, <3>1, <3>2
  <2> QED
    BY <2>1, <2>2 DEF UnlistedInv, UnderWay
<1>7. CASE SaveStacks
  <2> DEFINE saved == WithDepth(nodes[rank])
             with_saved == Put(columns, rank, SavedColumns(rank, saved))
             normalized == Normalized(with_saved[rank])
  <2>1. /\ pc = "connect" /\ pc' \in {"rank", "ready"} /\ UNCHANGED <<todo, rank, graphs>>
        /\ stacks # << >> /\ stacks[Len(stacks)].rank = rank
    BY <1>7 DEF SaveStacks, TimeInv, OneStackEach, LastStack
  <2>2. nodes' = Put(nodes, rank, saved) /\ columns' = Put(with_saved, rank, normalized)
    BY <1>7, <2>1 DEF SaveStacks
  <2>3. with_saved[rank] = SavedColumns(rank, saved)
    BY DEF Put
  <2>4. normalized = Normalized(SavedColumns(rank, saved))
    BY <2>3
  <2>5. \A i \in DOMAIN columns[rank] : columns[rank][i].parent = -1
    BY <2>1 DEF UnlistedInv, UnderWay
  <2> HIDE DEF normalized, saved
  <2>6. Unlisted(normalized, saved)
    <3>1. PICK r, s : r = rank /\ s = saved
      OBVIOUS
    <3>2. Unlisted(Normalized(SavedColumns(r, s)), s)
      BY <2>5, <3>1, UnlistedSaved
    <3> QED
      BY <2>4, <3>1, <3>2
  <2>7. /\ nodes'[rank] = saved /\ columns'[rank] = normalized
        /\ \A r \in DOMAIN nodes : r # rank => nodes'[r] = nodes[r]
        /\ \A r \in DOMAIN columns : r # rank => columns'[r] = columns[r]
    BY <2>2 DEF Put
  <2>8. ASSUME NEW r \in Ranks, Built(r)' PROVE Unlisted(columns'[r], nodes'[r])
    <3>1. CASE r = rank
      BY <2>6, <2>7, <3>1
    <3>2. CASE r # rank
      <4>1. Built(r)
        BY <2>1, <2>8, <3>2 DEF Built
      <4> QED
        BY <1>2, <1>4, <2>7, <2>8, <3>2, <4>1
    <3> QED
      BY <3>1, <3>2
  <2> QED
    BY <2>1, <2>8 DEF UnlistedInv, UnderWay
<1>8. CASE ConstructAgain
  <2>1. todo' = Ranks /\ pc' = "rank"
    BY <1>8 DEF ConstructAgain
  <2> QED
    BY <2>1 DEF UnlistedInv, UnderWay, Built
<1> QED
  BY <1>1, <1>5, <1>6, <1>7, <1>8 DEF Next, Build

-----------------------------------------------------------------------------
(* Answers                                                                 *)

(* The path to the root goes through what is above an event.               *)
LEMMA PathIs ==
  ASSUME NEW r, NodeTree(r), Sound(nodes[r]), IsFiniteSet(DOMAIN nodes[r]), NEW e \in Host(r)
  PROVE  PathToRoot(nodes[r], e.index) \cap Nat = {e.index} \cup {q.index : q \in Above(r, e)}
<1> DEFINE map == nodes[r]
           N == Cardinality(DOMAIN map)
           up == Up(map, e.index)
           Passed == Above(r, e) \cup {e}
           C == Cardinality(Above(r, e))
<1>1. /\ e.index \in DOMAIN map /\ e.index \in Nat /\ Passed \subseteq Host(r) /\ IsFiniteSet(DOMAIN map)
      /\ \A x \in Host(r) : x.index \in Nat /\ x.index \in DOMAIN map /\ NodeAbove(r, x.index) = Above(r, x)
  BY DEF NodeTree
<1>2. /\ N \in Nat /\ up[0] = e.index
      /\ \A k \in 0 .. N : up[k] \in DOMAIN map
      /\ \A k \in 0 .. N - 1 : up[k + 1] = IF up[k] >= 0 THEN map[up[k]].parent ELSE up[k]
  <2>1. PICK m, i : m = map /\ i = e.index
    OBVIOUS
  <2>2. Sound(m) /\ IsFiniteSet(DOMAIN m) /\ i \in DOMAIN m
    BY <1>1, <2>1
  <2>3. /\ Cardinality(DOMAIN m) \in Nat /\ Up(m, i)[0] = i
        /\ \A k \in 0 .. Cardinality(DOMAIN m) : Up(m, i)[k] \in DOMAIN m
        /\ \A k \in 0 .. Cardinality(DOMAIN m) - 1 :
             Up(m, i)[k + 1] = IF Up(m, i)[k] >= 0 THEN m[Up(m, i)[k]].parent ELSE Up(m, i)[k]
    BY <2>2, UpSteps
  <2> QED
    BY <2>1, <2>3
<1>3. C \in Nat /\ C < N
  <2>1. Distances(map, Dist(r)) /\ Dist(r)[e.index] = C + 1 /\ C \in Nat
    BY <1>1, DistancesOf, AboveSizes DEF Dist
  <2>2. Dist(r)[e.index] <= N
    BY <1>1, <2>1 DEF Distances
  <2> QED
    BY <1>2, <2>1, <2>2
<1>4. PathToRoot(map, e.index) = {up[k] : k \in 0 .. N}
  <2>1. DOMAIN up = 0 .. N
    <3>1. PICK m, i : m = map /\ i = e.index
      OBVIOUS
    <3>2. DOMAIN Up(m, i) = 0 .. Cardinality(DOMAIN m)
      BY <1>1, <3>1, UpSteps
    <3> QED
      BY <3>1, <3>2
  <2> QED
    BY <1>1, <2>1 DEF PathToRoot
<1> HIDE DEF up, N
(* What is above was passed, or is above what the walk is at.              *)
<1> DEFINE At(k, x) == /\ up[k] = x.index /\ x \in Passed /\ Cardinality(Above(r, x)) = C - k
                       /\ \A q \in Passed : q \in Above(r, x) \/ \E j \in 0 .. k : up[j] = q.index
           S == {k \in Nat : k <= C => \E x \in Host(r) : At(k, x)}
<1>5. Nat \subseteq S
  <2>1. 0 \in S
    <3>1. up[0] = e.index /\ Cardinality(Above(r, e)) = C - 0
      BY <1>2, <1>3
    <3>2. At(0, e)
      BY <3>1
    <3> QED
      BY <3>2
  <2>2. ASSUME NEW k \in Nat, k \in S PROVE k + 1 \in S
    <3> SUFFICES ASSUME k + 1 <= C PROVE \E y \in Host(r) : At(k + 1, y)
      OBVIOUS
    <3>1. PICK x \in Host(r) : At(k, x)
      BY <1>3, <2>2
    <3>2. Above(r, x) # {}
      <4>1. Cardinality(Above(r, x)) # 0
        BY <1>3, <3>1
      <4> QED
        BY <4>1, FS_EmptySet
    <3>3. PICK y \in Host(r) : map[x.index].parent = y.index /\ Above(r, x) = Above(r, y) \cup {y}
      BY <1>1, <3>2 DEF NodeTree, ParentStep
    <3>4. up[k + 1] = y.index
      <4>1. k \in 0 .. N - 1 /\ up[k] = x.index /\ x.index \in Nat
        BY <1>1, <1>2, <1>3, <3>1
      <4> QED
        BY <1>2, <3>3, <4>1
    <3>5. Cardinality(Above(r, y)) = C - (k + 1)
      <4>1. Cardinality(Above(r, x)) = Cardinality(Above(r, y)) + 1 /\ Cardinality(Above(r, y)) \in Nat
        BY <3>3, AboveSizes
      <4> QED
        BY <1>3, <3>1, <4>1
    <3>6. y \in Passed
      BY <3>1, <3>3 DEF NodeTree
    <3>7. \A q \in Passed : q \in Above(r, y) \/ \E j \in 0 .. k + 1 : up[j] = q.index
      <4> SUFFICES ASSUME NEW q \in Passed, q \notin Above(r, y) PROVE \E j \in 0 .. k + 1 : up[j] = q.index
        OBVIOUS
      <4>1. CASE q = y
        BY <3>4, <4>1
      <4>2. CASE q # y
        <5>1. PICK j \in 0 .. k : up[j] = q.index
          BY <3>1, <3>3, <4>2
        <5>2. j \in 0 .. k + 1
          OBVIOUS
        <5> QED
          BY <5>1, <5>2
      <4> QED
        BY <4>1, <4>2
    <3> QED
      BY <3>4, <3>5, <3>6, <3>7
  <2> HIDE DEF S
  <2> QED
    BY <2>1, <2>2, Naturals
<1>6. ASSUME NEW q \in Passed PROVE q.index \in PathToRoot(map, e.index)
  <2>1. PICK x \in Host(r) : At(C, x)
    BY <1>3, <1>5
  <2>2. Above(r, x) = {}
    <3>1. IsFiniteSet(Above(r, x))
      BY AboveSizes
    <3>2. Cardinality(Above(r, x)) = C - C
      BY <2>1
    <3>3. Cardinality(Above(r, x)) = 0
      <4> HIDE DEF C
      <4> QED
        BY <1>3, <3>2
    <3> QED
      BY <3>1, <3>3, FS_EmptySet
  <2>3. PICK j \in 0 .. C : up[j] = q.index
    BY <2>1, <2>2
  <2>4. j \in 0 .. N
    BY <1>2, <1>3
  <2> QED
    BY <1>4, <2>3, <2>4
<1> DEFINE I == {x.index : x \in Passed}
           T == {k \in Nat : k <= N => up[k] < 0 \/ up[k] \in I}
<1>7. Nat \subseteq T
  <2>1. 0 \in T
    BY <1>2
  <2>2. ASSUME NEW k \in Nat, k \in T PROVE k + 1 \in T
    <3> SUFFICES ASSUME k + 1 <= N PROVE up[k + 1] < 0 \/ up[k + 1] \in I
      OBVIOUS
    <3>1. k \in 0 .. N - 1 /\ (up[k] < 0 \/ up[k] \in I)
      BY <1>2, <2>2
    <3>2. up[k + 1] = IF up[k] >= 0 THEN map[up[k]].parent ELSE up[k]
      BY <1>2, <3>1
    <3>3. CASE up[k] < 0
      <4>1. ~(up[k] >= 0)
        <5>1. up[k] \in Int
          BY <1>2, <3>1 DEF Sound, NodeMap
        <5> QED
          BY <3>3, <5>1
      <4> QED
        BY <3>2, <3>3, <4>1
    <3>4. CASE up[k] \in I
      <4>1. PICK x \in Passed : up[k] = x.index
        BY <3>4
      <4>2. x \in Host(r) /\ x.index \in Nat /\ x.index \in DOMAIN map /\ NodeAbove(r, x.index) = Above(r, x)
        BY <1>1
      <4>3. up[k + 1] = map[x.index].parent
        BY <3>2, <4>1, <4>2
      <4>4. ParentStep(r, x.index)
        BY <4>2 DEF NodeTree
      <4>5. CASE map[x.index].parent < 0
        BY <4>3, <4>5
      <4>6. CASE \E y \in Host(r) : map[x.index].parent = y.index /\ Above(r, x) = Above(r, y) \cup {y}
        <5>1. PICK y \in Host(r) : map[x.index].parent = y.index /\ Above(r, x) = Above(r, y) \cup {y}
          BY <4>6
        <5>2. y \in Passed
          BY <4>1, <5>1 DEF NodeTree
        <5> QED
          BY <4>3, <5>1, <5>2
      <4> QED
        BY <4>2, <4>4, <4>5, <4>6 DEF ParentStep
    <3> QED
      BY <3>1, <3>3, <3>4
  <2> HIDE DEF T
  <2> QED
    BY <2>1, <2>2, Naturals
<1>8. ASSUME NEW n \in PathToRoot(map, e.index), n \in Nat PROVE n \in I
  <2>1. PICK k \in 0 .. N : n = up[k]
    BY <1>4
  <2>2. k \in Nat /\ k <= N
    BY <1>2
  <2> QED
    BY <1>7, <1>8, <2>1, <2>2
<1>9. I = {e.index} \cup {q.index : q \in Above(r, e)} /\ I \subseteq Nat
  BY <1>1
<1> QED
  BY <1>6, <1>8, <1>9

(* A part of a node is there to be reached from it, and a leaf too. *)
LEMMA LeafBelow ==
  ASSUME NEW r, NodeTree(r), NodesTimed(r), Sound(nodes[r]), IsFiniteSet(DOMAIN nodes[r]),
         NEW e \in Host(r)
  PROVE  /\ Reached(nodes[r], {e.index}) = BelowNode(r, e)
         /\ \E leaf \in BelowNode(r, e) : nodes[r][leaf].children = {}
<1> DEFINE map == nodes[r]
<1>1. Layered(map, {e.index}, BelowNode(r, e), Dist(r), Cardinality(Above(r, e)) + 1)
  BY BelowLayered
<1>2. PICK F, B, d, b : /\ F = {e.index} /\ B = BelowNode(r, e) /\ d = Dist(r)
                        /\ b = Cardinality(Above(r, e)) + 1
  OBVIOUS
<1>3. Layered(map, F, B, d, b)
  BY <1>1, <1>2
<1>4. Reached(map, F) = B
  <2>1. PICK m : m = map
    OBVIOUS
  <2>2. Reached(m, F) = B
    BY <1>3, <2>1, LevelsAre
  <2> QED
    BY <2>1, <2>2
<1>5. e.index \in B /\ IsFiniteSet(B) /\ B \subseteq DOMAIN map
  <2>1. e.index \in B /\ B \subseteq DOMAIN map
    BY <1>2 DEF BelowNode, NodeTree
  <2> QED
    BY <2>1, FS_Subset
<1> DEFINE T == {d[n] : n \in B}
<1>6. IsFiniteSet(T) /\ T \subseteq Int /\ T # {}
  <2>1. IsFiniteSet(T)
    BY <1>5, Image
  <2> QED
    BY <1>3, <1>5, <2>1 DEF Layered, Distances
<1> HIDE DEF T
<1>7. Max(T) \in T /\ \A t \in T : t <= Max(T)
  BY <1>6, Greatest
<1>8. PICK leaf \in B : \A n \in B : d[n] <= d[leaf]
  BY <1>7 DEF T
<1>9. map[leaf].children = {}
  <2> SUFFICES ASSUME NEW c \in map[leaf].children PROVE FALSE
    OBVIOUS
  <2>1. leaf \in DOMAIN map /\ c \in DOMAIN map /\ c >= 0 /\ map[c].parent = leaf
    BY <1>5 DEF Sound, Agree, ChildrenAreEvents
  <2>2. d[c] = d[leaf] + 1 /\ d[leaf] \in Nat /\ d[leaf] >= b /\ b \in Nat
    BY <1>3, <2>1 DEF Layered, Distances
  <2>3. c \in B
    BY <1>3, <2>1, <2>2 DEF Layered
  <2> QED
    BY <1>8, <2>2, <2>3
<1> QED
  BY <1>2, <1>4, <1>9

(* What is below an event are the events it encloses and their kernels.    *)
LEMMA BelowIs ==
  ASSUME NEW r, Rows(trace[r]), NodeTree(r), NodesTimed(r), Sound(nodes[r]), IsFiniteSet(DOMAIN nodes[r]),
         NEW e \in Host(r)
  PROVE  BelowNode(r, e) = {d.index : d \in On(r, e)} \cup {k.index : k \in KernelsBelow(r, e)}
<1> DEFINE map == nodes[r]
<1>1. /\ KernelsUnder(map, e.index) = {k.index : k \in KernelsBelow(r, e)}
      /\ Reached(map, {e.index}) = BelowNode(r, e)
  BY KernelsAre, LeafBelow
<1>2. ASSUME NEW n \in BelowNode(r, e), map[n].device # "GPU" PROVE \E d \in On(r, e) : n = d.index
  <2>1. n \in DOMAIN map /\ n >= 0 /\ (n = e.index \/ e \in NodeAbove(r, n))
    BY DEF BelowNode
  <2>2. n \in Int
    BY <2>1 DEF Sound, NodeMap
  <2>3. PICK d \in Host(r) : n = d.index
    BY <1>2, <2>1, <2>2 DEF NodesTimed
  <2>4. NodeAbove(r, n) = Above(r, d) /\ (n = e.index => d = e)
    BY <2>3 DEF NodeTree
  <2> QED
    BY <2>1, <2>3, <2>4 DEF On
<1>3. ASSUME NEW d \in On(r, e) PROVE d.index \in BelowNode(r, e)
  <2>1. d \in Host(r) /\ (d = e \/ e \in Above(r, d))
    BY DEF On
  <2> QED
    BY <2>1 DEF BelowNode, NodeTree
<1> QED
  BY <1>1, <1>2, <1>3 DEF KernelsUnder

(* Every descendant has a leaf below it.                                   *)
LEMMA DescendantsAre ==
  ASSUME NEW r, Rows(trace[r]), NodeTree(r), NodesTimed(r), Sound(nodes[r]), IsFiniteSet(DOMAIN nodes[r]),
         NEW e \in Host(r)
  PROVE  Descendants(nodes[r], e.index, FALSE) =
           {d.index : d \in On(r, e)} \cup {k.index : k \in KernelsBelow(r, e)}
<1> DEFINE map == nodes[r]
<1>1. Reached(map, {e.index}) = BelowNode(r, e)
  BY LeafBelow
<1>2. map[e.index].device = "CPU"
  BY DEF NodesTimed
<1>3. ASSUME NEW m \in BelowNode(r, e) PROVE \E leaf \in Reached(map, {m}) : map[leaf].children = {}
  <2>1. m \in DOMAIN map /\ m >= 0 /\ m \in Int
    BY DEF BelowNode, Sound, NodeMap
  <2>2. CASE \E x \in Host(r) : m = x.index
    BY <2>2, LeafBelow
  <2>3. CASE \E x \in Host(r) : \E k \in Launched(r, x) : m = k.index
    <3>1. map[m].device = "GPU"
      BY <2>3 DEF NodesTimed
    <3>2. map[m].children = {}
      <4> SUFFICES ASSUME NEW c \in map[m].children PROVE FALSE
        OBVIOUS
      <4>1. c \in DOMAIN map /\ c >= 0 /\ map[c].parent = m
        BY <2>1 DEF Sound, Agree, ChildrenAreEvents
      <4>2. PICK q \in Host(r) : m = q.index
        BY <2>1, <4>1 DEF NodeTree, ParentStep
      <4> QED
        BY <3>1, <4>2 DEF NodesTimed
    <3>3. m \in Reached(map, {m})
      <4>1. PICK M : M = map
        OBVIOUS
      <4>2. IsFiniteSet(DOMAIN M)
        BY <4>1
      <4>3. /\ Cardinality(DOMAIN M) \in Nat /\ DOMAIN Levels(M, {m}) = 0 .. Cardinality(DOMAIN M)
            /\ Levels(M, {m})[0] = DOMAIN M \cap {m}
        BY <4>2, LevelSteps
      <4>6. PICK level, N : level = Levels(M, {m}) /\ N = Cardinality(DOMAIN M)
        OBVIOUS
      <4>7. N \in Nat /\ DOMAIN level = 0 .. N /\ level[0] = DOMAIN M \cap {m}
        BY <4>3, <4>6
      <4>8. 0 \in 0 .. N
        BY <4>7
      <4>4. 0 \in DOMAIN Levels(M, {m}) /\ m \in Levels(M, {m})[0]
        BY <2>1, <4>1, <4>6, <4>7, <4>8
      <4>5. m \in Reached(M, {m})
        BY <4>4 DEF Reached
      <4> QED
        BY <4>1, <4>5
    <3> QED
      BY <3>2, <3>3
  <2>4. (\E x \in Host(r) : m = x.index) \/ (\E x \in Host(r) : \E k \in Launched(r, x) : m = k.index)
    <3>1. PICK x \in Host(r) : m = x.index \/ \E k \in Launched(r, x) : m = k.index
      BY <2>1 DEF NodesTimed
    <3> QED
      BY <3>1
  <2> QED
    BY <2>2, <2>3, <2>4
<1>4. Descendants(map, e.index, FALSE) = BelowNode(r, e)
  BY <1>1, <1>2, <1>3 DEF Descendants
<1> QED
  BY <1>4, BelowIs

(* An event that is not of the host, and not of a stream with a positive   *)
(* number, is on a thread that has no stack: that of the stream 0.         *)
StreamsOffHost ==
  \A frames \in Traces : \A r \in Ranks : \A e \in frames[r] :
    e.stream = -1 \/ e.stream > 0 \/ e.pid = 0 \/ e.tid = 0

(* The rows that the clock gives as the stack of an event.                 *)
ClockRows(r, index, op) ==
  LET e == Row(r, OnStack(r, index))
      below == IF e.index # index THEN {index}
               ELSE {d.index : d \in On(r, e)} \cup {k.index : k \in KernelsBelow(r, e)}
      above == {e.index} \cup {p.index : p \in Above(r, e)}
  IN below \cup (IF op = "stack" THEN above ELSE {})

(* The row of an index is the event with this index.                       *)
LEMMA RowIs ==
  ASSUME NEW r, Rows(trace[r]), NEW x \in trace[r]
  PROVE  Row(r, x.index) = x
  BY DEF Row, Rows, Events

(* The rows that a query collects are those that the clock gives           *)
(* (trace_call_graph.py:419-464, trace_call_stack.py:769-868).             *)
LEMMA AnswerIs ==
  ASSUME AnnotationsOnHost, HostsNested, ThreadsApart, RootsCounted, StreamsOffHost,
         Inv, PathsInv, TimeInv, UnlistedInv, pc = "ready",
         NEW r \in Ranks, NEW index, Found(r, index), NEW skip \in BOOLEAN
  PROVE  StackRows(r, index, skip) = ClockRows(r, index, IF skip THEN "below" ELSE "stack")
<1>1. /\ Rows(trace[r]) /\ SavedRank(r) /\ Sound(nodes[r]) /\ NodesTimed(r)
      /\ \A x \in trace[r] : x.index \in DOMAIN nodes[r] =>
           columns[r][x.index] = SavedRow(trace[r], nodes[r], x.index)
  BY FinishedRank
<1>2. NodeTree(r) /\ IsFiniteSet(DOMAIN nodes[r])
  BY FinishedTree
<1>3. DOMAIN columns[r] = {e.index : e \in trace[r]} /\ \A x \in trace[r] : x.index \in Nat
  BY <1>1 DEF SavedRank, Rows
<1>4. PICK x \in trace[r] : x.index = index
  BY <1>3 DEF Found
<1>5. Row(r, index) = x
  BY <1>1, <1>4, RowIs
<1>6. Unlisted(columns[r], nodes[r])
  BY DEF UnlistedInv, Built, TimeInv, ColumnsReady
<1>7. ASSUME NEW e \in Host(r) PROVE /\ e.index \in Nat /\ Row(r, e.index) = e /\ e \in trace[r]
                                     /\ \A n \in Above(r, e) : n.index \in Nat
  BY <1>1, <1>2, RowIs DEF NodeTree, Host
<1>8. CASE x.stream > 0
  <2>1. OnStack(r, index) = columns[r][index].parent
    BY <1>5, <1>8 DEF OnStack
  <2>2. index \in DOMAIN nodes[r]
    <3> SUFFICES ASSUME index \notin DOMAIN nodes[r] PROVE FALSE
      OBVIOUS
    <3>1. OnStack(r, index) = -1
      BY <1>6, <2>1 DEF Unlisted, Found
    <3> QED
      BY <1>3, <3>1 DEF Found
  <2>3. PICK e \in Host(r) : index = e.index \/ \E k \in Launched(r, e) : index = k.index
    BY <1>1, <1>3, <1>4, <2>2 DEF NodesTimed
  <2>4. index # e.index
    <3>1. e \in trace[r] /\ e.stream = -1
      BY DEF Host
    <3> QED
      BY <1>1, <1>4, <1>8, <3>1 DEF Rows, Events
  <2>5. nodes[r][index].parent = e.index
    BY <1>1, <2>3, <2>4 DEF NodesTimed
  <2>6. columns[r][index].parent = nodes[r][index].parent
    BY <1>1, <1>4, <2>2, SavedParent
  <2>7. OnStack(r, index) = e.index /\ Row(r, OnStack(r, index)) = e
    BY <1>7, <2>1, <2>5, <2>6
  <2>8. StackRows(r, index, skip) = ({index} \cup (IF skip THEN {} ELSE PathToRoot(nodes[r], e.index))) \cap Nat
    BY <2>4, <2>7 DEF StackRows
  <2>9. PathToRoot(nodes[r], e.index) \cap Nat = {e.index} \cup {q.index : q \in Above(r, e)}
    BY <1>1, <1>2, PathIs
  <2>10. ClockRows(r, index, IF skip THEN "below" ELSE "stack") =
           {index} \cup (IF skip THEN {} ELSE {e.index} \cup {p.index : p \in Above(r, e)})
    BY <2>4, <2>7 DEF ClockRows
  <2>11. index \in Nat
    BY <1>3, <1>4
  <2> QED
    BY <2>8, <2>9, <2>10, <2>11
<1>9. CASE ~(x.stream > 0)
  <2>1. OnStack(r, index) = index /\ Row(r, OnStack(r, index)) = x
    BY <1>5, <1>9 DEF OnStack
  <2>2. PICK i \in StackOf(r, x) : TRUE
    BY <2>1 DEF Found
  <2>3. /\ i \in DOMAIN stacks /\ stacks[i].rank = r
        /\ stacks[i].thread = [pid |-> x.pid, tid |-> x.tid]
    BY DEF StackOf
  <2>4. [pid |-> x.pid, tid |-> x.tid] \in Threads(trace[r])
    BY <2>3 DEF TimeInv, OneStackEach, StackThreads
  <2>5. x.pid # 0 /\ x.tid # 0
    BY <2>4 DEF Threads, IsGpu, ThreadRows
  <2>6. x.stream = -1
    BY <1>4, <1>9, <2>5 DEF StreamsOffHost, Inv, RankBegun
  <2>7. x \in Host(r)
    BY <1>4, <2>6 DEF Host
  <2>8. StackRows(r, index, skip) =
          (Descendants(nodes[r], x.index, FALSE)
             \cup (IF skip THEN {} ELSE PathToRoot(nodes[r], x.index))) \cap Nat
    BY <1>4, <2>1 DEF StackRows
  <2>9. PathToRoot(nodes[r], x.index) \cap Nat = {x.index} \cup {q.index : q \in Above(r, x)}
    BY <1>1, <1>2, <2>7, PathIs
  <2>10. Descendants(nodes[r], x.index, FALSE) = {d.index : d \in On(r, x)} \cup {k.index : k \in KernelsBelow(r, x)}
    BY <1>1, <1>2, <2>7, DescendantsAre
  <2>11. {d.index : d \in On(r, x)} \cup {k.index : k \in KernelsBelow(r, x)} \subseteq Nat
    <3>1. \A d \in On(r, x) : d.index \in Nat
      BY <1>7 DEF On
    <3>2. \A k \in KernelsBelow(r, x) : k.index \in Nat
      BY <1>3 DEF KernelsBelow, Launched
    <3> QED
      BY <3>1, <3>2
  <2>12. ClockRows(r, index, IF skip THEN "below" ELSE "stack") =
           ({d.index : d \in On(r, x)} \cup {k.index : k \in KernelsBelow(r, x)})
             \cup (IF skip THEN {} ELSE {x.index} \cup {p.index : p \in Above(r, x)})
    BY <1>4, <2>1 DEF ClockRows
  <2> QED
    BY <2>8, <2>9, <2>10, <2>11, <2>12
<1> QED
  BY <1>8, <1>9

(* What the clock says does not change as long as the graph stays. *)
LEMMA ClockSame ==
  ASSUME UNCHANGED <<trace, stacks, columns>>, NEW r
  PROVE  /\ \A e : Above(r, e)' = Above(r, e)
         /\ \A e : KernelsBelow(r, e)' = KernelsBelow(r, e)
         /\ \A index, op : ClockRows(r, index, op)' = ClockRows(r, index, op)
<1>1. Pairs(r)' = Pairs(r)
  BY DEF Pairs, Labelled, LabelBefore
<1>2. \A p \in Pairs(r) : BackwardParents(r, stacks[p[2]].thread)' = BackwardParents(r, stacks[p[2]].thread)
  BY DEF BackwardParents, Named, ThreadRows
<1>3. ASSUME NEW e PROVE Enclosing(r, e)' = Enclosing(r, e)
  BY DEF Enclosing
<1>4. ASSUME NEW e PROVE AnnotationsOf(r, e)' = AnnotationsOf(r, e)
  <2> DEFINE outer == CHOOSE f \in Enclosing(r, e) \cup {e} : Enclosing(r, f) = {}
             held(pair) == {a \in trace[r] : /\ a.index \in BackwardParents(r, stacks[pair[2]].thread)
                                             /\ a.ts <= outer.ts /\ outer.end <= a.end}
             of == {p \in Pairs(r) : stacks[p[1]].thread.tid = e.tid}
             found == UNION {held(p) : p \in of}
             kept(a) == \A p \in Pairs(r) : \A b \in held(p) : a.index <= b.index
  <2>1. AnnotationsOf(r, e) = {a \in found : kept(a)}
    BY DEF AnnotationsOf
  <2>2. AnnotationsOf(r, e)' = {a \in found' : kept(a)'}
    BY DEF AnnotationsOf
  <2>3. outer' = outer
    BY DEF Enclosing
  <2> HIDE DEF outer
  <2>4. \A p \in Pairs(r) : held(p)' = held(p)
    BY <1>2, <2>3
  <2>5. of' = of
    BY <1>1
  <2> HIDE DEF held
  <2>6. found' = found
    BY <2>4, <2>5
  <2>7. \A a : kept(a)' <=> kept(a)
    BY <1>1, <2>4
  <2> HIDE DEF found, kept
  <2> QED
    BY <2>1, <2>2, <2>6, <2>7
<1>5. ASSUME NEW e PROVE Above(r, e)' = Above(r, e)
  BY <1>3, <1>4 DEF Above
<1>6. ASSUME NEW e PROVE Launched(r, e)' = Launched(r, e)
  BY DEF Launched
<1>7. Host(r)' = Host(r)
  BY DEF Host
<1>8. ASSUME NEW e PROVE On(r, e)' = On(r, e)
  BY <1>5, <1>7 DEF On
<1>9. ASSUME NEW e PROVE KernelsBelow(r, e)' = KernelsBelow(r, e)
  <2>1. KernelsBelow(r, e) = UNION {Launched(r, c) : c \in On(r, e)}
    BY DEF KernelsBelow, On
  <2>2. KernelsBelow(r, e)' = UNION {Launched(r, c)' : c \in On(r, e)'}
    BY DEF KernelsBelow, On
  <2> QED
    BY <1>6, <1>8, <2>1, <2>2
<1>10. ASSUME NEW index PROVE Row(r, OnStack(r, index))' = Row(r, OnStack(r, index))
  BY DEF Row, OnStack
<1>11. ASSUME NEW index, NEW op PROVE ClockRows(r, index, op)' = ClockRows(r, index, op)
  <2>1. PICK e : e = Row(r, OnStack(r, index))
    OBVIOUS
  <2>2. e = Row(r, OnStack(r, index))'
    BY <1>10, <2>1
  <2> QED
    BY <1>5, <1>8, <1>9, <2>1, <2>2 DEF ClockRows
<1> QED
  BY <1>5, <1>9, <1>11

(* The fourth invariant: an answer is of the finished graph, and right.    *)
Right(a, r) ==
  /\ a.rows = ClockRows(r, a.index, a.op) /\ r = cached_rank
  /\ \A i \in a.stack : stacks[i].rank = r
Asks(a) == a # None /\ a.op \in {"stack", "below"} /\ a.stack # {}
AnswerInv ==
  /\ UnlistedInv
  /\ answer # None => pc = "ready"
  /\ Asks(answer) => Right(answer, answer.rank)

(* Initially nothing is answered.                                          *)
LEMMA AnswerInit == Init => AnswerInv
  BY UnlistedInit DEF Init, AnswerInv, Asks

(* The answer of a query for a stack is right.                             *)
LEMMA StackAnswered ==
  ASSUME AnnotationsOnHost, HostsNested, ThreadsApart, RootsCounted, StreamsOffHost,
         Inv, PathsInv, TypeOK, TimeInv, AnswerInv, NEW asked, NEW index, NEW skip \in BOOLEAN,
         GetStackOfNode(index, asked, skip)
  PROVE  Asks(answer)' => Right(answer, answer.rank)'
<1>1. PICK r : r = QueriedRank(asked)
  OBVIOUS
<1>2. PICK op : op = IF skip THEN "below" ELSE "stack"
  OBVIOUS
<1>3. /\ pc = "ready" /\ cached_rank' = r /\ UNCHANGED <<trace, stacks, columns>>
      /\ answer' = [op |-> op, asked |-> asked, index |-> index, rank |-> r,
                    rows |-> IF Found(r, index) THEN StackRows(r, index, skip) ELSE {},
                    stack |-> IF Found(r, index) THEN StackOf(r, Row(r, OnStack(r, index))) ELSE {}]
  BY <1>1, <1>2 DEF GetStackOfNode, buildVars
<1>4. r \in Ranks
  BY <1>1, <1>3 DEF QueriedRank, TypeOK
<1>5. PICK a : a = answer'
  OBVIOUS
<1>6. /\ a.op = op /\ a.index = index /\ a.rank = r
      /\ a.rows = IF Found(r, index) THEN StackRows(r, index, skip) ELSE {}
      /\ a.stack = IF Found(r, index) THEN StackOf(r, Row(r, OnStack(r, index))) ELSE {}
  BY <1>3, <1>5
<1> SUFFICES ASSUME a.stack # {} PROVE Right(a, r)'
  BY <1>5, <1>6 DEF Asks, Right
<1>7. Found(r, index)
  BY <1>6
<1>8. StackRows(r, index, skip) = ClockRows(r, index, op)
  BY <1>2, <1>3, <1>4, <1>7, AnswerIs DEF AnswerInv
<1>9. ClockRows(r, index, op)' = ClockRows(r, index, op)
  BY <1>3, ClockSame
<1>10. a.rows = ClockRows(r, a.index, a.op)'
  BY <1>6, <1>7, <1>8, <1>9
<1>11. \A i \in a.stack : stacks'[i].rank = r
  BY <1>3, <1>6 DEF StackOf
<1> QED
  BY <1>3, <1>10, <1>11 DEF Right

(* Every step keeps the answer right, or forgets it.                       *)
LEMMA AnswerStep ==
  ASSUME AnnotationsOnHost, HostsNested, ThreadsApart, RootsCounted, StreamsOffHost
  PROVE  Inv /\ PathsInv /\ TypeOK /\ TimeInv /\ AnswerInv /\ [Next]_vars => AnswerInv'
<1> SUFFICES ASSUME Inv, PathsInv, TypeOK, TimeInv, AnswerInv, [Next]_vars PROVE AnswerInv'
  OBVIOUS
<1>1. UnlistedInv'
  BY UnlistedStep DEF AnswerInv
<1>2. CASE UNCHANGED vars
  <2>1. UNCHANGED <<trace, pc, stacks, columns, graphs, answer, cached_rank>>
    BY <1>2 DEF vars, buildVars, queryVars
  <2>2. PICK a, r : a = answer /\ r = answer.rank
    OBVIOUS
  <2>3. ClockRows(r, a.index, a.op)' = ClockRows(r, a.index, a.op)
    BY <2>1, ClockSame
  <2>4. Right(a, r) => Right(a, r)'
    BY <2>1, <2>3 DEF Right
  <2>5. a = answer' /\ r = answer'.rank
    BY <2>1, <2>2
  <2> QED
    BY <1>1, <2>1, <2>2, <2>4, <2>5 DEF AnswerInv, Asks, Right
<1>3. CASE Build
  <2>1. answer' = None
    <3>1. CASE ConstructAgain
      BY <3>1 DEF ConstructAgain
    <3>2. CASE ~ConstructAgain
      <4>1. pc # "ready" /\ answer' = answer
        BY <1>3, <3>2 DEF Build, StartRank, StartThread, OpenEvent, CloseEvent, LinkKernel, FinishThread,
                          StartConnect, LinkAnnotation, SaveStacks, queryVars
      <4> QED
        BY <4>1 DEF AnswerInv
    <3> QED
      BY <3>1, <3>2
  <2> QED
    BY <1>1, <2>1 DEF AnswerInv, Asks
<1>4. CASE Query
  <2>1. pc = "ready" /\ pc' = "ready" /\ graphs' = graphs
    BY <1>4 DEF Query, GetGpuKernels, GetNodeAttributes, GetCsgOfNode, GetStackOfNode, buildVars
  <2>2. Asks(answer)' => Right(answer, answer.rank)'
    <3>1. CASE \E asked \in Ranks \cup {None} : \E index \in Asked : \E skip \in BOOLEAN :
                 GetStackOfNode(index, asked, skip)
      <4>1. PICK asked \in Ranks \cup {None}, index \in Asked, skip \in BOOLEAN :
              GetStackOfNode(index, asked, skip)
        BY <3>1
      <4> QED
        BY <4>1, StackAnswered
    <3>2. CASE \E asked \in Ranks \cup {None} : \/ GetGpuKernels(asked)
                                                \/ \E index \in Asked : \/ GetNodeAttributes(index, asked)
                                                                        \/ GetCsgOfNode(index, asked)
      <4>1. answer'.op \in {"kernels", "node", "csg"}
        BY <3>2 DEF GetGpuKernels, GetNodeAttributes, GetCsgOfNode
      <4> QED
        BY <4>1 DEF Asks
    <3> QED
      BY <1>4, <3>1, <3>2 DEF Query
  <2> QED
    BY <1>1, <2>1, <2>2 DEF AnswerInv
<1> QED
  BY <1>2, <1>3, <1>4 DEF Next

(* The invariant gives the property of the answers.                        *)
LEMMA AnswersRight == AnswerInv => AnswersHoldThePath
<1> SUFFICES ASSUME AnswerInv, Asks(answer) PROVE AnswersHoldThePath
  BY DEF AnswersHoldThePath, Asks
<1>1. Right(answer, answer.rank)
  BY DEF AnswerInv
<1> QED
  BY <1>1 DEF Right, ClockRows, On, AnswersHoldThePath

(* For the first graph of a trace the stack that a query answers with is   *)
(* what encloses the event by the clock and what is below it: the rows are *)
(* those of the rank asked for, and the walk up the map and the collecting *)
(* of descendants (trace_call_graph.py:419-464) neither miss nor add one.  *)
THEOREM AnswersFollowTime ==
  ASSUME AnnotationsOnHost, HostsNested, ThreadsApart, SortSorts, RootsCounted, StreamsOffHost
  PROVE  Spec /\ []RootsApart => [](graphs = 1 => AnswersHoldThePath)
<1> DEFINE First == graphs = 1 => AnswerInv
<1>1. Init => First
  BY AnswerInit
<1>2. Inv /\ PathsInv /\ TypeOK /\ ColumnsReady /\ (graphs = 1 => TimeInv) /\ First /\ [Next]_vars => First'
  BY FirstBefore, AnswerStep
<1>3. Spec /\ []RootsApart => []First
  BY Invariance, Paths, TypeCorrect, Columns, TimedFirst, <1>1, <1>2, PTL DEF Spec
<1>4. First => (graphs = 1 => AnswersHoldThePath)
  BY AnswersRight
<1> QED
  BY <1>3, <1>4, PTL

(* A later graph of a trace writes into columns that the one before it     *)
(* narrowed (trace_call_graph.py:258, trace_call_stack.py:735-742).  As    *)
(* long as they hold the parents, depths and heights that are saved there, *)
(* every graph, and every answer from it, is what the times of the events  *)
(* say: nothing else of an earlier graph reaches a later one.              *)
THEOREM EveryGraphFollowsTime ==
  ASSUME AnnotationsOnHost, HostsNested, ThreadsApart, SortSorts, RootsCounted,
         EndsMeasured, StreamsOffHost
  PROVE  Spec /\ []RootsApart /\ []WidthsHold =>
           [](ParentsByTime /\ DepthsByTime /\ KernelsByTime /\ AnswersHoldThePath)
<1>1. Inv /\ PathsInv /\ TimeInv => ParentsByTime /\ DepthsByTime /\ KernelsByTime
  BY ParentsAreTimed, DepthsHold, KernelsHold
<1>2. Spec /\ []RootsApart /\ []WidthsHold => []AnswerInv
  BY Invariance, Paths, TypeCorrect, Timed, AnswerInit, AnswerStep, PTL DEF Spec
<1> QED
  BY Invariance, Paths, Timed, <1>1, <1>2, AnswersRight, PTL

(* A trace of one step keeps the roots apart that are joined.              *)
LEMMA OneStepApart ==
  ASSUME AnnotationsOnHost, ThreadsApart, OneStep
  PROVE  Spec => []RootsApart
<1>1. Inv /\ PathsInv /\ Apart /\ [Next]_vars => (PathsInv /\ Apart)'
  BY PathsStep, ApartStep DEF Apart
<1>2. Spec => [](PathsInv /\ Apart)
  BY Invariance, PathsInit, ApartInit, <1>1, PTL DEF Spec
<1>3. PathsInv /\ Apart => RootsApart
  BY DEF Apart
<1> QED
  BY <1>2, <1>3, PTL

(* For a trace of one step nothing has to be supposed of the behaviour:    *)
(* the first graph and what a query answers from it are what the times of  *)
(* the events say (trace_call_stack.py:346-384, 431-462, 631-690, 769-868; *)
(* trace_call_graph.py:419-464).                                           *)
THEOREM OneStepFollowsTime ==
  ASSUME AnnotationsOnHost, HostsNested, ThreadsApart, SortSorts, RootsCounted,
         EndsMeasured, StreamsOffHost, OneStep
  PROVE  Spec => [](graphs = 1 => /\ ParentsByTime /\ DepthsByTime
                                  /\ KernelsByTime /\ AnswersHoldThePath)
  BY OneStepApart, ParentsFollowTime, DepthsFollowTime, KernelsFollowTime, AnswersFollowTime, PTL

-----------------------------------------------------------------------------
(* Short traces                                                            *)

(* The rows and threads of a rank can be counted with a byte. *)
ShortTraces ==
  \A frames \in Traces : \A r \in Ranks :
    /\ Cardinality(frames[r]) < 128
    /\ \A e \in frames[r] : e.index < 128 /\ e.tid <= 128

(* What is above a node is less than all rows, and so is how high a node   *)
(* gets.                                                                   *)
LEMMA ShortTree ==
  ASSUME NEW r, Rows(trace[r]), Cardinality(trace[r]) < 128, NodeTree(r), NodesTimed(r), Sound(nodes[r]),
         NEW n \in DOMAIN nodes[r], n >= 0
  PROVE  /\ Cardinality(NodeAbove(r, n)) \in 0 .. 127
         /\ TallNode(r, n) \in 0 .. 127
<1>1. IsFiniteSet(Host(r)) /\ Cardinality(Host(r)) \in 0 .. 127
  <2>1. IsFiniteSet(trace[r]) /\ Host(r) \in SUBSET trace[r]
    BY DEF Rows, OnHost, Host
  <2>2. IsFiniteSet(Host(r)) /\ Cardinality(Host(r)) <= Cardinality(trace[r])
    BY <2>1, FS_Subset
  <2>3. Cardinality(Host(r)) \in Nat /\ Cardinality(trace[r]) \in Nat
    BY <2>1, <2>2, FS_CardinalityType
  <2> QED
    BY <2>2, <2>3
<1>2. Cardinality(NodeAbove(r, n)) \in 0 .. 127
  <2>1. NodeAbove(r, n) \in SUBSET Host(r)
    BY DEF NodeAbove
  <2>2. Cardinality(NodeAbove(r, n)) <= Cardinality(Host(r))
    BY <1>1, <2>1, FS_Subset
  <2> QED
    BY <1>1, <2>2, AboveSizes
<1>3. CASE nodes[r][n].device = "GPU"
  BY <1>2, <1>3 DEF TallNode
<1>4. CASE nodes[r][n].device # "GPU"
  <2>1. PICK e \in Host(r) : n = e.index
    BY <1>4 DEF NodesTimed, Sound, NodeMap
  <2>2. (CHOOSE x \in Host(r) : x.index = n) = e
    BY <2>1 DEF NodeTree
  <2>3. TallNode(r, n) = 1 + Max(Rise(r, e))
    BY <1>4, <2>2 DEF TallNode
  <2>4. Rise(r, e) \subseteq Nat /\ Max(Rise(r, e)) \in Rise(r, e)
    BY RiseIs
  <2>5. PICK d \in On(r, e) : Max(Rise(r, e)) = Cardinality(Above(r, d)) - Cardinality(Above(r, e))
    BY <2>4 DEF Rise
  <2>6. d \in Host(r) /\ Above(r, d) \subseteq Host(r) /\ d \notin Above(r, d)
    BY DEF On, NodeTree
  <2>7. Cardinality(Above(r, d)) < Cardinality(Host(r))
    BY <1>1, <2>6, SmallerPart
  <2>8. Cardinality(Above(r, d)) \in Nat /\ Cardinality(Above(r, e)) \in Nat
    BY <2>6, AboveSizes
  <2> HIDE DEF Max
  <2> QED
    BY <1>1, <1>2, <2>3, <2>4, <2>5, <2>7, <2>8
<1> QED
  BY <1>3, <1>4

(* A short trace fits into the narrowest columns. *)
LEMMA ShortWidths ==
  ASSUME AnnotationsOnHost, HostsNested, ThreadsApart, RootsCounted, ShortTraces
  PROVE  Inv /\ PathsInv /\ TimeInv => WidthsHold
<1> SUFFICES ASSUME Inv, PathsInv, TimeInv, pc = "connect", annotations = {}
             PROVE  NumbersFit(WithDepth(nodes[rank]), columns[rank], width[rank])
  BY DEF WidthsHold
<1>1. PICK r : r = rank
  OBVIOUS
<1>2. /\ r \in Ranks /\ r \in DOMAIN nodes /\ trace \in Traces /\ Sound(nodes[r]) /\ Founded(nodes[r])
      /\ width[r] \in {8, 16, 64}
  BY <1>1 DEF Inv, RankBegun, NodesSound, PathsInv, AllFounded, TimeInv, ColumnsReady
<1>3. Rows(trace[r]) /\ PairOf(r)
  BY <1>2, PairsAreOne DEF TimeInv
<1>4. MapLinked(trace[r], nodes[r], BwdTids(r), Annots(r)) /\ AllThere(trace[r], nodes[r])
  <2>1. AnnotationsTimed /\ Annots(r) \ annotations = Annots(r)
    BY DEF TimeInv, ConnectTimed
  <2> QED
    BY <1>1, <2>1 DEF AnnotationsTimed
<1>5. NodesTimed(r)
  BY <1>2, <1>3, <1>4, RankTimed
<1>6. NodeTree(r) /\ IsFiniteSet(DOMAIN nodes[r]) /\ NON_EXISTENT_NODE_INDEX \notin DOMAIN nodes[r]
  BY <1>2, <1>3, <1>5, TreeOf
<1>7. Cardinality(trace[r]) < 128 /\ \A e \in trace[r] : e.index < 128 /\ e.tid <= 128
  BY <1>2 DEF ShortTraces
<1>8. ASSUME NEW n \in DOMAIN nodes[r] PROVE n \in -128 .. 127
  <2>1. \A e \in trace[r] : e.index \in 0 .. 127 /\ e.tid \in 0 .. 128
    BY <1>3, <1>7 DEF Rows
  <2>2. \A th \in Threads(trace[r]) : th.tid \in 0 .. 128
    BY <2>1 DEF Threads
  <2>3. \A e \in Host(r) : e \in trace[r] /\ \A k \in Launched(r, e) : k \in trace[r]
    BY DEF Host, Launched
  <2> QED
    BY <1>5, <2>1, <2>2, <2>3 DEF NodesTimed
<1>9. ASSUME NEW n \in DOMAIN nodes[r], n >= 0
      PROVE  \A x \in Numbers(WithDepth(nodes[r]), n) : x \in -128 .. 127
  <2>1. WithDepth(nodes[r])[n].parent \in -128 .. 127
    <3>1. WithDepth(nodes[r])[n].parent = nodes[r][n].parent
      BY DEF WithDepth, Node
    <3>2. nodes[r][n].parent \in DOMAIN nodes[r]
      BY <1>2, <1>9 DEF Sound, Agree
    <3> QED
      BY <1>8, <3>1, <3>2
  <2>2. WithDepth(nodes[r])[n].depth \in -128 .. 127
    <3>1. Layered(nodes[r], AllRootIndices(nodes[r]), DOMAIN nodes[r], Dist(r), 0)
      BY <1>2, <1>6, AllLayered
    <3>2. WithDepth(nodes[r])[n].depth = Dist(r)[n] - 1
      BY <1>2, <1>6, <3>1, DepthsAre
    <3>3. Dist(r)[n] = Cardinality(NodeAbove(r, n)) + 1
      <4>1. n \in Int
        BY <1>2, <1>9 DEF Sound, NodeMap
      <4>2. ~(n < 0)
        BY <1>9, <4>1
      <4> QED
        BY <1>9, <4>2 DEF Dist
    <3>4. Cardinality(NodeAbove(r, n)) \in 0 .. 127
      BY <1>2, <1>3, <1>5, <1>6, <1>7, <1>9, ShortTree
    <3> QED
      BY <3>2, <3>3, <3>4
  <2>3. Heights(WithDepth(nodes[r]))[n] \in -128 .. 127
    <3>1. Heights(WithDepth(nodes[r]))[n] = TallNode(r, n)
      BY <1>2, <1>5, <1>6, <1>9, HeightsOfSaved
    <3>2. TallNode(r, n) \in 0 .. 127
      BY <1>2, <1>3, <1>5, <1>6, <1>7, <1>9, ShortTree
    <3> QED
      BY <3>1, <3>2
  <2> QED
    BY <2>1, <2>2, <2>3 DEF Numbers
<1>10. ASSUME NEW x \in -128 .. 127 PROVE Fits(x, width[r])
  <2>1. 2 ^ 7 = 128 /\ 2 ^ 15 = 32768
    OBVIOUS
  <2>2. CASE width[r] = 8
    BY <2>1, <2>2 DEF Fits
  <2>3. CASE width[r] = 16
    BY <2>1, <2>3 DEF Fits
  <2>4. CASE width[r] = 64
    BY <2>4 DEF Fits
  <2> QED
    BY <1>2, <2>2, <2>3, <2>4
<1>11. DOMAIN columns[r] = {e.index : e \in trace[r]} /\ \A e \in trace[r] : e.index >= 0
  <2>1. DOMAIN columns[rank] = {e.index : e \in trace[rank]}
    BY DEF TimeInv, ColumnsReady, UnderWay
  <2>2. \A e \in trace[r] : e.index \in Nat
    BY <1>3 DEF Rows
  <2> QED
    BY <1>1, <2>1, <2>2
<1>12. DOMAIN WithDepth(nodes[r]) = DOMAIN nodes[r]
  BY DEF WithDepth
<1>13. ASSUME NEW n \in DOMAIN columns[r] \cap DOMAIN WithDepth(nodes[r]),
              NEW x \in Numbers(WithDepth(nodes[r]), n)
       PROVE  Fits(x, width[r])
  BY <1>9, <1>10, <1>11, <1>12
<1> QED
  BY <1>1, <1>13 DEF NumbersFit

(* For a trace of one step whose rows and threads a byte can count, no     *)
(* hypothesis on the behaviour is left: however many call graphs are       *)
(* constructed of it, each of them and every answer is what the times of   *)
(* the events say (trace_call_graph.py:127-147, 246-259).                  *)
THEOREM ShortTraceFollowsTime ==
  ASSUME AnnotationsOnHost, HostsNested, ThreadsApart, SortSorts, RootsCounted,
         EndsMeasured, StreamsOffHost, OneStep, ShortTraces
  PROVE  Spec => [](ParentsByTime /\ DepthsByTime /\ KernelsByTime /\ AnswersHoldThePath)
<1>1. Inv /\ PathsInv /\ RootsApart /\ RootsApart' /\ TimeInv /\ [Next]_vars => TimeInv'
  BY ShortWidths, TimeStep
<1>2. Spec /\ []RootsApart => []TimeInv
  BY Invariance, Paths, TimeInit, <1>1, PTL DEF Spec
<1>3. Spec /\ []RootsApart => []WidthsHold
  BY Invariance, Paths, <1>2, ShortWidths, PTL
<1> QED
  BY OneStepApart, <1>3, EveryGraphFollowsTime, PTL

=============================================================================
