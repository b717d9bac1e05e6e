------------------------------ MODULE CallStack ------------------------------
(***************************************************************************)
(* The node map of hta/common/trace_call_stack.py, which the call stacks   *)
(* of one rank share, and what CallStackGraph does with it.                *)
(*                                                                         *)
(* A node map is a function from the indices of events and the negative    *)
(* indices of roots to nodes.  Children are a set: no node is appended to  *)
(* one list twice, and no property is about their order.                   *)
(***************************************************************************)
EXTENDS EventOrder, FiniteSetsExt

NULL_NODE_INDEX == -1
NON_EXISTENT_NODE_INDEX == -2

NodeType == [parent : Int, depth : Int, device : {"CPU", "GPU"}, children : SUBSET Int]

Node(parent, depth, device, children) ==
  [parent |-> parent, depth |-> depth, device |-> device, children |-> children]

Put(nodes, n, node) == [m \in DOMAIN nodes \cup {n} |-> IF m = n THEN node ELSE nodes[m]]

(* The node that the constructor makes for the root of a thread. *)
WithRoot(nodes, root) ==
  IF root \in DOMAIN nodes THEN nodes ELSE Put(nodes, root, Node(NULL_NODE_INDEX, -1, "CPU", {}))

Adopt(nodes, parent, child) ==
  [n \in DOMAIN nodes |->
     Node(nodes[n].parent, nodes[n].depth, nodes[n].device,
          nodes[n].children \cup (IF n = parent THEN {child} ELSE {}))]

(* _add_edge; a child that is a node has its parent there, which the       *)
(* message about it looks up.                                              *)
AddEdge(nodes, root, parent, child, device) ==
  IF child \in DOMAIN nodes THEN nodes
  ELSE LET with_parent == IF parent \in DOMAIN nodes THEN Adopt(nodes, parent, child)
                          ELSE Put(nodes, parent, Node(root, 0, device, {child}))
       IN Put(with_parent, child, Node(parent, with_parent[parent].depth + 1, device, {}))

(* Mutant of UpdateParent: the old parent keeps the children. *)
UpdateParentOnly(nodes, indices, new_parent) ==
  LET valid == (indices \cap DOMAIN nodes) \ nodes[new_parent].children
  IN [n \in DOMAIN nodes |->
        Node(IF n \in valid THEN new_parent ELSE nodes[n].parent,
             nodes[n].depth, nodes[n].device,
             nodes[n].children \cup (IF n = new_parent THEN valid ELSE {}))]

(* _update_parent: an old parent that loses its last child is deleted. *)
UpdateParent(nodes, indices, new_parent) ==
  LET valid == (indices \cap DOMAIN nodes) \ nodes[new_parent].children
      old_parents == {nodes[n].parent : n \in valid}
      attached == [n \in DOMAIN nodes |->
        Node(IF n \in valid THEN new_parent ELSE nodes[n].parent,
             nodes[n].depth, nodes[n].device,
             (nodes[n].children \cup (IF n = new_parent THEN valid ELSE {}))
               \ (IF n \in old_parents THEN valid ELSE {}))]
      emptied == {p \in old_parents : attached[p].children = {}}
  IN [n \in DOMAIN nodes \ emptied |-> attached[n]]

-----------------------------------------------------------------------------
(* Walks *)

(* The first n nodes of the path up from idx; a path that ends before      *)
(* stays where it ended.                                                   *)
Up(nodes, idx) ==
  LET up[k \in 0 .. Cardinality(DOMAIN nodes)] ==
        IF k = 0 THEN idx
        ELSE LET below == up[k - 1]
             IN IF below >= 0 /\ below \in DOMAIN nodes THEN nodes[below].parent ELSE below
  IN up

(* get_path_to_root returns, and so does get_root: no loop on the way. *)
ReachesRoot(nodes, idx) ==
  LET up == Up(nodes, idx)
      top == up[Cardinality(DOMAIN nodes)]
  IN ~(top >= 0 /\ top \in DOMAIN nodes)

(* Mutant of PathToRoot: the path starts above the node. *)
PathFromParent(nodes, idx) ==
  LET up == Up(nodes, idx) IN IF idx \in DOMAIN nodes THEN {up[k] : k \in DOMAIN up \ {0}} ELSE {}

PathToRoot(nodes, idx) ==
  LET up == Up(nodes, idx) IN IF idx \in DOMAIN nodes THEN {up[k] : k \in DOMAIN up} ELSE {}

GetRoot(nodes, idx) == Up(nodes, idx)[Cardinality(DOMAIN nodes)]

(* The nodes that a traversal along the children enters, by distance. *)
Levels(nodes, from) ==
  LET level[k \in 0 .. Cardinality(DOMAIN nodes)] ==
        DOMAIN nodes \cap
          (IF k = 0 THEN from ELSE UNION {nodes[m].children : m \in level[k - 1]})
  IN level

Reached(nodes, from) ==
  LET level == Levels(nodes, from) IN UNION {level[k] : k \in DOMAIN level}

(* get_descendants: the nodes on the paths to leaves.  Without kernels the *)
(* node itself has to be one of the host, whatever lies below it.          *)
Descendants(nodes, idx, include_gpu_kernel) ==
  IF ~include_gpu_kernel /\ nodes[idx].device # "CPU" THEN {}
  ELSE {m \in Reached(nodes, {idx}) : \E leaf \in Reached(nodes, {m}) : nodes[leaf].children = {}}

-----------------------------------------------------------------------------
(* The stack columns, for all the call stacks that share the node map *)

AllRootIndices(nodes) == {n \in DOMAIN nodes : n < 0 /\ n # NON_EXISTENT_NODE_INDEX}

(* Mutant of WithDepth: a node keeps the depth it was added with. *)
WithDepthKept(nodes) == nodes

(* _compute_depth; a node the traversal does not enter keeps its depth. *)
WithDepth(nodes) ==
  LET level == Levels(nodes, AllRootIndices(nodes))
      distances(n) == {k \in 0 .. Cardinality(DOMAIN nodes) : n \in level[k]}
      depth(n) == IF distances(n) = {} THEN nodes[n].depth
                  ELSE (CHOOSE k \in distances(n) : TRUE) - 1
  IN [n \in DOMAIN nodes |->
        Node(nodes[n].parent, depth(n), nodes[n].device, nodes[n].children)]

(* _compute_height *)
Heights(nodes) ==
  LET reached == Reached(nodes, AllRootIndices(nodes))
      height[n \in reached] ==
        IF nodes[n].device = "GPU" THEN 0
        ELSE Max({1} \cup {height[c] + 1 : c \in nodes[n].children \cap DOMAIN nodes})
  IN [n \in DOMAIN nodes |-> IF n \in reached THEN height[n] ELSE -1]

(* Mutant of KernelsUnder: only its own. *)
KernelsOf(nodes, n) == {m \in nodes[n].children : nodes[m].device = "GPU"}

(* The kernels that _add_kernel_info_to_cpu_ops counts for a node. *)
KernelsUnder(nodes, n) ==
  {m \in Reached(nodes, {n}) : nodes[m].device = "GPU"}

=============================================================================
