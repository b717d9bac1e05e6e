---------------------------- MODULE FiltersProofs ----------------------------
(***************************************************************************)
(* For any files, any filters and any number of them one after the other:  *)
(* kernels stay with their launches, and CombinedOperatorFilter selects    *)
(* nothing but rows of the first iteration of the frame.                   *)
(***************************************************************************)
EXTENDS Filters, SetInduction

(* The row g of the device is linked to the row l. *)
Linked(g, l) == g.stream > 0 /\ g.index_correlation > 0 /\ l.index = g.index_correlation

(* What the rows of the trace are: linked rows have the same iteration,    *)
(* the launch is on the host, and it is not itself linked to a call.       *)
TraceSound ==
  /\ \A r \in trace : r.stream \in Int
  /\ \A d, e \in trace : d.index = e.index => d = e
  /\ \A g, l \in trace :
       Linked(g, l) => /\ l.stream < 0 /\ l.iteration = g.iteration
                       /\ \A o \in trace : o.cat = "cuda_runtime" => o.index # l.index_correlation

(* These rows hold kernels only with their launches, and the kernels of    *)
(* their launches.                                                         *)
Together(D) ==
  /\ D \subseteq trace
  /\ \A g, l \in trace : Linked(g, l) => /\ g \in D => l \in D
                                         /\ l \in D /\ l.cat = "cuda_runtime" => g \in D

OnHost(D) == \A r \in D : r.stream < 0

IInv ==
  /\ TraceSound
  /\ applied \in Seq(Menu)
  /\ (\A i \in DOMAIN applied : TakesKernels(applied[i])) => Together(DOMAIN df.rows)

-----------------------------------------------------------------------------
(* The rows of the trace *)

(* The row that a row is linked to is one of its partners. *)
LEMMA LinkIsPartner ==
  ASSUME NEW events \in Files, NEW r \in events, Partners(events, r) # {}
  PROVE  \E p \in Partners(events, r) : p.index = IndexCorrelation(events, r)
<1> DEFINE indices == {p.index : p \in Partners(events, r)}
<1>1. IsFiniteSet(Partners(events, r)) /\ Partners(events, r) \subseteq events
  BY FilesAssumption, FS_Subset DEF Partners
<1>2. IsFiniteSet(indices) /\ indices \subseteq Int /\ indices # {}
  <2> DEFINE F == [p \in Partners(events, r) |-> p.index]
  <2>1. F \in Surjection(Partners(events, r), indices)
    BY DEF Surjection
  <2>2. IsFiniteSet(indices)
    BY <1>1, <2>1, FS_Surjection
  <2> QED
    BY <1>1, <2>2, FilesAssumption
<1>3. Max(indices) \in indices
  <2> HIDE DEF indices
  <2> QED
    BY <1>2, Greatest
<1> QED
  BY <1>3 DEF IndexCorrelation, ColumnMax

(* The launch of a kernel has the kernel's iteration, and its own link     *)
(* leads to the device.                                                    *)
LEMMA LinkedEvents ==
  ASSUME NEW events \in Files, NEW g \in events, NEW l \in events,
         g.stream > 0, IndexCorrelation(events, g) > 0, l.index = IndexCorrelation(events, g)
  PROVE  /\ l.stream < 0
         /\ Iteration(events, l) = Iteration(events, g)
         /\ \A o \in events : o.cat = "cuda_runtime" => o.index # IndexCorrelation(events, l)
<1>1. /\ \A d, e \in events : d.index = e.index => d = e
      /\ \A e \in events : /\ e.index \in Nat /\ e.stream \in Int \ {0}
                            /\ e.correlation \in Int /\ e.correlation >= -1
      /\ \A e \in GpuRows(events) : e.cat # "cuda_runtime"
  BY FilesAssumption
<1>2. Partners(events, g) # {}
  BY <1>1 DEF IndexCorrelation
<1>3. l \in Partners(events, g)
  <2>1. PICK p \in Partners(events, g) : p.index = IndexCorrelation(events, g)
    BY <1>2, LinkIsPartner
  <2> QED
    BY <1>1, <2>1 DEF Partners
<1>4. /\ g.correlation # -1 /\ l.correlation = g.correlation
      /\ OnGpu(l) # OnGpu(g) /\ OnGpu(g) \in BOOLEAN /\ OnGpu(l) \in BOOLEAN
  BY <1>3 DEF Partners, OnGpu
<1>5. OnGpu(g)
  BY <1>1, <1>4 DEF OnGpu
<1>6. ~OnGpu(l)
  BY <1>4, <1>5
<1>7. l.stream < 0
  BY <1>1, <1>4, <1>6 DEF OnGpu
<1>8. Iteration(events, l) = IterationByTime(events, l)
  BY <1>1, <1>7 DEF Iteration
<1>9. Iteration(events, g) = IterationByTime(events, l)
  <2>1. (CHOOSE p \in events : p.index = IndexCorrelation(events, g)) = l
    BY <1>1
  <2>2. ~(g.stream <= 0)
    BY <1>1
  <2> QED
    BY <2>1, <2>2 DEF Iteration
<1>10. ASSUME NEW o \in events, o.cat = "cuda_runtime", o.index = IndexCorrelation(events, l)
       PROVE  FALSE
  <2>1. g \in Partners(events, l)
    BY <1>4 DEF Partners
  <2>2. PICK p \in Partners(events, l) : p.index = IndexCorrelation(events, l)
    BY <2>1, LinkIsPartner
  <2>3. p \in events /\ OnGpu(p)
    BY <2>2, <1>6 DEF Partners, OnGpu
  <2>4. p = o
    BY <1>1, <1>10, <2>2, <2>3
  <2> QED
    BY <1>1, <1>10, <2>3, <2>4 DEF GpuRows
<1> QED
  BY <1>7, <1>8, <1>9, <1>10

(* A frame of rows of the file, all moved by one offset, is sound. *)
LEMMA MovedSound ==
  ASSUME NEW events \in Files, NEW Moved,
         \A e \in events :
           LET row == Moved[e] IN
             /\ row.index = e.index /\ row.stream = e.stream /\ row.cat = e.cat
             /\ row.index_correlation = IndexCorrelation(events, e)
             /\ row.iteration = Iteration(events, e),
         trace \subseteq {Moved[e] : e \in events}
  PROVE  TraceSound
<1>1. /\ \A d, e \in events : d.index = e.index => d = e
      /\ \A e \in events : e.stream \in Int
  BY FilesAssumption
<1>2. /\ \A r \in trace : r.stream \in Int
      /\ \A d, e \in trace : d.index = e.index => d = e
  BY <1>1
<1>3. ASSUME NEW g \in trace, NEW l \in trace, Linked(g, l)
      PROVE  /\ l.stream < 0 /\ l.iteration = g.iteration
             /\ \A o \in trace : o.cat = "cuda_runtime" => o.index # l.index_correlation
  <2>1. PICK a \in events, b \in events : g = Moved[a] /\ l = Moved[b]
    OBVIOUS
  <2>2. a.stream > 0 /\ IndexCorrelation(events, a) > 0 /\ b.index = IndexCorrelation(events, a)
    BY <1>3, <2>1 DEF Linked
  <2>3. /\ b.stream < 0 /\ Iteration(events, b) = Iteration(events, a)
        /\ \A o \in events : o.cat = "cuda_runtime" => o.index # IndexCorrelation(events, b)
    BY <2>2, LinkedEvents
  <2> QED
    BY <2>1, <2>3
<1> QED
  BY <1>2, <1>3 DEF TraceSound

LEMMA InitIInv == Init => IInv
<1> SUFFICES ASSUME Init PROVE IInv
  OBVIOUS
<1>1. PICK events \in Files : trace \in {ParsedRows(events), Loaded(events, TRUE), Loaded(events, FALSE)}
  BY DEF Init
<1>2. TraceSound
  <2>1. CASE trace = ParsedRows(events)
    <3> DEFINE Moved == [e \in events |-> ParsedRow(events, e)]
    <3>1. \A e \in events :
            /\ Moved[e].index = e.index /\ Moved[e].stream = e.stream /\ Moved[e].cat = e.cat
            /\ Moved[e].index_correlation = IndexCorrelation(events, e)
            /\ Moved[e].iteration = Iteration(events, e)
      BY DEF ParsedRow
    <3>2. trace \subseteq {Moved[e] : e \in events}
      BY <2>1 DEF ParsedRows
    <3> HIDE DEF Moved
    <3> QED
      BY <3>1, <3>2, MovedSound
  <2>2. CASE trace # ParsedRows(events)
    <3>1. PICK m : trace \subseteq Aligned(ParsedRows(events), m)
      BY <1>1, <2>2 DEF Loaded, Filtered, KeptCpuRows, CpuRows, GpuRows
    <3> DEFINE Moved == [e \in events |-> [ParsedRow(events, e) EXCEPT !.ts = @ - m]]
    <3>2. \A e \in events :
            /\ Moved[e].index = e.index /\ Moved[e].stream = e.stream /\ Moved[e].cat = e.cat
            /\ Moved[e].index_correlation = IndexCorrelation(events, e)
            /\ Moved[e].iteration = Iteration(events, e)
      BY DEF ParsedRow
    <3>3. trace \subseteq {Moved[e] : e \in events}
      BY <3>1 DEF Aligned, ParsedRows
    <3> HIDE DEF Moved
    <3> QED
      BY <3>2, <3>3, MovedSound
  <2> QED
    BY <2>1, <2>2
<1>3. applied \in Seq(Menu)
  BY DEF Init
<1>4. DOMAIN df.rows = trace
  BY DEF Init, Frame, SetToBag
<1>5. Together(trace)
  BY <1>2 DEF Together, TraceSound, Linked
<1> QED
  BY <1>2, <1>3, <1>4, <1>5 DEF IInv

-----------------------------------------------------------------------------
(* What the filters do to linked rows *)

(* Filters of iterations take a launch and its kernel alike. *)
LEMMA IterationsKeep ==
  ASSUME TraceSound, NEW D, Together(D), NEW S
  PROVE  Together({r \in D : r.iteration \in S})
  BY DEF TraceSound, Together

LEMMA IndexSelects ==
  ASSUME NEW rows, NEW positions
  PROVE  \E S : DOMAIN ByIterationIndex(rows, positions).rows = {r \in DOMAIN rows : r.iteration \in S}
<1> DEFINE iterations == {r.iteration : r \in DOMAIN rows}
           numbered == iterations \ {-1}
           selected == {i \in numbered : Cardinality({j \in numbered : j < i}) \in positions}
<1>1. ByIterationIndex(rows, positions) =
        IF iterations = {-1} THEN Frame(rows)
        ELSE IF selected = {} THEN NoFrame
        ELSE Frame(Kept(rows, LAMBDA r : r.iteration \in selected))
  BY DEF ByIterationIndex
<1> HIDE DEF numbered, selected
<1>2. DOMAIN Frame(rows).rows = {r \in DOMAIN rows : r.iteration \in iterations}
  BY DEF Frame
<1>3. DOMAIN NoFrame.rows = {r \in DOMAIN rows : r.iteration \in {}}
  BY DEF NoFrame, EmptyBag, SetToBag
<1>4. DOMAIN Frame(Kept(rows, LAMBDA r : r.iteration \in selected)).rows
        = {r \in DOMAIN rows : r.iteration \in selected}
  BY DEF Frame, Kept
<1> QED
  BY <1>1, <1>2, <1>3, <1>4

(* The kernels that are looked up for the launches among ops: the rows of  *)
(* ops hold kernels with their launches, or are all of the host.           *)
LEMMA KernelsLookedUp ==
  ASSUME TraceSound, NEW rows, Together(DOMAIN rows),
         NEW ops, DOMAIN ops \subseteq DOMAIN rows, Together(DOMAIN ops) \/ OnHost(DOMAIN ops)
  PROVE  Together(DOMAIN WithKernels(ops, rows, TRUE))
<1> DEFINE launched == {r \in DOMAIN rows : \E o \in DOMAIN ops : o.cat = "cuda_runtime" /\ o.index = r.index_correlation}
           D == DOMAIN ops \cup launched
<1>1. DOMAIN WithKernels(ops, rows, TRUE) = D
  BY DEF WithKernels, MatchingKernels, Kept, (+)
<1>2. D \subseteq trace
  BY DEF Together
<1>3. ASSUME NEW g \in trace, NEW l \in trace, Linked(g, l), g \in D PROVE l \in D
  <2>1. CASE g \in DOMAIN ops
    <3>1. Together(DOMAIN ops)
      BY <1>3, <2>1 DEF Linked, OnHost, TraceSound
    <3> QED
      BY <1>3, <2>1, <3>1 DEF Together
  <2>2. CASE g \in launched
    <3>1. PICK o \in DOMAIN ops : o.index = g.index_correlation
      BY <2>2
    <3>2. o = l
      BY <1>2, <1>3, <3>1 DEF TraceSound, Linked
    <3> QED
      BY <3>1, <3>2
  <2> QED
    BY <1>3, <2>1, <2>2
<1>4. ASSUME NEW g \in trace, NEW l \in trace, Linked(g, l), l \in D, l.cat = "cuda_runtime"
      PROVE  g \in D
  <2>1. l \in DOMAIN ops
    <3>1. \A o \in trace : o.cat = "cuda_runtime" => o.index # l.index_correlation
      BY <1>4 DEF TraceSound
    <3> QED
      BY <1>2, <1>4, <3>1
  <2>2. g \in DOMAIN rows
    BY <1>4, <2>1 DEF Together
  <2> QED
    BY <1>4, <2>1, <2>2 DEF Linked
<1> QED
  BY <1>1, <1>2, <1>3, <1>4 DEF Together

(* What is bracketed by an operator of the host is of the host. *)
LEMMA BracketOnHost ==
  ASSUME NEW rows, NEW method, NEW op, op.stream < 0
  PROVE  DOMAIN Bracket(rows, method, op) \subseteq DOMAIN rows /\ OnHost(DOMAIN Bracket(rows, method, op))
  BY DEF Bracket, Kept, OnHost

LEMMA FoundOperator ==
  ASSUME NEW rows, NEW name, NEW position, NEW op \in Occurrences(rows, name, position)
  PROVE  op \in DOMAIN rows /\ op.name = name
  BY DEF Occurrences, Kept

(* Rows from which the kernels can be looked up. *)
Ready(ops, D) == DOMAIN ops \subseteq D /\ (Together(DOMAIN ops) \/ OnHost(DOMAIN ops))

LEMMA NarrowedReady ==
  ASSUME NEW D, D \subseteq trace, NEW frames, \A ops \in frames : Ready(ops, D),
         NEW method, NEW name, NEW position, \A r \in trace : r.name = name => r.stream < 0
  PROVE  \A ops \in Narrowed(frames, method, name, position) : Ready(ops, D)
<1> SUFFICES ASSUME NEW new \in Narrowed(frames, method, name, position) PROVE Ready(new, D)
  OBVIOUS
<1>1. PICK rows \in frames :
        new = rows \/ \E op \in Occurrences(rows, name, position) : new = Bracket(rows, method, op)
  BY DEF Narrowed
<1>2. CASE \E op \in Occurrences(rows, name, position) : new = Bracket(rows, method, op)
  <2>1. PICK op \in Occurrences(rows, name, position) : new = Bracket(rows, method, op)
    BY <1>2
  <2>2. op \in DOMAIN rows /\ op.name = name
    BY <2>1, FoundOperator
  <2>3. op.stream < 0
    BY <2>2 DEF Ready
  <2> QED
    BY <2>1, <2>3, BracketOnHost DEF Ready
<1> QED
  BY <1>1, <1>2

-----------------------------------------------------------------------------
(* The steps.  The rows of the frame after a filter that takes kernels are *)
(* together.                                                               *)

LEMMA RowsStep ==
  ASSUME TraceSound, Together(DOMAIN df.rows), NEW f, TakesKernels(f), FilterRows(f)
  PROVE  Together(DOMAIN df'.rows)
<1>1. f.kind = "iteration"
  BY DEF FilterRows, TakesKernels
<1>2. CASE df' = df
  BY <1>2
<1>3. CASE df' = Frame(Kept(df.rows, LAMBDA r : Selects(f, r)))
  <2>1. DOMAIN df'.rows = {r \in DOMAIN df.rows : r.iteration \in f.iterations}
    BY <1>1, <1>3 DEF Frame, Kept, Selects, InIterations
  <2> QED
    BY <2>1, IterationsKeep
<1> QED
  BY <1>2, <1>3 DEF FilterRows, Applied

LEMMA IterationIndexStep ==
  ASSUME TraceSound, Together(DOMAIN df.rows), NEW f, FilterIterationIndex(f)
  PROVE  Together(DOMAIN df'.rows)
<1>1. CASE df' = df
  BY <1>1
<1>2. CASE df' = ByIterationIndex(df.rows, f.positions)
  <2>1. PICK S : DOMAIN df'.rows = {r \in DOMAIN df.rows : r.iteration \in S}
    BY <1>2, IndexSelects
  <2> QED
    BY <2>1, IterationsKeep
<1> QED
  BY <1>1, <1>2 DEF FilterIterationIndex, Applied

LEMMA OperatorStep ==
  ASSUME TraceSound, Together(DOMAIN df.rows), NEW f, TakesKernels(f), FilterOperator(f)
  PROVE  Together(DOMAIN df'.rows)
<1>1. f.kind = "operator" /\ f.include_gpu_kernels /\ \A r \in trace : r.name = f.name => r.stream < 0
  BY DEF FilterOperator, TakesKernels
<1>2. \/ df' = df \/ df' = NoFrame
      \/ \E op \in Occurrences(df.rows, f.name, f.position) :
           df' = Frame(WithKernels(Bracket(df.rows, f.method, op), df.rows, f.include_gpu_kernels))
  BY DEF FilterOperator, Applied
<1>3. CASE df' = NoFrame
  BY <1>3 DEF NoFrame, EmptyBag, SetToBag, Together
<1>4. ASSUME NEW op \in Occurrences(df.rows, f.name, f.position),
             df' = Frame(WithKernels(Bracket(df.rows, f.method, op), df.rows, f.include_gpu_kernels))
      PROVE  Together(DOMAIN df'.rows)
  <2>1. op \in DOMAIN df.rows /\ op.name = f.name
    BY FoundOperator
  <2>2. op.stream < 0
    BY <1>1, <2>1 DEF Together
  <2> DEFINE ops == Bracket(df.rows, f.method, op)
  <2>3. DOMAIN ops \subseteq DOMAIN df.rows /\ OnHost(DOMAIN ops)
    BY <2>2, BracketOnHost
  <2>4. df'.rows = WithKernels(ops, df.rows, f.include_gpu_kernels)
    BY <1>4 DEF Frame
  <2>5. WithKernels(ops, df.rows, f.include_gpu_kernels) = WithKernels(ops, df.rows, TRUE)
    BY <1>1 DEF WithKernels
  <2> HIDE DEF ops
  <2> QED
    BY <2>3, <2>4, <2>5, KernelsLookedUp
<1> QED
  BY <1>2, <1>3, <1>4

LEMMA CombinedStep ==
  ASSUME TraceSound, Together(DOMAIN df.rows), NEW f, TakesKernels(f), FilterCombined(f)
  PROVE  Together(DOMAIN df'.rows)
<1>1. /\ f.kind = "combined" /\ f.include_gpu_kernels
      /\ \A r \in trace : r.name \in {f.root, f.preceding, f.following} => r.stream < 0
  BY DEF FilterCombined, TakesKernels
<1> DEFINE D == DOMAIN df.rows
           first == ByIterationIndex(df.rows, {0}).rows
           under == Narrowed({first}, "under", f.root, 0)
           after == Narrowed(under, "after", f.preceding, -1)
           before == Narrowed(after, "before", f.following, 0)
<1>2. D \subseteq trace
  BY DEF Together
<1>3. Ready(first, D)
  <2>1. PICK S : DOMAIN first = {r \in D : r.iteration \in S}
    BY IndexSelects
  <2>2. Together({r \in D : r.iteration \in S})
    BY IterationsKeep
  <2> HIDE DEF first, D
  <2> QED
    BY <2>1, <2>2 DEF Ready
<1> HIDE DEF first, D
<1>4. \A ops \in under : Ready(ops, D)
  BY <1>1, <1>2, <1>3, NarrowedReady
<1> HIDE DEF under
<1>5. \A ops \in after : Ready(ops, D)
  BY <1>1, <1>2, <1>4, NarrowedReady
<1> HIDE DEF after
<1>6. \A ops \in before : Ready(ops, D)
  BY <1>1, <1>2, <1>5, NarrowedReady
<1>7. df' = df \/ \E ops \in before : df' = Frame(WithKernels(ops, df.rows, f.include_gpu_kernels))
  BY DEF FilterCombined, Applied, CombinedRows, first, under, after
<1> HIDE DEF before
<1>8. ASSUME NEW ops \in before, df' = Frame(WithKernels(ops, df.rows, f.include_gpu_kernels))
      PROVE  Together(DOMAIN df'.rows)
  <2>1. DOMAIN ops \subseteq DOMAIN df.rows /\ (Together(DOMAIN ops) \/ OnHost(DOMAIN ops))
    BY <1>6 DEF Ready, D
  <2>2. df'.rows = WithKernels(ops, df.rows, TRUE)
    BY <1>1, <1>8 DEF Frame, WithKernels
  <2> QED
    BY <2>1, <2>2, KernelsLookedUp
<1> QED
  BY <1>7, <1>8

LEMMA NextIInv == IInv /\ [Next]_vars => IInv'
<1> SUFFICES ASSUME IInv, [Next]_vars PROVE IInv'
  OBVIOUS
<1>1. CASE Next
  <2>1. PICK f \in Menu :
          FilterRows(f) \/ FilterIterationIndex(f) \/ FilterOperator(f) \/ FilterCombined(f)
    BY <1>1 DEF Next
  <2>2. applied' = Append(applied, f) /\ UNCHANGED trace
    BY <2>1 DEF FilterRows, FilterIterationIndex, FilterOperator, FilterCombined, Use
  <2>3. TraceSound' /\ applied' \in Seq(Menu)
    BY <2>2 DEF IInv, TraceSound
  <2>4. ASSUME (\A i \in DOMAIN applied : TakesKernels(applied[i]))'
        PROVE  Together(DOMAIN df.rows)'
    <3>1. \A i \in DOMAIN applied' : TakesKernels(applied'[i])
      BY <2>2, <2>4 DEF TakesKernels
    <3>2. /\ DOMAIN applied' = 1 .. Len(applied) + 1 /\ applied'[Len(applied) + 1] = f
          /\ DOMAIN applied = 1 .. Len(applied) /\ Len(applied) \in Nat
          /\ \A i \in 1 .. Len(applied) : applied'[i] = applied[i]
      BY <2>2 DEF IInv
    <3>3. TakesKernels(f) /\ \A i \in DOMAIN applied : TakesKernels(applied[i])
      BY <3>1, <3>2
    <3>4. TraceSound /\ Together(DOMAIN df.rows)
      BY <3>3 DEF IInv
    <3>5. Together(DOMAIN df'.rows)
      BY <2>1, <3>3, <3>4, RowsStep, IterationIndexStep, OperatorStep, CombinedStep
    <3> QED
      BY <2>2, <3>5 DEF Together
  <2> QED
    BY <2>3, <2>4 DEF IInv
<1>2. CASE UNCHANGED vars
  BY <1>2 DEF vars, IInv, TraceSound, Together, TakesKernels
<1> QED
  BY <1>1, <1>2

LEMMA Inductive == Spec => []IInv
  BY InitIInv, NextIInv, PTL DEF Spec

(* For all files and filters, and however many are composed: as long as    *)
(* they take kernels along, a kernel is there only with its launch, and    *)
(* with a launch of the runtime its kernels are (get_matching_kernels and  *)
(* the iteration a kernel inherits from its launch).                       *)
THEOREM AlwaysKernelsWithLaunches == Spec => []KernelsWithLaunches
<1>1. IInv => KernelsWithLaunches
  <2> SUFFICES ASSUME IInv, \A i \in DOMAIN applied : TakesKernels(applied[i]),
                      NEW g \in trace, NEW launch \in trace, Linked(g, launch)
               PROVE  /\ There(g) => There(launch)
                      /\ There(launch) /\ launch.cat = "cuda_runtime" => There(g)
    BY DEF KernelsWithLaunches, Linked
  <2>1. Together(DOMAIN df.rows)
    BY DEF IInv
  <2>2. \A r : There(r) <=> r \in DOMAIN df.rows
    BY DEF There, BagIn, BagToSet
  <2> QED
    BY <2>1, <2>2 DEF Together
<1> QED
  BY <1>1, Inductive, PTL


-----------------------------------------------------------------------------
(* The combined filter sees one iteration only: the second invariant       *)

(* A kernel of a call of the runtime has the iteration of the call, and    *)
(* every row has one.  A row that is linked to no other has the link 0.    *)
Iterated ==
  /\ IsFiniteSet(trace) /\ \A r \in trace : r.iteration \in Int
  /\ \A r, l \in trace :
       /\ r.name \notin SyncNames
       /\ l.cat = "cuda_runtime" /\ l.index > 0 /\ r.index_correlation = l.index
       => r.iteration = l.iteration

(* A data frame with rows of D. *)
Part(rows, D) == DOMAIN rows \subseteq D /\ rows = [r \in DOMAIN rows |-> rows[r]]

PartInv == Iterated /\ Part(df.rows, trace)

LEMMA StepAtType ==
  ASSUME NEW events \in Files, NEW t
  PROVE  StepAt(events, t) \in Int
<1> DEFINE steps == {s \in ProfilerSteps(events) : s.ts <= t /\ t < s.ts + s.dur}
           indices == {s.index : s \in steps}
           last == CHOOSE s \in steps : \A u \in steps : u.index <= s.index
<1>1. CASE steps = {}
  BY <1>1 DEF StepAt
<1>2. CASE steps # {}
  <2>1. IsFiniteSet(steps) /\ steps \subseteq events
    BY FilesAssumption, FS_Subset DEF ProfilerSteps
  <2>2. IsFiniteSet(indices) /\ indices \subseteq Int /\ indices # {}
    <3> DEFINE F == [s \in steps |-> s.index]
    <3>1. F \in Surjection(steps, indices)
      BY DEF Surjection
    <3>2. IsFiniteSet(indices)
      BY <2>1, <3>1, FS_Surjection
    <3> QED
      BY <1>2, <2>1, <3>2, FilesAssumption
  <2>3. \E s \in steps : \A u \in steps : u.index <= s.index
    <3>1. Max(indices) \in indices /\ \A i \in indices : i <= Max(indices)
      <4> HIDE DEF indices
      <4> QED
        BY <2>2, Greatest
    <3> QED
      BY <3>1
  <2>4. last \in steps
    BY <2>3
  <2>5. last.name \in StepNames
    BY <2>4 DEF ProfilerSteps
  <2>6. StepAt(events, t) = StepNumber[last.name]
    BY <1>2 DEF StepAt
  <2> QED
    BY <2>5, <2>6, StepAssumption
<1> QED
  BY <1>1, <1>2

LEMMA IterationType ==
  ASSUME NEW events \in Files, NEW e \in events
  PROVE  Iteration(events, e) \in Int
<1>1. e.stream \in Int \ {0} /\ \A d \in events : d.index \in Nat /\ d.stream \in Int \ {0}
  BY FilesAssumption
<1>2. CASE e.stream < 0
  BY <1>1, <1>2, StepAtType DEF Iteration, IterationByTime
<1>3. CASE e.stream > 0 /\ IndexCorrelation(events, e) > 0
  <2>1. Partners(events, e) # {}
    <3> SUFFICES ASSUME Partners(events, e) = {} PROVE FALSE
      OBVIOUS
    <3>1. IndexCorrelation(events, e) = IF e.correlation < 0 THEN e.correlation ELSE 0
      BY DEF IndexCorrelation
    <3>2. e.correlation \in Int
      BY FilesAssumption
    <3> QED
      BY <1>3, <3>1, <3>2
  <2>2. PICK p \in events : p.index = IndexCorrelation(events, e)
    BY <2>1, LinkIsPartner DEF Partners
  <2>3. p.stream < 0
    BY <1>3, <2>2, LinkedEvents
  <2>4. (CHOOSE q \in events : q.index = IndexCorrelation(events, e)) = p
    BY <2>2, FilesAssumption
  <2>5. Iteration(events, e) = IterationByTime(events, p)
    <3>1. ~(e.stream <= 0)
      BY <1>1, <1>3
    <3> QED
      BY <1>3, <2>4, <3>1 DEF Iteration
  <2> QED
    BY <2>3, <2>5, StepAtType DEF IterationByTime
<1>4. CASE e.stream > 0 /\ ~(IndexCorrelation(events, e) > 0)
  BY <1>1, <1>4 DEF Iteration
<1> QED
  BY <1>1, <1>2, <1>3, <1>4

(* The row of a call's kernel. *)
LEMMA CalledEvents ==
  ASSUME NEW events \in Files, NEW g \in events, NEW l \in events, g.name \notin SyncNames,
         l.cat = "cuda_runtime", l.index > 0, IndexCorrelation(events, g) = l.index
  PROVE  Iteration(events, l) = Iteration(events, g)
<1>1. /\ \A d, e \in events : d.index = e.index => d = e
      /\ g.stream \in Int \ {0} /\ g.correlation \in Int /\ l.index \in Nat
      /\ \A e \in GpuRows(events) : e.cat # "cuda_runtime"
  BY FilesAssumption
<1>2. Partners(events, g) # {}
  <2> SUFFICES ASSUME Partners(events, g) = {} PROVE FALSE
    OBVIOUS
  <2>1. IndexCorrelation(events, g) = IF g.correlation < 0 THEN g.correlation ELSE 0
    BY DEF IndexCorrelation
  <2> QED
    BY <1>1, <2>1
<1>3. PICK p \in Partners(events, g) : p.index = IndexCorrelation(events, g)
  BY <1>2, LinkIsPartner
<1>4. p = l
  BY <1>1, <1>3 DEF Partners
<1>5. ~OnGpu(l) /\ OnGpu(l) # OnGpu(g)
  BY <1>1, <1>3, <1>4 DEF Partners, GpuRows
<1>6. OnGpu(g)
  BY <1>5 DEF OnGpu
<1>7. g.stream > 0
  BY <1>1, <1>6 DEF OnGpu
<1> QED
  BY <1>7, LinkedEvents

LEMMA MovedIterated ==
  ASSUME NEW events \in Files, NEW Moved,
         \A e \in events :
           LET row == Moved[e] IN
             /\ row.index = e.index /\ row.name = e.name /\ row.cat = e.cat
             /\ row.index_correlation = IndexCorrelation(events, e)
             /\ row.iteration = Iteration(events, e),
         trace \subseteq {Moved[e] : e \in events}
  PROVE  Iterated
<1>1. IsFiniteSet(trace)
  <2>1. IsFiniteSet({Moved[e] : e \in events})
    BY FilesAssumption, Image
  <2> QED
    BY <2>1, FS_Subset
<1>2. ASSUME NEW r \in trace PROVE r.iteration \in Int
  <2>1. PICK e \in events : r = Moved[e]
    OBVIOUS
  <2> QED
    BY <2>1, IterationType
<1>3. ASSUME NEW r \in trace, NEW l \in trace, r.name \notin SyncNames,
             l.cat = "cuda_runtime", l.index > 0, r.index_correlation = l.index
      PROVE  r.iteration = l.iteration
  <2>1. PICK a \in events, b \in events : r = Moved[a] /\ l = Moved[b]
    OBVIOUS
  <2>2. /\ a.name \notin SyncNames /\ b.cat = "cuda_runtime" /\ b.index > 0
        /\ IndexCorrelation(events, a) = b.index
    BY <1>3, <2>1
  <2>3. Iteration(events, b) = Iteration(events, a)
    BY <2>2, CalledEvents
  <2> QED
    BY <2>1, <2>3
<1> QED
  BY <1>1, <1>2, <1>3 DEF Iterated


LEMMA InitPartInv == Init => PartInv
<1> SUFFICES ASSUME Init PROVE PartInv
  OBVIOUS
<1>1. PICK events \in Files : trace \in {ParsedRows(events), Loaded(events, TRUE), Loaded(events, FALSE)}
  BY DEF Init
<1>2. Iterated
  <2>1. CASE trace = ParsedRows(events)
    <3> DEFINE Moved == [e \in events |-> ParsedRow(events, e)]
    <3>1. \A e \in events :
            /\ Moved[e].index = e.index /\ Moved[e].name = e.name /\ Moved[e].cat = e.cat
            /\ Moved[e].index_correlation = IndexCorrelation(events, e)
            /\ Moved[e].iteration = Iteration(events, e)
      BY DEF ParsedRow
    <3>2. trace \subseteq {Moved[e] : e \in events}
      BY <2>1 DEF ParsedRows
    <3> HIDE DEF Moved
    <3> QED
      BY <3>1, <3>2, MovedIterated
  <2>2. CASE trace # ParsedRows(events)
    <3>1. PICK m : trace \subseteq Aligned(ParsedRows(events), m)
      BY <1>1, <2>2 DEF Loaded, Filtered, KeptCpuRows, CpuRows, GpuRows
    <3> DEFINE Moved == [e \in events |-> [ParsedRow(events, e) EXCEPT !.ts = @ - m]]
    <3>2. \A e \in events :
            /\ Moved[e].index = e.index /\ Moved[e].name = e.name /\ Moved[e].cat = e.cat
            /\ Moved[e].index_correlation = IndexCorrelation(events, e)
            /\ Moved[e].iteration = Iteration(events, e)
      BY DEF ParsedRow
    <3>3. trace \subseteq {Moved[e] : e \in events}
      BY <3>1 DEF Aligned, ParsedRows
    <3> HIDE DEF Moved
    <3> QED
      BY <3>2, <3>3, MovedIterated
  <2> QED
    BY <2>1, <2>2
<1>3. Part(df.rows, trace)
  BY DEF Init, Frame, SetToBag, Part
<1> QED
  BY <1>2, <1>3 DEF PartInv

(* The filters return parts of what they are given. *)
LEMMA NoFramePart == \A D : Part(NoFrame.rows, D)
  BY DEF NoFrame, EmptyBag, SetToBag, Part

LEMMA IndexPart ==
  ASSUME NEW rows, NEW D, Part(rows, D), NEW positions
  PROVE  Part(ByIterationIndex(rows, positions).rows, D)
<1> DEFINE iterations == {r.iteration : r \in DOMAIN rows}
           numbered == iterations \ {-1}
           selected == {i \in numbered : Cardinality({j \in numbered : j < i}) \in positions}
<1>1. ByIterationIndex(rows, positions) =
        IF iterations = {-1} THEN Frame(rows)
        ELSE IF selected = {} THEN NoFrame
        ELSE Frame(Kept(rows, LAMBDA r : r.iteration \in selected))
  BY DEF ByIterationIndex
<1> HIDE DEF numbered, selected
<1>2. Part(Kept(rows, LAMBDA r : r.iteration \in selected), D)
  BY DEF Part, Kept
<1> QED
  BY <1>1, <1>2, NoFramePart DEF Frame

LEMMA BracketPart ==
  ASSUME NEW rows, NEW D, Part(rows, D), NEW method, NEW op
  PROVE  Part(Bracket(rows, method, op), D)
  BY DEF Part, Bracket, Kept

LEMMA NarrowedPart ==
  ASSUME NEW D, NEW frames, \A rows \in frames : Part(rows, D), NEW method, NEW name, NEW position
  PROVE  \A rows \in Narrowed(frames, method, name, position) : Part(rows, D)
<1> SUFFICES ASSUME NEW new \in Narrowed(frames, method, name, position) PROVE Part(new, D)
  OBVIOUS
<1>1. PICK rows \in frames :
        new = rows \/ \E op \in Occurrences(rows, name, position) : new = Bracket(rows, method, op)
  BY DEF Narrowed
<1> QED
  BY <1>1, BracketPart

LEMMA KernelsPart ==
  ASSUME NEW D, NEW ops, Part(ops, D), NEW rows, Part(rows, D), NEW k
  PROVE  Part(WithKernels(ops, rows, k), D)
<1>1. Part(MatchingKernels(ops, rows), D)
  BY DEF Part, MatchingKernels, Kept
<1> HIDE DEF MatchingKernels
<1>2. Part(ops (+) MatchingKernels(ops, rows), D)
  BY <1>1 DEF Part, (+)
<1> QED
  BY <1>2 DEF WithKernels

(* What the criteria of a combined filter make of a frame. *)
Criteria(f, frame) ==
  LET under == Narrowed({frame}, "under", f.root, 0)
      after == Narrowed(under, "after", f.preceding, -1)
  IN Narrowed(after, "before", f.following, 0)

LEMMA CriteriaPart ==
  ASSUME NEW D, NEW frame, Part(frame, D), NEW f
  PROVE  \A ops \in Criteria(f, frame) : Part(ops, D)
<1> DEFINE under == Narrowed({frame}, "under", f.root, 0)
           after == Narrowed(under, "after", f.preceding, -1)
<1>1. \A ops \in under : Part(ops, D)
  BY NarrowedPart
<1> HIDE DEF under
<1>2. \A ops \in after : Part(ops, D)
  BY <1>1, NarrowedPart
<1> HIDE DEF after
<1> QED
  BY <1>2, NarrowedPart DEF Criteria, under, after

LEMMA CombinedIsCriteria ==
  ASSUME NEW f, NEW rows
  PROVE  CombinedRows(f, rows) =
           {WithKernels(ops, rows, f.include_gpu_kernels)
              : ops \in Criteria(f, ByIterationIndex(rows, {0}).rows)}
  BY DEF CombinedRows, Criteria

LEMMA NextPartInv == PartInv /\ [Next]_vars => PartInv'
<1> SUFFICES ASSUME PartInv, [Next]_vars PROVE PartInv'
  OBVIOUS
<1>1. trace' = trace
  BY DEF Next, FilterRows, FilterIterationIndex, FilterOperator, FilterCombined, Use, vars
<1>2. Iterated'
  BY <1>1 DEF PartInv, Iterated
<1>3. Part(df'.rows, trace)
  <2>1. CASE df' = df
    BY <2>1 DEF PartInv
  <2>2. ASSUME NEW f \in Menu, FilterRows(f), df' # df PROVE Part(df'.rows, trace)
    <3>1. df' = Frame(Kept(df.rows, LAMBDA r : Selects(f, r)))
      BY <2>2 DEF FilterRows, Applied
    <3> HIDE DEF Selects
    <3> QED
      BY <3>1 DEF PartInv, Part, Kept, Frame
  <2>3. ASSUME NEW f \in Menu, FilterIterationIndex(f), df' # df PROVE Part(df'.rows, trace)
    <3>1. df' = ByIterationIndex(df.rows, f.positions)
      BY <2>3 DEF FilterIterationIndex, Applied
    <3> QED
      BY <3>1, IndexPart DEF PartInv
  <2>4. ASSUME NEW f \in Menu, FilterOperator(f), df' # df PROVE Part(df'.rows, trace)
    <3>1. \/ df' = NoFrame
          \/ \E op : df' = Frame(WithKernels(Bracket(df.rows, f.method, op), df.rows, f.include_gpu_kernels))
      BY <2>4 DEF FilterOperator, Applied
    <3>2. CASE df' = NoFrame
      BY <3>2, NoFramePart
    <3>3. ASSUME NEW op, df' = Frame(WithKernels(Bracket(df.rows, f.method, op), df.rows, f.include_gpu_kernels))
          PROVE  Part(df'.rows, trace)
      <4>1. df'.rows = WithKernels(Bracket(df.rows, f.method, op), df.rows, f.include_gpu_kernels)
        BY <3>3 DEF Frame
      <4>2. Part(Bracket(df.rows, f.method, op), trace)
        BY BracketPart DEF PartInv
      <4> QED
        BY <4>1, <4>2, KernelsPart DEF PartInv
    <3> QED
      BY <3>1, <3>2, <3>3
  <2>5. ASSUME NEW f \in Menu, FilterCombined(f), df' # df PROVE Part(df'.rows, trace)
    <3>1. PICK rows \in CombinedRows(f, df.rows) : df' = Frame(rows)
      BY <2>5 DEF FilterCombined, Applied
    <3>2. PICK ops \in Criteria(f, ByIterationIndex(df.rows, {0}).rows) :
            rows = WithKernels(ops, df.rows, f.include_gpu_kernels)
      BY CombinedIsCriteria
    <3>3. Part(ops, trace)
      BY IndexPart, CriteriaPart DEF PartInv
    <3>4. Part(rows, trace)
      BY <3>2, <3>3, KernelsPart DEF PartInv
    <3> QED
      BY <3>1, <3>4 DEF Frame
  <2> QED
    BY <2>1, <2>2, <2>3, <2>4, <2>5 DEF Next, vars
<1> QED
  BY <1>1, <1>2, <1>3 DEF PartInv, Part

LEMMA AlwaysPart == Spec => []PartInv
  BY InitPartInv, NextPartInv, PTL DEF Spec


-----------------------------------------------------------------------------
(* The first iteration *)

LEMMA OnlyLeastIsFirst ==
  ASSUME NEW N, IsFiniteSet(N), N \subseteq Int, N # {}
  PROVE  {i \in N : Cardinality({j \in N : j < i}) \in {0}} = {Min(N)}
<1>1. Min(N) \in N /\ \A t \in N : Min(N) <= t
  BY LeastInteger
<1>2. PICK m : m = Min(N) /\ m \in N /\ m \in Int /\ \A t \in N : m <= t
  BY <1>1
<1>3. ASSUME NEW i \in N PROVE Cardinality({j \in N : j < i}) = 0 <=> i = m
  <2>1. IsFiniteSet({j \in N : j < i})
    BY FS_Subset
  <2>2. Cardinality({j \in N : j < i}) = 0 <=> {j \in N : j < i} = {}
    BY <2>1, FS_EmptySet
  <2>3. i \in Int /\ \A t \in N : t \in Int
    OBVIOUS
  <2>4. {j \in N : j < i} = {} <=> i = m
    <3>1. i # m => m \in {j \in N : j < i}
      BY <1>2, <2>3
    <3>2. i = m => \A j \in N : ~(j < i)
      BY <1>2, <2>3
    <3> QED
      BY <3>1, <3>2
  <2> QED
    BY <2>2, <2>4
<1> QED
  BY <1>2, <1>3

(* Of a frame that is cut to its first iteration that is the first one.    *)
LEMMA FirstAgain ==
  ASSUME Iterated, NEW rows, Part(rows, trace), DOMAIN rows # {}
  PROVE  LET first == ByIterationIndex(rows, {0}).rows
         IN ByIterationIndex(first, {0}).rows = first
<1> DEFINE Its(frame) == {r.iteration : r \in DOMAIN frame}
           Firsts(N) == {i \in N : Cardinality({j \in N : j < i}) \in {0}}
           Cut(frame, N) == [r \in {q \in DOMAIN frame : q.iteration \in N} |-> frame[r]]
<1>1. ASSUME NEW frame
      PROVE  /\ Its(frame) = {-1} => ByIterationIndex(frame, {0}).rows = frame
             /\ Its(frame) # {-1} /\ Firsts(Its(frame) \ {-1}) # {} =>
                  ByIterationIndex(frame, {0}).rows = Cut(frame, Firsts(Its(frame) \ {-1}))
  BY DEF ByIterationIndex, Frame, Kept
<1>2. IsFiniteSet(Its(rows)) /\ Its(rows) \subseteq Int /\ Its(rows) # {}
  <2> DEFINE F == [r \in DOMAIN rows |-> r.iteration]
  <2>1. F \in Surjection(DOMAIN rows, Its(rows))
    BY DEF Surjection
  <2>2. IsFiniteSet(DOMAIN rows)
    BY FS_Subset DEF Part, Iterated
  <2>3. IsFiniteSet(Its(rows))
    BY <2>1, <2>2, FS_Surjection
  <2> QED
    BY <2>3 DEF Part, Iterated
<1>3. PICK first : first = ByIterationIndex(rows, {0}).rows
  OBVIOUS
<1>4. CASE Its(rows) = {-1}
  BY <1>1, <1>3, <1>4
<1>5. CASE Its(rows) # {-1}
  <2>1. PICK N : N = Its(rows) \ {-1} /\ IsFiniteSet(N) /\ N \subseteq Int /\ N # {}
    <3>1. Its(rows) \ {-1} \in SUBSET Its(rows)
      OBVIOUS
    <3>2. IsFiniteSet(Its(rows) \ {-1})
      BY <1>2, <3>1, FS_Subset
    <3> HIDE DEF Its
    <3> QED
      BY <1>2, <1>5, <3>2
  <2>2. PICK m : Firsts(N) = {m} /\ m \in N
    <3>1. Firsts(N) = {Min(N)}
      BY <2>1, OnlyLeastIsFirst
    <3>2. Min(N) \in N
      BY <2>1, LeastInteger
    <3> HIDE DEF Firsts
    <3> QED
      BY <3>1, <3>2
  <2>3. first = Cut(rows, {m})
    <3> HIDE DEF Its, Firsts, Cut
    <3> QED
      BY <1>1, <1>3, <1>5, <2>1, <2>2
  <2>4. /\ first = [r \in DOMAIN first |-> first[r]] /\ \A r \in DOMAIN first : r.iteration = m
        /\ DOMAIN first # {}
    BY <2>1, <2>2, <2>3
  <2>5. Its(first) = {m} /\ m # -1 /\ m \in Int
    BY <2>1, <2>2, <2>4
  <2>6. Firsts({m}) = {m}
    <3>1. IsFiniteSet({m}) /\ {m} \subseteq Int /\ {m} # {}
      BY <2>5, FS_Singleton
    <3>2. Min({m}) \in {m}
      BY <3>1, LeastInteger
    <3> QED
      BY <3>1, <3>2, OnlyLeastIsFirst
  <2>7. Its(first) # {-1} /\ Its(first) \ {-1} = {m}
    BY <2>5
  <2>8. ByIterationIndex(first, {0}).rows = Cut(first, {m})
    <3> HIDE DEF Its, Firsts, Cut
    <3> QED
      BY <1>1, <2>6, <2>7
  <2>9. Cut(first, {m}) = first
    BY <2>4
  <2> HIDE DEF Cut
  <2> QED
    BY <1>3, <2>8, <2>9
<1> QED
  BY <1>4, <1>5

(* The row 0 of no file is a call of the runtime: 0 is also the link of a  *)
(* row whose linked event is not in the file, and get_matching_kernels     *)
(* would take that for a kernel of the call.                               *)
RowZeroIsNoCall ==
  \A events \in Files : \A e \in events : e.index = 0 => e.cat # "cuda_runtime"

CallsAfterZero == \A r \in trace : r.index \in Nat /\ (r.cat = "cuda_runtime" => r.index > 0)

LEMMA AlwaysAfterZero ==
  ASSUME RowZeroIsNoCall
  PROVE  Spec => []CallsAfterZero
<1>1. Init => CallsAfterZero
  <2> SUFFICES ASSUME Init PROVE CallsAfterZero
    OBVIOUS
  <2>1. PICK events \in Files : trace \in {ParsedRows(events), Loaded(events, TRUE), Loaded(events, FALSE)}
    BY DEF Init
  <2>2. \A e \in events : e.index \in Nat /\ (e.cat = "cuda_runtime" => e.index > 0)
    BY FilesAssumption DEF RowZeroIsNoCall
  <2>3. \A r \in trace : \E e \in events : r.index = e.index /\ r.cat = e.cat
    <3>1. CASE trace = ParsedRows(events)
      BY <3>1 DEF ParsedRows, ParsedRow
    <3>2. CASE trace # ParsedRows(events)
      <4>1. PICK m : trace \subseteq Aligned(ParsedRows(events), m)
        BY <2>1, <3>2 DEF Loaded, Filtered, KeptCpuRows, CpuRows, GpuRows
      <4> QED
        BY <4>1 DEF Aligned, ParsedRows, ParsedRow
    <3> QED
      BY <3>1, <3>2
  <2> QED
    BY <2>2, <2>3 DEF CallsAfterZero
<1>2. CallsAfterZero /\ [Next]_vars => CallsAfterZero'
  <2> SUFFICES ASSUME CallsAfterZero, [Next]_vars PROVE CallsAfterZero'
    OBVIOUS
  <2>1. trace' = trace
    BY DEF Next, FilterRows, FilterIterationIndex, FilterOperator, FilterCombined, Use, vars
  <2> QED
    BY <2>1 DEF CallsAfterZero
<1> QED
  BY <1>1, <1>2, PTL DEF Spec

(* For all files whose first row is no call of the runtime, all filters    *)
(* and any number of them applied before: CombinedOperatorFilter, which    *)
(* looks for the kernels in the whole frame, selects what it would select  *)
(* had the frame been cut to its first iteration, device synchronizations  *)
(* apart (CombinedOperatorFilter.__call__ and add_iteration).              *)
THEOREM AlwaysFirstIterationAbsorbed ==
  ASSUME RowZeroIsNoCall
  PROVE  Spec => []FirstIterationAbsorbed
<1>1. PartInv /\ CallsAfterZero => FirstIterationAbsorbed
  <2> SUFFICES ASSUME PartInv, CallsAfterZero, df.rows # EmptyBag, NEW f \in Menu
               PROVE  LET Selected(rows) == {{r \in DOMAIN selected : r.name \notin SyncNames}
                                              : selected \in CombinedRows(f, rows)}
                      IN Selected(df.rows) = Selected(ByIterationIndex(df.rows, {0}).rows)
    BY DEF FirstIterationAbsorbed
  <2> DEFINE Visible(frame) == {r \in DOMAIN frame : r.name \notin SyncNames}
             k == f.include_gpu_kernels
  <2>1. PICK rows : rows = df.rows
    OBVIOUS
  <2>2. PICK first : first = ByIterationIndex(rows, {0}).rows
    OBVIOUS
  <2>3. Part(rows, trace) /\ DOMAIN rows # {} /\ Part(first, DOMAIN rows)
    <3>1. Part(rows, trace)
      BY <2>1 DEF PartInv
    <3>2. DOMAIN rows # {}
      BY <2>1, <3>1 DEF Part, EmptyBag, SetToBag
    <3>3. Part(rows, DOMAIN rows)
      BY <3>1 DEF Part
    <3> QED
      BY <2>2, <3>1, <3>2, <3>3, IndexPart
  <2>4. ByIterationIndex(first, {0}).rows = first
    BY <2>2, <2>3, FirstAgain DEF PartInv
  <2>5. /\ CombinedRows(f, rows) = {WithKernels(ops, rows, k) : ops \in Criteria(f, first)}
        /\ CombinedRows(f, first) = {WithKernels(ops, first, k) : ops \in Criteria(f, first)}
    BY <2>2, <2>4, CombinedIsCriteria
  <2>6. PICK S : DOMAIN first = {r \in DOMAIN rows : r.iteration \in S}
    BY <2>2, IndexSelects
  <2>7. \A ops \in Criteria(f, first) : DOMAIN ops \subseteq DOMAIN first
    <3>1. Part(first, DOMAIN first)
      BY <2>3 DEF Part
    <3> QED
      BY <3>1, CriteriaPart DEF Part
  <2>8. ASSUME NEW ops \in Criteria(f, first)
        PROVE  Visible(WithKernels(ops, rows, k)) = Visible(WithKernels(ops, first, k))
    <3>1. CASE ~k
      BY <3>1 DEF WithKernels
    <3>2. CASE k
      <4> DEFINE Launched(frame) ==
                   {r \in DOMAIN frame : \E o \in DOMAIN ops : o.cat = "cuda_runtime" /\ o.index = r.index_correlation}
      <4>1. \A frame : DOMAIN WithKernels(ops, frame, k) = DOMAIN ops \cup Launched(frame)
        BY <3>2 DEF WithKernels, MatchingKernels, Kept, (+)
      <4>2. ASSUME NEW r, r.name \notin SyncNames PROVE r \in Launched(rows) <=> r \in Launched(first)
        <5>1. r \in Launched(first) => r \in Launched(rows)
          BY <2>3 DEF Part
        <5>2. ASSUME r \in Launched(rows) PROVE r \in Launched(first)
          <6>1. PICK o \in DOMAIN ops : o.cat = "cuda_runtime" /\ o.index = r.index_correlation
            BY <5>2
          <6>2. o \in DOMAIN first /\ o \in DOMAIN rows /\ o \in trace /\ r \in DOMAIN rows /\ r \in trace
            BY <2>3, <2>7, <5>2 DEF Part
          <6>3. o.index > 0
            BY <6>1, <6>2 DEF CallsAfterZero
          <6>4. r.iteration = o.iteration
            BY <4>2, <6>1, <6>2, <6>3 DEF PartInv, Iterated
          <6> QED
            BY <2>6, <6>1, <6>2, <6>4
        <5> QED
          BY <5>1, <5>2
      <4> HIDE DEF Launched
      <4> QED
        BY <4>1, <4>2
    <3> QED
      BY <3>1, <3>2
  <2>9. {Visible(selected) : selected \in CombinedRows(f, rows)}
          = {Visible(selected) : selected \in CombinedRows(f, first)}
    <3> HIDE DEF Visible, k
    <3> QED
      BY <2>5, <2>8
  <2> QED
    BY <2>1, <2>2, <2>9
<1> QED
  BY <1>1, AlwaysPart, AlwaysAfterZero, PTL

=============================================================================
