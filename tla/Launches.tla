------------------------------ MODULE Launches ------------------------------
(***************************************************************************)
(* The analyses of launches: hta/analyzers/trace_counters.py sums up the   *)
(* queue length of the CUDA streams and the bandwidth of the memory        *)
(* copies, and the time that a queue was full;                             *)
(* hta/analyzers/cuda_kernel_analysis.py finds the ATen operator of every  *)
(* launch.  Each call goes through the ranks one by one.                   *)
(*                                                                         *)
(* Rows are sorted by time with a sort that is not stable, so rows with    *)
(* one time stamp come in any order.                                       *)
(***************************************************************************)
EXTENDS LaunchRows, Sequences, SequencesExt, Functions

CONSTANTS
  Asked,           \* the ranks a call is made for, in their order
  Traces,          \* the data frames that the ranks may have
  MaxQueueLength,  \* the argument max_queue_length
  CopyKinds,       \* the names of memory kernels, each the one of a kind
  Analyses,        \* the calls that are made: "queue", "memory", "aten"
  Residue,         \* the most a sum of two bandwidths is off
  None             \* Python's None

Ranks == Range(Asked)

ASSUME AskedAssumption == Asked \in Seq(Ranks)

(* The pairs of a launch and its kernel are one to one, and a launch is    *)
(* earlier than its kernel.                                                *)
Paired(rows) ==
  /\ \A d, e \in rows : d.index = e.index => d = e
  /\ \A c, d \in RuntimeCalls(rows) : c.correlation = d.correlation => c = d
  /\ \A j, k \in Started(rows) : j.correlation = k.correlation => j = k
  /\ \A c \in RuntimeCalls(rows) : \A k \in Enqueued(rows, c) : c.ts < k.ts

(* Bandwidths are counted in a unit of which all of them are multiples,    *)
(* which floats have.  An event shorter than a microsecond has the         *)
(* duration -1, where round_down_time_stamps moved its start beyond its    *)
(* end (trace_parser.py:384-388).                                          *)
ASSUME TracesAssumption ==
  \A frames \in Traces : \A r \in Ranks :
    /\ r \in DOMAIN frames
    /\ IsFiniteSet(frames[r])
    /\ Paired(frames[r])
    /\ \A e \in frames[r] : /\ e.index \in Nat /\ e.ts \in Int /\ e.dur \in Nat \cup {-1}
                            /\ e.stream \in Int /\ e.bandwidth \in Nat

ASSUME NoneAssumption == None \notin Int
ASSUME AnalysesAssumption == Analyses \subseteq {"queue", "memory", "aten"}
ASSUME MaxQueueLengthAssumption == MaxQueueLength \in Nat \ {0}
ASSUME ResidueAssumption == Residue \in Nat

VARIABLES
  trace,    \* the data frames of all ranks
  call,     \* the analysis that is made
  pc,       \* what it does next; "returned" or "raised" at its end
  todo,     \* the ranks it has not begun, in their order
  rank,     \* the rank it is at
  left,     \* the rows of the rank that it has not come to
  group,    \* the stream, or the kind of copy, of the running sum
  running,  \* the running sum, cumsum()
  series,   \* the points of the ranks, those of one group in their order
  blocked,  \* the dictionary result of get_time_spent_blocked_on_full_queue
  stats,    \* launch_stats, every record with the launch it is about
  results   \* result_dict of get_aten_op_kernels_and_delay

sumVars == <<left, group, running>>
vars == <<trace, call, pc, todo, rank, sumVars, series, blocked, stats, results>>

-----------------------------------------------------------------------------
(* _get_memory_bw_time_series_for_rank *)

Copies(rows) == {k \in GpuKernels(rows) : k.name \in CopyKinds}

(* Mutant of RoundedDur: a copy may start and end in one moment. *)
Dur(k) == k.dur

(* An event of 0 us is rounded up; one of -1 us is not, and ends before it *)
(* starts.                                                                 *)
RoundedDur(k) == IF k.dur = 0 THEN 1 ELSE k.dur

BandwidthChanges(rows) ==
  LET at(k, ts, by) == [work |-> k.index, group |-> k.name, index |-> k.index, ts |-> ts, by |-> by]
  IN UNION {{at(k, k.ts, k.bandwidth), at(k, k.ts + RoundedDur(k), -k.bandwidth)} : k \in Copies(rows)}

-----------------------------------------------------------------------------
Init ==
  /\ trace \in Traces
  /\ call \in Analyses
  /\ pc = "rank"
  /\ todo = Asked /\ rank = None
  /\ left = {} /\ group = None /\ running = 0
  /\ series = << >>
  /\ blocked = << >>
  /\ stats = {} /\ results = << >>

(* The rows that a call goes through in a rank. *)
RowsOf(rows) ==
  CASE call = "queue" -> QueueChanges(rows)
    [] call = "memory" -> BandwidthChanges(rows)
    [] call = "aten" -> {r \in rows : r.name = "launch"}

(* The result of a rank that is asked for twice is computed twice, and     *)
(* stored in place of the first.                                           *)
StartRank ==
  /\ pc = "rank" /\ todo # << >>
  /\ rank' = Head(todo) /\ todo' = Tail(todo)
  /\ left' = RowsOf(trace[Head(todo)])
  /\ group' = None /\ running' = 0
  /\ pc' = IF call = "queue" /\ ~CallsMatchKernels(trace[Head(todo)]) THEN "raised"
           ELSE IF call = "aten" THEN "launch" ELSE "sum"
  /\ series' = [q \in DOMAIN series \ {Head(todo)} |-> series[q]]
  /\ UNCHANGED <<trace, call, blocked, stats, results>>

PointsOf(r) == IF r \in DOMAIN series THEN series[r] ELSE << >>

(* The frame is cut into groups after the sort; cumsum() runs in each. *)
Earliest(rows, r) == \A s \in rows : s.group = r.group => r.ts <= s.ts

(* What cumsum() may add up to: queue lengths are whole numbers, but       *)
(* bandwidths are floats, whose sum is rounded unless one of them or the   *)
(* sum is 0.                                                               *)
Added(by) ==
  IF call = "queue" \/ 0 \in {running, by, running + by} THEN {running + by}
  ELSE (running + by - Residue) .. (running + by + Residue)

SumRow ==
  /\ pc = "sum"
  /\ \E r \in left : \E sum \in Added(r.by) :
       /\ group # None /\ r.group = group
       /\ Earliest(left, r)
       /\ running' = sum
       /\ left' = left \ {r}
       /\ series' = [q \in DOMAIN series \cup {rank} |->
                       IF q = rank
                       THEN Append(PointsOf(rank),
                                   [group |-> group, index |-> r.index, ts |-> r.ts,
                                    value |-> sum])
                       ELSE series[q]]
  /\ UNCHANGED <<trace, call, pc, todo, rank, group, blocked, stats, results>>

(* groupby goes on to the next group, in their order. *)
NextGroup ==
  /\ pc = "sum"
  /\ ~ \E r \in left : r.group = group
  /\ \E r \in left :
       /\ call = "queue" => \A s \in left : r.group <= s.group
       /\ group' = r.group
  /\ running' = 0
  /\ UNCHANGED <<trace, call, pc, todo, rank, left, series, blocked, stats, results>>

FinishSum ==
  /\ pc = "sum" /\ left = {}
  /\ pc' = "rank" /\ group' = None /\ running' = 0
  /\ UNCHANGED <<trace, call, todo, rank, left, series, blocked, stats, results>>

-----------------------------------------------------------------------------
(* get_time_spent_blocked_on_full_queue, with the series just made *)

Streams(r) == {p.group : p \in Range(series[r])}

(* The rows of a stream in the frame of the rank, and the next of a row.   *)
StreamPoints(r, stream) == {i \in DOMAIN series[r] : series[r][i].group = stream}
After(rows, i) == Min({j \in rows : i < j})

(* Mutant of BlockedTime: the time before a point, shift(1). *)
BlockedTimeBefore(points, rows) ==
  SumFunction([i \in {j \in rows : j # Min(rows) /\ points[j].value >= MaxQueueLength} |->
                 points[i].ts - points[Max({j \in rows : j < i})].ts])

(* Mutant of BlockedTime: the earlier of two points minus the later. *)
BlockedTimeBackward(points, rows) ==
  SumFunction([i \in {j \in rows : j # Max(rows) /\ points[j].value >= MaxQueueLength} |->
                 points[i].ts - points[After(rows, i)].ts])

(* The last point has no successor, its dur is NaN and not summed. *)
BlockedTime(points, rows) ==
  SumFunction([i \in {j \in rows : j # Max(rows) /\ points[j].value >= MaxQueueLength} |->
                 points[After(rows, i)].ts - points[i].ts])

(* The entry of the rank is assigned for every stream that was full, in    *)
(* the order of the streams.                                               *)
FullStreams(r) == {s \in Streams(r) : \E p \in Range(series[r]) : p.group = s /\ p.value >= MaxQueueLength}

MeasureBlocked ==
  /\ pc = "rank" /\ todo = << >> /\ call = "queue"
  /\ blocked' = [r \in {q \in DOMAIN series : FullStreams(q) # {}} |->
                   LET stream == Max(FullStreams(r))
                   IN [stream |-> stream, dur |-> BlockedTime(series[r], StreamPoints(r, stream))]]
  /\ pc' = "returned"
  /\ UNCHANGED <<trace, call, todo, rank, sumVars, series, stats, results>>

Return ==
  /\ pc = "rank" /\ todo = << >> /\ call # "queue"
  /\ pc' = "returned"
  /\ UNCHANGED <<trace, call, todo, rank, sumVars, series, blocked, stats, results>>

-----------------------------------------------------------------------------
(* get_aten_op_kernels_and_delay *)

(* The rows that find_deepest_aten_op may return, the first of those that  *)
(* start last; the thread is not asked for.                                *)
Wrapping(rows, event) ==
  {op \in rows : /\ op.name = "aten"
                 /\ op.ts <= event.ts /\ op.ts + op.dur >= event.ts + event.dur}
DeepestAtenOps(rows, event) ==
  {op \in Wrapping(rows, event) : \A o \in Wrapping(rows, event) : o.ts <= op.ts}

KernelsOf(rows, event) == {k \in GpuKernels(rows) : k.index_correlation = event.index}

(* One launch, in file order: without an operator around it it is skipped, *)
(* and item() raises unless it has one kernel.                             *)
LaunchEvent ==
  /\ pc = "launch"
  /\ \E event \in left :
       /\ \A e \in left : event.index <= e.index
       /\ left' = left \ {event}
       /\ LET kernels == KernelsOf(trace[rank], event)
          IN IF Wrapping(trace[rank], event) = {}
             THEN UNCHANGED <<pc, stats>>
             ELSE IF Cardinality(kernels) # 1
             THEN pc' = "raised" /\ UNCHANGED stats
             ELSE \E op \in DeepestAtenOps(trace[rank], event) : \E k \in kernels :
                    /\ stats' = stats \cup
                         {[rank |-> rank, launch |-> event.index, tid |-> op.tid,
                           aten_op_start |-> op.ts, aten_op_delay |-> event.ts - op.ts,
                           runtime_delay |-> k.ts - event.ts]}
                    /\ UNCHANGED pc
  /\ UNCHANGED <<trace, call, todo, rank, group, running, series, blocked, results>>

(* The statistics of the rank are made of all the records there are, the   *)
(* list is not emptied between two ranks; without any groupby raises.      *)
FinishLaunches ==
  /\ pc = "launch" /\ left = {}
  /\ IF stats = {}
     THEN pc' = "raised" /\ UNCHANGED results
     ELSE /\ results' = [q \in DOMAIN results \cup {rank} |->
                           IF q = rank THEN stats ELSE results[q]]
          /\ pc' = "rank"
  /\ UNCHANGED <<trace, call, todo, rank, sumVars, series, blocked, stats>>

-----------------------------------------------------------------------------
Next ==
  \/ StartRank \/ SumRow \/ NextGroup \/ FinishSum
  \/ MeasureBlocked \/ Return
  \/ LaunchEvent \/ FinishLaunches

Spec == Init /\ [][Next]_vars

-----------------------------------------------------------------------------
(* Every variable has its type: a point has the time stamp and the sum of  *)
(* a row, and the time a queue was full is not negative, as it is only if  *)
(* the points are in the order of their time stamps.                       *)
TypeOK ==
  /\ trace \in Traces /\ call \in Analyses
  /\ pc \in {"rank", "sum", "launch", "returned", "raised"}
  /\ todo \in Seq(Ranks) /\ rank \in Ranks \cup {None} /\ running \in Int
  /\ DOMAIN series \subseteq Ranks
  /\ \A r \in DOMAIN series : \A p \in Range(series[r]) : p.ts \in Int /\ p.value \in Int
  /\ DOMAIN blocked \subseteq DOMAIN series
  /\ \A r \in DOMAIN blocked : blocked[r].stream \in Streams(r) /\ blocked[r].dur \in Nat
  /\ DOMAIN results \subseteq Ranks /\ \A r \in DOMAIN results : results[r] \subseteq stats

(* The kernels of the group that were launched, and not started, when the  *)
(* rows up to now had happened.                                            *)
Waiting ==
  {k \in Started(trace[rank]) :
     /\ k.stream = group /\ Change(k, k, -1) \in left
     /\ \E c \in RuntimeCalls(trace[rank]) :
          c.correlation = k.correlation /\ Change(k, c, 1) \notin left}

Outstanding == IF call # "queue" \/ group = None THEN {} ELSE {k.index : k \in Waiting}

QueueLengthNow == IF call = "queue" THEN running ELSE 0

OperationsOf(frames) == UNION {{k.index : k \in GpuKernels(frames[r])} : r \in Ranks}

Queue == INSTANCE WorkQueue
           WITH Work <- UNION {OperationsOf(frames) : frames \in Traces},
                outstanding <- Outstanding,
                length <- QueueLengthNow

(* The running sum of trace_counters.py:83 is the number of outstanding    *)
(* operations: no kernel leaves the queue of a stream before it entered,   *)
(* in whichever order the sort leaves rows with the same time stamp.       *)
ImplementsWorkQueue == Queue!Spec

(* The kernels of a stream that were launched up to a moment and start     *)
(* after it.                                                               *)
InQueue(rows, stream, t) ==
  {k \in Started(rows) : /\ k.stream = stream /\ t < k.ts
                         /\ \E c \in RuntimeCalls(rows) : c.correlation = k.correlation /\ c.ts <= t}
FullTime(rows, stream) ==
  LET times == {c.ts : c \in QueueChanges(rows)}
  IN IF times = {} THEN 0
     ELSE Cardinality({t \in Min(times) .. Max(times) :
                         Cardinality(InQueue(rows, stream, t)) >= MaxQueueLength})

(* The time reported for a stream is the time its queue was full, to the   *)
(* microsecond and whatever order rows of one time stamp have; a rank that *)
(* is not reported had no full queue (trace_counters.py:222-243).          *)
BlockedIsExact ==
  call = "queue" /\ pc = "returned" =>
    /\ \A r \in DOMAIN blocked : blocked[r].dur = FullTime(trace[r], blocked[r].stream)
    /\ \A r \in Ranks \ DOMAIN blocked : \A k \in Started(trace[r]) : FullTime(trace[r], k.stream) = 0

(* The copies of a kind that the clock finds in progress at a moment, one  *)
(* of no duration for the microsecond it starts in; and those whose end    *)
(* rounding put before their start, from the one to the other.             *)
InProgress(r, kind, t) ==
  {k \in Copies(trace[r]) : k.name = kind /\ k.dur >= 0 /\ k.ts <= t /\ (t < k.ts + k.dur \/ t = k.ts)}
Backward(r, kind, t) ==
  {k \in Copies(trace[r]) : k.name = kind /\ k.dur < 0 /\ k.ts + k.dur <= t /\ t <= k.ts}
Bandwidth(copies) == SumFunction([k \in copies |-> k.bandwidth])

(* What the sums up to a point are off at most. *)
Slack(r, i) == Residue * Cardinality({j \in 1 .. i : series[r][j].group = series[r][i].group})

LastOfMoment(r, i) ==
  \A j \in DOMAIN series[r] :
    i < j /\ series[r][j].group = series[r][i].group => series[r][i].ts < series[r][j].ts

(* A bandwidth series follows the clock, up to the residue of its sums and *)
(* whatever order rows of one time stamp have: its last point at a moment  *)
(* is the bandwidth of the copies in progress, and no point is below 0 by  *)
(* more than the bandwidth of copies that end before they start, which the *)
(* rounding of line 293 leaves as they are (trace_counters.py:291-318).    *)
BandwidthByClock ==
  call = "memory" =>
    \A r \in DOMAIN series : \A i \in DOMAIN series[r] :
      LET p == series[r][i]
          backward == Backward(r, p.group, p.ts)
          expected == Bandwidth(InProgress(r, p.group, p.ts)) - Bandwidth({k \in backward : p.ts < k.ts})
      IN /\ p.value >= -Bandwidth(backward) - Slack(r, i)
         /\ LastOfMoment(r, i) /\ ~(r = rank /\ pc = "sum")
              => p.value \in (expected - Slack(r, i)) .. (expected + Slack(r, i))

(* No point of a bandwidth series is negative: "In case of 0 us duration   *)
(* events round it up to 1 us to avoid -ve values", says the comment       *)
(* (trace_counters.py:291).  The code rounds up the duration 0 only.       *)
BandwidthNeverNegative ==
  call = "memory" => \A r \in DOMAIN series : \A p \in Range(series[r]) : p.value >= 0
=============================================================================
