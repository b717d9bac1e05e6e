------------------------------- MODULE Breakdown -------------------------------
(***************************************************************************)
(* How the time of a device is broken down: into idle, computation and     *)
(* other time, into times in which kernels of several types run together,  *)
(* and, stream by stream, into what the device waited for                  *)
(* (hta/analyzers/breakdown_analysis.py, communication_analysis.py and     *)
(* merge_kernel_intervals of hta/utils/utils.py).                          *)
(*                                                                         *)
(* A row has index, ts, dur, stream, cat, index_correlation and            *)
(* kernel_type, what get_kernel_type makes of its name.  Rows of one time  *)
(* stamp come in any order: sort_values is not stable.                     *)
(***************************************************************************)
EXTENDS Integers, FiniteSets, Sequences, SequencesExt, FiniteSetsExt

CONSTANTS
  Traces,    \* the data frames of a rank
  Requests,  \* the breakdowns that are asked for
  Delay,     \* consecutive_kernel_delay
  Points,    \* the microseconds that the properties look at
  None

ASSUME TracesAssumption ==
  /\ Requests \subseteq {"temporal", "overlap", "types", "types_with_memory", "idle"}
  /\ \A rows \in Traces : \A r \in rows : r.ts \in Int /\ r.dur \in Int

ASSUME NoneAssumption == None \notin Int

(* The properties look at all the time that a trace spans. *)
ASSUME PointsAssumption ==
  /\ Points \subseteq Int /\ IsFiniteSet(Points)
  /\ \A rows \in Traces : \A r, s \in rows : r.ts .. (s.ts + s.dur - 1) \subseteq Points

VARIABLES
  trace,     \* trace_df
  request,   \* what was called
  pc,        \* what is done next; at the end "returned", "raised" or "asserted"
  todo,      \* the types of kernels whose intervals are still to be merged
  left,      \* what the loop at hand has not come to
  reach,     \* the latest end of the rows merged so far
  merged,    \* the merged intervals of each type
  now,       \* the last boundary, or the end of the last kernel of the stream
  running,   \* the sum of the status of the intervals that are open
  spent,     \* the time spent with each sum
  streams,   \* the streams that are still to be analyzed
  stream,    \* the stream that is analyzed
  idle,      \* the idle time of each stream by category
  report     \* the result

input == <<trace, request>>
merging == <<todo, reach, merged>>
sweeping == <<running, spent>>
waiting == <<streams, stream, idle>>
vars == <<input, pc, left, merging, now, sweeping, waiting, report>>

-----------------------------------------------------------------------------
End(r) == r.ts + r.dur
Later(a, b) == IF a < b THEN b ELSE a
First(left_rows, r) == \A s \in left_rows : r.ts <= s.ts

DeviceRows(rows) == {r \in rows : r.stream # -1}
FrameOf(rows, type) == {r \in DeviceRows(rows) : type \in {"any", r.kernel_type}}

TypeNames == {"any", "computation", "communication", "memory"}

(* The types whose intervals are merged, in the order of the code. *)
Types(kind) ==
  CASE kind = "temporal" -> <<"any", "computation">>
    [] kind \in {"overlap", "types"} -> <<"computation", "communication">>
    [] kind = "types_with_memory" -> <<"computation", "communication", "memory">>
    [] kind = "idle" -> << >>

(* Mutant of Status: the types are counted up. *)
StatusCounted(kind, type) ==
  IF kind = "overlap" THEN [communication |-> 1, computation |-> 2][type]
  ELSE [computation |-> 1, communication |-> 2, memory |-> 3][type]

(* What a type adds to the sum while it runs. *)
Status(kind, type) ==
  IF kind = "overlap" THEN [communication |-> 1, computation |-> 2][type]
  ELSE [computation |-> 1, communication |-> 2, memory |-> 4][type]

Init ==
  /\ trace \in Traces /\ request \in Requests
  /\ pc = "frames" /\ left = {}
  /\ todo = Types(request) /\ reach = None
  /\ merged = [t \in TypeNames |-> << >>]
  /\ now = None /\ running = 0 /\ spent = [s \in 1 .. 7 |-> 0]
  /\ streams = {} /\ stream = None /\ idle = << >>
  /\ report = None

-----------------------------------------------------------------------------
(* merge_kernel_intervals, for one type after the other *)

NextFrame ==
  /\ pc = "frames" /\ todo # << >>
  /\ left' = FrameOf(trace, Head(todo))
  /\ pc' = "merge"
  /\ UNCHANGED <<input, merging, now, sweeping, waiting, report>>

(* Mutant of Reach: only the row before counts. *)
ReachOfPrevious(intervals, r) == End(r)

Reach(intervals, r) == IF intervals = << >> THEN End(r) ELSE Later(reach, End(r))

(* A row that starts after all ends so far opens a group, any other        *)
(* belongs to the last one.                                                *)
Grown(intervals, r) ==
  IF intervals = << >> \/ r.ts > reach
  THEN Append(intervals, [ts |-> r.ts, end |-> End(r)])
  ELSE [intervals EXCEPT ![Len(intervals)].end = Later(@, End(r))]

MergeRow ==
  /\ pc = "merge"
  /\ \E r \in left :
       /\ First(left, r)
       /\ left' = left \ {r}
       /\ merged' = [merged EXCEPT ![Head(todo)] = Grown(@, r)]
       /\ reach' = Reach(merged[Head(todo)], r)
  /\ UNCHANGED <<input, pc, todo, now, sweeping, waiting, report>>

FinishFrame ==
  /\ pc = "merge" /\ left = {}
  /\ todo' = Tail(todo) /\ reach' = None
  /\ pc' = "frames"
  /\ UNCHANGED <<input, left, merged, now, sweeping, waiting, report>>

Total(intervals) ==
  SumFunction([i \in DOMAIN intervals |-> intervals[i].end - intervals[i].ts])

-----------------------------------------------------------------------------
(* Mutant of KernelTime: from the end of the first interval. *)
KernelTimeFromEnd(intervals) == Last(intervals).end - intervals[1].end

KernelTime(intervals) == Last(intervals).end - intervals[1].ts

(* idle_time_per_rank of get_temporal_breakdown; without a row on the      *)
(* device there is no first interval.                                      *)
Temporal ==
  /\ pc = "frames" /\ todo = << >> /\ request = "temporal"
  /\ IF merged["any"] = << >>
     THEN pc' = "raised" /\ UNCHANGED report
     ELSE LET kernel_time == KernelTime(merged["any"])
              idle_time == kernel_time - Total(merged["any"])
              compute_time == Total(merged["computation"])
              non_compute_time == kernel_time - compute_time - idle_time
          IN IF idle_time <= kernel_time /\ compute_time <= kernel_time /\ non_compute_time >= 0
             THEN /\ report' = [idle_time |-> idle_time, compute_time |-> compute_time,
                                non_compute_time |-> non_compute_time, kernel_time |-> kernel_time]
                  /\ pc' = "returned"
             ELSE pc' = "asserted" /\ UNCHANGED report
  /\ UNCHANGED <<input, left, merging, now, sweeping, waiting>>

-----------------------------------------------------------------------------
(* _get_gpu_kernel_type_time and get_comm_comp_overlap_value: the          *)
(* boundaries of the intervals of all types are passed in time.            *)

Boundaries ==
  UNION {{[time |-> merged[t][i].ts, change |-> Status(request, t), type |-> t, number |-> i] : i \in DOMAIN merged[t]}
           \cup {[time |-> merged[t][i].end, change |-> -Status(request, t), type |-> t, number |-> i] : i \in DOMAIN merged[t]} :
         t \in Range(Types(request))}

StartSweep ==
  /\ pc = "frames" /\ todo = << >> /\ request \in {"overlap", "types", "types_with_memory"}
  /\ left' = Boundaries
  /\ pc' = "sweep"
  /\ UNCHANGED <<input, merging, now, sweeping, waiting, report>>

PassBoundary ==
  /\ pc = "sweep"
  /\ \E b \in left :
       /\ \A c \in left : b.time <= c.time
       /\ left' = left \ {b}
       /\ now' = b.time
       /\ running' = running + b.change
       /\ spent' = IF running > 0 THEN [spent EXCEPT ![running] = @ + b.time - now] ELSE spent
  /\ UNCHANGED <<input, pc, merging, waiting, report>>

(* The overlap is the time in which both run; its share is that of the     *)
(* communication.                                                          *)
FinishSweep ==
  /\ pc = "sweep" /\ left = {}
  /\ report' = IF request = "overlap"
               THEN [overlap |-> spent[3], comm_time |-> Total(merged["communication"])]
               ELSE spent
  /\ pc' = "returned"
  /\ UNCHANGED <<input, left, merging, now, sweeping, waiting>>

-----------------------------------------------------------------------------
(* get_idle_time_breakdown and _analyze_idle_time_for_stream *)

KernelCats == {"kernel", "gpu_memset", "gpu_memcpy"}
Categories == {"host_wait", "kernel_wait", "other"}

(* Mutant of Kernels: synchronizations are not left out. *)
KernelsOfAnyCat(rows) == DeviceRows(rows)

Kernels(rows) == {k \in DeviceRows(rows) : k.cat \in KernelCats}

(* The streams that the caller names, even if no kernel runs on them, or   *)
(* all that have kernels; without a stream there is nothing to put together. *)
Analyzed(named) == IF named = {} THEN {k.stream : k \in Kernels(trace)} ELSE named

StartIdle ==
  /\ pc = "frames" /\ request = "idle"
  /\ \E named \in SUBSET {r.stream : r \in DeviceRows(trace)} :
       IF Analyzed(named) = {}
       THEN pc' = "raised" /\ UNCHANGED <<streams, idle>>
       ELSE /\ streams' = Analyzed(named)
            /\ idle' = [s \in streams' |-> [c \in Categories |-> 0]]
            /\ pc' = "streams"
  /\ UNCHANGED <<input, left, merging, now, sweeping, stream, report>>

(* The streams are analyzed independently of each other. *)
NextStream ==
  /\ pc = "streams"
  /\ \E s \in streams :
       /\ streams' = streams \ {s}
       /\ stream' = s
       /\ left' = {k \in Kernels(trace) : k.stream = s}
  /\ now' = None
  /\ pc' = "stream"
  /\ UNCHANGED <<input, merging, sweeping, idle, report>>

(* The launch is the row that index_correlation is the label of, the first *)
(* row of the file for a kernel whose launch is missing.                   *)
HostWaits(k) == \E c \in trace : c.index = k.index_correlation /\ c.ts > now

Category(k) ==
  IF HostWaits(k) THEN "host_wait" ELSE IF k.ts - now < Delay THEN "kernel_wait" ELSE "other"

PassKernel ==
  /\ pc = "stream"
  /\ \E k \in left :
       /\ First(left, k)
       /\ left' = left \ {k}
       /\ now' = End(k)
       /\ idle' = IF now = None THEN idle ELSE [idle EXCEPT ![stream][Category(k)] = @ + k.ts - now]
  /\ UNCHANGED <<input, pc, merging, sweeping, streams, stream, report>>

FinishStream ==
  /\ pc = "stream" /\ left = {}
  /\ IF streams = {} THEN pc' = "returned" /\ report' = idle ELSE pc' = "streams" /\ UNCHANGED report
  /\ UNCHANGED <<input, left, merging, now, sweeping, waiting>>

-----------------------------------------------------------------------------
Next ==
  \/ NextFrame \/ MergeRow \/ FinishFrame
  \/ Temporal
  \/ StartSweep \/ PassBoundary \/ FinishSweep
  \/ StartIdle \/ NextStream \/ PassKernel \/ FinishStream

Spec == Init /\ [][Next]_vars

-----------------------------------------------------------------------------
(* What the merged intervals suppose of a trace: no kernel ends before it        *)
(* starts.                                                                 *)
Lasting == \A rows \in Traces : \A r \in rows : r.dur >= 0

(* The variables hold values of these kinds; an idle time is never         *)
(* negative, nor longer than the time it is part of.                       *)
TypeOK ==
  /\ request \in Requests
  /\ pc \in {"frames", "merge", "sweep", "streams", "stream", "returned", "raised", "asserted"}
  /\ \E i \in 0 .. Len(Types(request)) : todo = SubSeq(Types(request), i + 1, Len(Types(request)))
  /\ left \subseteq IF pc = "sweep" THEN Boundaries ELSE trace
  /\ reach \in Int \cup {None} /\ now \in Int \cup {None}
  /\ \A t \in DOMAIN merged : \A i \in DOMAIN merged[t] : merged[t][i] \in [ts : Int, end : Int]
  /\ running \in -7 .. 7 /\ spent \in [1 .. 7 -> Nat]
  /\ streams \subseteq {r.stream : r \in trace} /\ stream \in {r.stream : r \in trace} \cup {None}
  /\ \A s \in DOMAIN idle : idle[s] \in [Categories -> Int]
  /\ request = "temporal" /\ pc = "returned" => report.idle_time \in 0 .. report.kernel_time

-----------------------------------------------------------------------------
Runs(rows, x) == \E r \in rows : r.ts <= x /\ x < End(r)

(* The rows of a type that were merged. *)
Done(type) ==
  IF type \notin Range(todo) THEN FrameOf(trace, type)
  ELSE IF pc = "merge" /\ type = Head(todo) THEN FrameOf(trace, type) \ left ELSE {}

(* The merged intervals cover just the time in which a row merged so far   *)
(* runs, and there is a gap between any two of them: the row before the    *)
(* present one need not be the one that ends last (utils.py, line 132).    *)
MergedExact ==
  \A t \in Range(Types(request)) :
    /\ LET done == Done(t)
       IN \A x \in Points :
            Runs(done, x) <=> \E i \in DOMAIN merged[t] : merged[t][i].ts <= x /\ x < merged[t][i].end
    /\ \A i, j \in DOMAIN merged[t] : i < j => merged[t][i].end < merged[t][j].ts

(* The time that is reported is the number of microseconds in which just   *)
(* these types run, whatever order the boundaries of one time come in: for *)
(* the temporal breakdown, for the breakdown by sets of types and for the  *)
(* overlap.                                                                *)
RunsType(t, x) == Runs(FrameOf(trace, t), x)
Digit == <<1, 2, 4>>
RunsJust(status, x) ==
  \A i \in DOMAIN Types(request) :
    RunsType(Types(request)[i], x) <=> (status \div Digit[i]) % 2 = 1
TimeOf(type) == Cardinality({x \in Points : RunsType(type, x)})
TimeOfJust(status) == Cardinality({x \in Points : RunsJust(status, x)})

(* The time that no row of the device runs, from the first to the last.    *)
Idle(x) ==
  ~RunsType("any", x) /\ \E r, s \in DeviceRows(trace) : r.ts <= x /\ x < End(s)

ReportsExact ==
  pc = "returned" =>
    /\ request = "temporal" =>
         /\ report.compute_time = TimeOf("computation")
         /\ report.non_compute_time =
              Cardinality({x \in Points : RunsType("any", x) /\ ~RunsType("computation", x)})
         /\ report.idle_time = Cardinality({x \in Points : Idle(x)})
    /\ request \in {"types", "types_with_memory"} =>
         \A s \in 1 .. 7 :
           report[s] = IF s < 2 * Digit[Len(Types(request))] THEN TimeOfJust(s) ELSE 0
    /\ request = "overlap" =>
         report.overlap = TimeOfJust(3) /\ report.comm_time = TimeOf("communication")

(* On a stream whose kernels do not overlap, the three categories add up   *)
(* to the time between the first and the last kernel in which none runs,   *)
(* whatever synchronizations and annotations the stream has.               *)
Before(k, l) == k.ts < l.ts /\ End(k) <= l.ts
OneByOne(kernels) == \A k, l \in kernels : k # l => Before(k, l) \/ Before(l, k)
Gaps(kernels) ==
  {x \in Points : ~Runs(kernels, x) /\ \E k, l \in kernels : k.ts <= x /\ x < l.ts}

IdleIsGaps ==
  pc = "returned" /\ request = "idle" =>
    \A s \in DOMAIN report :
      LET kernels == {k \in trace : k.stream = s /\ k.cat \in KernelCats}
      IN OneByOne(kernels) =>
           report[s]["host_wait"] + report[s]["kernel_wait"] + report[s]["other"]
             = Cardinality(Gaps(kernels))

-----------------------------------------------------------------------------
(* A finding: the assertions of idle_time_per_rank (breakdown_analysis.py, *)
(* line 684) hold of every trace that was parsed.                          *)
AssertionsHold == pc # "asserted"
=============================================================================
