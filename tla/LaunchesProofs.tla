--------------------------- MODULE LaunchesProofs ---------------------------
(***************************************************************************)
(* For every trace, number of ranks and order of rows with equal time      *)
(* stamps: the running sum of a CUDA stream implements WorkQueue, the      *)
(* bandwidth of the memory copies follows the clock, and the time a queue  *)
(* is reported to be full is the time it was full.                         *)
(***************************************************************************)
EXTENDS Launches, SetInduction

(* The rows of the rank at hand. *)
Changes == RowsOf(trace[rank])

(* What the sum of a stream relies on: a row that was summed is not later  *)
(* than one of its stream that was not, and of the streams to come no row  *)
(* was summed.                                                             *)
SumInv ==
  /\ left \subseteq Changes
  /\ \A r \in Changes \ left : \A s \in left :
       r.group = s.group => group # None /\ r.group = group /\ r.ts <= s.ts

IInv ==
  /\ trace \in Traces
  /\ todo \in Seq(Ranks)
  /\ rank \in Ranks \cup {None}
  /\ pc \in {"sum", "launch"} => rank \in Ranks
  /\ pc = "launch" => call = "aten" /\ group = None
  /\ pc = "rank" => left = {} /\ group = None
  /\ call \in Analyses
  /\ pc = "sum" => call \in {"queue", "memory"} /\ SumInv

(* A change is made by a call for its kernel or by the kernel itself.      *)
LEMMA ChangeCases ==
  ASSUME NEW rows, NEW r \in QueueChanges(rows)
  PROVE  \/ \E c \in RuntimeCalls(rows) : \E k \in Enqueued(rows, c) : r = Change(k, c, 1)
         \/ \E k \in Started(rows) : r = Change(k, k, -1)
  BY DEF QueueChanges, Increments, Decrements

LEMMA ChangeFields ==
  ASSUME NEW k, NEW e, NEW by
  PROVE  /\ Change(k, e, by).work = k.index /\ Change(k, e, by).group = k.stream
         /\ Change(k, e, by).index = e.index /\ Change(k, e, by).ts = e.ts
         /\ Change(k, e, by).by = by
  BY DEF Change

(* A started kernel and a call with its correlation make two changes.      *)
LEMMA StartedChanges ==
  ASSUME NEW rows, NEW k \in Started(rows), NEW c \in RuntimeCalls(rows),
         c.correlation = k.correlation
  PROVE  /\ k \in Enqueued(rows, c)
         /\ Change(k, c, 1) \in QueueChanges(rows) /\ Change(k, k, -1) \in QueueChanges(rows)
  BY DEF Started, Enqueued, QueueChanges, Increments, Decrements

LEMMA EnqueuedStarts ==
  ASSUME NEW rows, NEW c \in RuntimeCalls(rows), NEW k \in Enqueued(rows, c)
  PROVE  k \in Started(rows) /\ k.correlation = c.correlation
  BY DEF Started, Enqueued

(* What the assumption says of the changes of a rank.                      *)
LEMMA PairsOfRank ==
  ASSUME IInv, rank \in Ranks
  PROVE  /\ IsFiniteSet(trace[rank])
         /\ Paired(trace[rank])
         /\ \A e \in trace[rank] : e.ts \in Int /\ e.stream \in Int
         /\ \A r \in QueueChanges(trace[rank]) : r.ts \in Int /\ r.group \in Int
<1>1. /\ IsFiniteSet(trace[rank]) /\ Paired(trace[rank])
      /\ \A e \in trace[rank] : e.ts \in Int /\ e.stream \in Int
  BY TracesAssumption DEF IInv
<1>2. ASSUME NEW r \in QueueChanges(trace[rank]) PROVE r.ts \in Int /\ r.group \in Int
  <2>1. CASE \E c \in RuntimeCalls(trace[rank]) : \E k \in Enqueued(trace[rank], c) : r = Change(k, c, 1)
    BY <1>1, <2>1, ChangeFields DEF RuntimeCalls, Enqueued, GpuKernels
  <2>2. CASE \E k \in Started(trace[rank]) : r = Change(k, k, -1)
    BY <1>1, <2>2, ChangeFields DEF Started, GpuKernels
  <2> QED BY <1>2, <2>1, <2>2, ChangeCases
<1> QED BY <1>1, <1>2

LEMMA Inductive == Spec => []IInv
<1>1. Init => IInv
  BY AskedAssumption DEF Init, IInv
<1>2. IInv /\ [Next]_vars => IInv'
  <2> SUFFICES ASSUME IInv, [Next]_vars PROVE IInv'
    OBVIOUS
  <2>1. CASE StartRank
    <3>1. Head(todo) \in Ranks /\ Tail(todo) \in Seq(Ranks)
      BY <2>1 DEF StartRank, IInv
    <3>2. SumInv'
      <4>1. Changes' = left'
        BY <2>1 DEF StartRank, Changes, RowsOf
      <4> QED BY <4>1 DEF SumInv
    <3>3. /\ pc' \in {"raised", "launch", "sum"} /\ (pc' = "launch" => call' = "aten" /\ group' = None)
          /\ pc' = "sum" => call' \in {"queue", "memory"}
      BY <2>1, AnalysesAssumption DEF StartRank, IInv
    <3> QED BY <2>1, <3>1, <3>2, <3>3 DEF StartRank, IInv
  <2>2. CASE SumRow
    <3>1. PICK r \in left : /\ group # None /\ r.group = group
                            /\ Earliest(left, r) /\ left' = left \ {r}
      BY <2>2 DEF SumRow
    <3>2. SumInv'
      <4>1. SumInv /\ Changes' = Changes /\ group' = group
        BY <2>2 DEF SumRow, IInv, Changes, RowsOf
      <4>2. left' \subseteq Changes'
        BY <3>1, <4>1 DEF SumInv
      <4>3. ASSUME NEW q \in Changes \ left', NEW s \in left', q.group = s.group
            PROVE  group # None /\ q.group = group /\ q.ts <= s.ts
        BY <3>1, <4>1, <4>3 DEF SumInv, Earliest
      <4> QED BY <4>1, <4>2, <4>3 DEF SumInv
    <3> QED BY <2>2, <3>2 DEF SumRow, IInv
  <2>3. CASE NextGroup
    <3>1. SumInv'
      <4>1. SumInv /\ Changes' = Changes /\ left' = left
        BY <2>3 DEF NextGroup, IInv, Changes, RowsOf
      <4>2. ASSUME NEW q \in Changes \ left, NEW s \in left, q.group = s.group PROVE FALSE
        BY <2>3, <4>1, <4>2 DEF SumInv, NextGroup
      <4> QED BY <4>1, <4>2 DEF SumInv
    <3> QED BY <2>3, <3>1 DEF NextGroup, IInv
  <2>4. CASE FinishSum
    BY <2>4 DEF FinishSum, IInv
  <2>5. CASE MeasureBlocked
    BY <2>5 DEF MeasureBlocked, IInv, sumVars
  <2>6. CASE Return
    BY <2>6 DEF Return, IInv, sumVars
  <2>7. CASE LaunchEvent
    <3>1. pc = "launch" /\ pc' \in {"launch", "raised"}
          /\ UNCHANGED <<trace, call, todo, rank, group>>
      BY <2>7 DEF LaunchEvent
    <3> QED BY <3>1 DEF IInv
  <2>8. CASE FinishLaunches
    <3>1. group = group' /\ left' = {} /\ call' = "aten"
      BY <2>8 DEF FinishLaunches, IInv, sumVars
    <3> QED BY <2>8, <3>1 DEF FinishLaunches, IInv, sumVars
  <2>9. CASE UNCHANGED vars
    BY <2>9 DEF vars, sumVars, IInv, SumInv, Changes, RowsOf
  <2> QED BY <2>1, <2>2, <2>3, <2>4, <2>5, <2>6, <2>7, <2>8, <2>9 DEF Next
<1> QED BY <1>1, <1>2, PTL DEF Spec

LEMMA QueueRows == ASSUME call = "queue" PROVE Changes = QueueChanges(trace[rank])
BY DEF Changes, RowsOf

-----------------------------------------------------------------------------
(* A row that enters the queue: its kernel was not waiting, and starts     *)
(* after it.                                                               *)
LEMMA IncrementEnqueues ==
  ASSUME IInv, call = "queue", pc = "sum", group # None, UNCHANGED <<trace, rank, group>>,
         NEW r \in left, r.group = group, Earliest(left, r), left' = left \ {r},
         NEW c \in RuntimeCalls(trace[rank]), NEW k \in Enqueued(trace[rank], c),
         r = Change(k, c, 1)
  PROVE  k \notin Waiting /\ Waiting' = Waiting \cup {k}
<1> DEFINE rows == trace[rank]
<1>1. rank \in Ranks /\ SumInv
  BY DEF IInv
<1>2. Paired(rows) /\ (\A e \in rows : e.ts \in Int)
  BY <1>1, PairsOfRank
<1>3. /\ c \in rows /\ k \in Started(rows) /\ k \in rows /\ k.correlation = c.correlation
      /\ k.stream = group /\ c.ts < k.ts
  BY <1>2, EnqueuedStarts, ChangeFields DEF Paired, RuntimeCalls, Enqueued, GpuKernels
<1>4. ASSUME NEW d \in RuntimeCalls(rows), d.correlation = k.correlation PROVE d = c
  BY <1>2, <1>3, <1>4 DEF Paired
<1>5. k \notin Waiting
  BY <1>4 DEF Waiting
<1>6. Change(k, k, -1) \in left
  <2> SUFFICES ASSUME Change(k, k, -1) \notin left PROVE FALSE
    OBVIOUS
  <2>1. Change(k, k, -1) \in Changes \ left
    BY <1>3, StartedChanges, QueueRows
  <2>2. k.ts <= c.ts
    BY <1>1, <1>3, <2>1, ChangeFields DEF SumInv
  <2> QED BY <1>2, <1>3, <2>2
<1>7. ASSUME NEW j PROVE Change(j, j, -1) # r
  BY ChangeFields
<1>8. ASSUME NEW j \in Started(rows), NEW d \in RuntimeCalls(rows), Change(j, d, 1) = r
      PROVE  j = k
  <2>1. j.index = k.index /\ j \in rows
    BY <1>8, ChangeFields DEF Started, GpuKernels
  <2> QED BY <1>2, <1>3, <2>1 DEF Paired
<1>9. ASSUME NEW j \in Started(rows), j # k PROVE j \in Waiting' <=> j \in Waiting
  BY <1>7, <1>8, <1>9 DEF Waiting
<1>10. k \in Waiting'
  BY <1>3, <1>6, <1>7 DEF Waiting
<1>11. Waiting \subseteq Started(rows) /\ Waiting' \subseteq Started(rows)
  BY DEF Waiting
<1> QED BY <1>5, <1>9, <1>10, <1>11

(* A row that leaves the queue: its kernel was waiting, since its call is  *)
(* earlier.                                                                *)
LEMMA DecrementStarts ==
  ASSUME IInv, call = "queue", pc = "sum", group # None, UNCHANGED <<trace, rank, group>>,
         NEW r \in left, r.group = group, Earliest(left, r), left' = left \ {r},
         NEW k \in Started(trace[rank]), r = Change(k, k, -1)
  PROVE  k \in Waiting /\ Waiting' = Waiting \ {k}
<1> DEFINE rows == trace[rank]
<1>1. rank \in Ranks /\ SumInv
  BY DEF IInv
<1>2. Paired(rows) /\ (\A e \in rows : e.ts \in Int)
  BY <1>1, PairsOfRank
<1>3. PICK c \in RuntimeCalls(rows) : c.correlation = k.correlation
  BY DEF Started
<1>4. k \in Enqueued(rows, c) /\ c \in rows /\ k \in rows /\ k.stream = group
  BY <1>3, StartedChanges, ChangeFields DEF RuntimeCalls, Started, GpuKernels
<1>5. c.ts < k.ts
  BY <1>2, <1>4 DEF Paired
<1>6. Change(k, c, 1) \notin left
  <2> SUFFICES ASSUME Change(k, c, 1) \in left PROVE FALSE
    OBVIOUS
  <2>1. k.ts <= c.ts
    BY <1>4, ChangeFields DEF Earliest
  <2> QED BY <1>2, <1>4, <1>5, <2>1
<1>7. k \in Waiting
  BY <1>3, <1>4, <1>6 DEF Waiting
<1>8. ASSUME NEW j, NEW d PROVE Change(j, d, 1) # r
  BY ChangeFields
<1>9. ASSUME NEW j \in Started(rows), Change(j, j, -1) = r PROVE j = k
  <2>1. j.index = k.index /\ j \in rows
    BY <1>9, ChangeFields DEF Started, GpuKernels
  <2> QED BY <1>2, <1>4, <2>1 DEF Paired
<1>10. ASSUME NEW j \in Started(rows), j # k PROVE j \in Waiting' <=> j \in Waiting
  BY <1>8, <1>9, <1>10 DEF Waiting
<1>11. k \notin Waiting' /\ Waiting \subseteq Started(rows) /\ Waiting' \subseteq Started(rows)
  BY DEF Waiting
<1> QED BY <1>7, <1>10, <1>11

(* Rows have different indices.                                            *)
LEMMA WaitingIndices ==
  ASSUME IInv, rank \in Ranks, NEW S, S \subseteq Started(trace[rank]),
         NEW k \in Started(trace[rank])
  PROVE  /\ {j.index : j \in S \cup {k}} = {j.index : j \in S} \cup {k.index}
         /\ {j.index : j \in S \ {k}} = {j.index : j \in S} \ {k.index}
         /\ k.index \in {j.index : j \in S} <=> k \in S
<1>1. \A j \in Started(trace[rank]) : j.index = k.index => j = k
  BY PairsOfRank DEF Paired, Started, GpuKernels
<1> QED BY <1>1

-----------------------------------------------------------------------------
(* A running sum that is outside of a stream holds nothing.                *)
LEMMA NothingOutside ==
  ASSUME group = None \/ call # "queue"
  PROVE  Outstanding = {}
  BY DEF Outstanding

(* A new stream starts with an empty queue: of its rows none was summed.   *)
LEMMA NewStreamIsEmpty ==
  ASSUME IInv, NextGroup, call = "queue"
  PROVE  Outstanding' = {}
<1>1. SumInv /\ rank \in Ranks /\ group' # group
      /\ (\A s \in left : s.group # group) /\ UNCHANGED <<trace, rank, left>>
  BY DEF NextGroup, IInv
<1>2. SUFFICES ASSUME NEW k \in Waiting' PROVE FALSE
  BY DEF Outstanding
<1>3. /\ k \in Started(trace[rank]) /\ Change(k, k, -1) \in left
      /\ \E c \in RuntimeCalls(trace[rank]) : c.correlation = k.correlation /\ Change(k, c, 1) \notin left
  BY <1>1 DEF Waiting
<1>4. PICK c \in RuntimeCalls(trace[rank]) : c.correlation = k.correlation /\ Change(k, c, 1) \notin left
  BY <1>3
<1>5. Change(k, c, 1) \in Changes \ left
  BY <1>3, <1>4, StartedChanges, QueueRows
<1>6. k.stream = group
  BY <1>1, <1>3, <1>5, ChangeFields DEF SumInv
<1> QED BY <1>1, <1>3, <1>6, ChangeFields

(* Every row of a sum is one that enters or one that leaves the queue.     *)
LEMMA SumRowSteps ==
  ASSUME IInv, SumRow, call = "queue"
  PROVE  \E k \in GpuKernels(trace[rank]) : Queue!Enqueue(k.index) \/ Queue!Start(k.index)
<1>1. PICK r \in left : /\ group # None /\ r.group = group /\ Earliest(left, r)
                        /\ running' = running + r.by /\ left' = left \ {r}
  BY DEF SumRow, Added
<1>2. pc = "sum" /\ UNCHANGED <<trace, call, rank, group>> /\ rank \in Ranks /\ SumInv
  BY DEF SumRow, IInv
<1>3. r \in QueueChanges(trace[rank])
  BY <1>2, QueueRows DEF SumInv
<1>4. /\ Outstanding = {j.index : j \in Waiting} /\ Outstanding' = {j.index : j \in Waiting'}
      /\ QueueLengthNow = running /\ QueueLengthNow' = running'
      /\ Waiting \subseteq Started(trace[rank])
  BY <1>1, <1>2 DEF Outstanding, QueueLengthNow, Waiting
<1>5. CASE \E c \in RuntimeCalls(trace[rank]) : \E k \in Enqueued(trace[rank], c) : r = Change(k, c, 1)
  <2> PICK c \in RuntimeCalls(trace[rank]) : \E k \in Enqueued(trace[rank], c) : r = Change(k, c, 1)
    BY <1>5
  <2>1. PICK k \in Enqueued(trace[rank], c) : r = Change(k, c, 1)
    OBVIOUS
  <2>2. k \notin Waiting /\ Waiting' = Waiting \cup {k}
    BY <1>1, <1>2, <2>1, IncrementEnqueues
  <2>3. k \in Started(trace[rank]) /\ k \in GpuKernels(trace[rank]) /\ r.by = 1
    BY <2>1, EnqueuedStarts, ChangeFields DEF Enqueued
  <2>4. k.index \notin Outstanding /\ Outstanding' = Outstanding \cup {k.index}
    BY <1>2, <1>4, <2>2, <2>3, WaitingIndices
  <2>5. Queue!Enqueue(k.index)
    BY <1>1, <1>4, <2>3, <2>4 DEF Queue!Enqueue
  <2> QED BY <2>3, <2>5
<1>6. CASE \E k \in Started(trace[rank]) : r = Change(k, k, -1)
  <2>1. PICK k \in Started(trace[rank]) : r = Change(k, k, -1)
    BY <1>6
  <2>2. k \in Waiting /\ Waiting' = Waiting \ {k}
    BY <1>1, <1>2, <2>1, DecrementStarts
  <2>3. k \in GpuKernels(trace[rank]) /\ r.by = -1
    BY <2>1, ChangeFields DEF Started
  <2>4. k.index \in Outstanding /\ Outstanding' = Outstanding \ {k.index}
    BY <1>2, <1>4, <2>1, <2>2, WaitingIndices
  <2>5. running' = running - 1
    BY <1>1, <2>3
  <2>6. Queue!Start(k.index)
    BY <1>4, <2>4, <2>5 DEF Queue!Start
  <2> QED BY <2>3, <2>6
<1> QED BY <1>3, <1>5, <1>6, ChangeCases

(* The queue length of trace_counters.py:83 implements WorkQueue.          *)
THEOREM QueueRefinement == Spec => ImplementsWorkQueue
<1>1. Init => Queue!Init
  BY DEF Init, Queue!Init, Outstanding, QueueLengthNow
<1>2. IInv /\ [Next]_vars => [Queue!Next]_<<Outstanding, QueueLengthNow>>
  <2> SUFFICES ASSUME IInv, [Next]_vars
               PROVE  Queue!Next \/ UNCHANGED <<Outstanding, QueueLengthNow>>
    OBVIOUS
  <2>1. ASSUME Outstanding' = {}, QueueLengthNow' = 0 PROVE Queue!Next
    BY <2>1 DEF Queue!Next, Queue!Reset
  <2>2. ASSUME UNCHANGED <<trace, call, rank, left, group, running>>
        PROVE  UNCHANGED <<Outstanding, QueueLengthNow>>
    BY <2>2 DEF Outstanding, QueueLengthNow, Waiting
  <2>3. CASE call # "queue"
    <3>1. call' = call
      BY DEF Next, vars, StartRank, SumRow, NextGroup, FinishSum, MeasureBlocked, Return,
             LaunchEvent, FinishLaunches
    <3> QED BY <2>3, <3>1 DEF Outstanding, QueueLengthNow
  <2>4. CASE StartRank
    BY <2>1, <2>4, NothingOutside DEF StartRank, Outstanding, QueueLengthNow
  <2>5. CASE SumRow /\ call = "queue"
    <3>1. PICK k \in GpuKernels(trace[rank]) : Queue!Enqueue(k.index) \/ Queue!Start(k.index)
      BY <2>5, SumRowSteps
    <3>2. trace \in Traces /\ rank \in Ranks
      BY <2>5 DEF IInv, SumRow
    <3>3. k.index \in UNION {OperationsOf(frames) : frames \in Traces}
      <4>1. k.index \in OperationsOf(trace)
        BY <3>2 DEF OperationsOf
      <4> QED BY <3>2, <4>1
    <3> QED BY <3>1, <3>3 DEF Queue!Next
  <2>6. CASE NextGroup /\ call = "queue"
    BY <2>1, <2>6, NewStreamIsEmpty DEF NextGroup, QueueLengthNow
  <2>7. CASE FinishSum
    BY <2>1, <2>7 DEF FinishSum, Outstanding, QueueLengthNow
  <2>8. CASE MeasureBlocked
    BY <2>2, <2>8 DEF MeasureBlocked, sumVars
  <2>9. CASE Return
    BY <2>2, <2>9 DEF Return, sumVars
  <2>10. CASE LaunchEvent
    BY <2>3, <2>10 DEF LaunchEvent, IInv
  <2>11. CASE FinishLaunches
    BY <2>2, <2>11 DEF FinishLaunches, sumVars
  <2>12. CASE UNCHANGED vars
    BY <2>2, <2>12 DEF vars, sumVars
  <2> QED BY <2>3, <2>4, <2>5, <2>6, <2>7, <2>8, <2>9, <2>10, <2>11, <2>12 DEF Next
<1> QED BY <1>1, <1>2, Inductive, PTL DEF Spec, ImplementsWorkQueue, Queue!Spec

(* The queue length is the number of operations in the queue; it is never  *)
(* negative.                                                               *)
LengthCounts ==
  IsFiniteSet(Outstanding) /\ QueueLengthNow = Cardinality(Outstanding)

THEOREM QueueLengthCounts == Spec => []LengthCounts
<1>1. Queue!Init => LengthCounts
  BY FS_EmptySet DEF Queue!Init, LengthCounts
<1>2. LengthCounts /\ [Queue!Next]_<<Outstanding, QueueLengthNow>> => LengthCounts'
  <2> SUFFICES ASSUME LengthCounts, [Queue!Next]_<<Outstanding, QueueLengthNow>>
               PROVE  LengthCounts'
    OBVIOUS
  <2>1. CASE Queue!Reset
    BY <2>1, FS_EmptySet DEF Queue!Reset, LengthCounts
  <2>2. ASSUME NEW w, Queue!Enqueue(w) PROVE LengthCounts'
    BY <2>2, FS_AddElement DEF Queue!Enqueue, LengthCounts
  <2>3. ASSUME NEW w, Queue!Start(w) PROVE LengthCounts'
    <3>1. Cardinality(Outstanding) \in Nat
      BY FS_CardinalityType DEF LengthCounts
    <3> QED BY <2>3, <3>1, FS_RemoveElement DEF Queue!Start, LengthCounts
  <2>4. CASE UNCHANGED <<Outstanding, QueueLengthNow>>
    BY <2>4 DEF LengthCounts
  <2> QED BY <2>1, <2>2, <2>3, <2>4 DEF Queue!Next
<1> QED BY <1>1, <1>2, QueueRefinement, PTL DEF ImplementsWorkQueue, Queue!Spec

-----------------------------------------------------------------------------
(* The bandwidth of the memory copies                                      *)

StartOf(k) == [work |-> k.index, group |-> k.name, index |-> k.index, ts |-> k.ts, by |-> k.bandwidth]
EndOf(k) == [work |-> k.index, group |-> k.name, index |-> k.index, ts |-> k.ts + RoundedDur(k),
             by |-> -k.bandwidth]

LEMMA CopyRows ==
  ASSUME NEW rows
  PROVE  \A r : r \in BandwidthChanges(rows) <=>
                  \E k \in Copies(rows) : r = StartOf(k) \/ r = EndOf(k)
  BY DEF BandwidthChanges, StartOf, EndOf

(* The two rows of a copy differ in their time stamps, whichever of them   *)
(* is the earlier, and they are of no other copy.                          *)
LEMMA CopyRowsDiffer ==
  ASSUME IInv, rank \in Ranks, NEW k \in Copies(trace[rank]), NEW j \in Copies(trace[rank])
  PROVE  /\ k.ts \in Int /\ k.dur \in Nat \cup {-1} /\ k.bandwidth \in Nat
         /\ StartOf(k).ts = k.ts /\ EndOf(k).ts \in Int
         /\ EndOf(k).ts = IF k.dur = 0 THEN k.ts + 1 ELSE k.ts + k.dur
         /\ StartOf(j) = StartOf(k) => j = k
         /\ EndOf(j) = EndOf(k) => j = k
         /\ StartOf(j) # EndOf(k)
<1>1. /\ Paired(trace[rank]) /\ j \in trace[rank] /\ k \in trace[rank]
      /\ \A e \in trace[rank] : e.ts \in Int /\ e.dur \in Nat \cup {-1} /\ e.bandwidth \in Nat
  BY TracesAssumption DEF IInv, Copies, GpuKernels
<1>2. \A i \in {j, k} : /\ i.ts \in Int /\ i.dur \in Int /\ i.bandwidth \in Nat
                        /\ StartOf(i).index = i.index /\ EndOf(i).index = i.index
                        /\ StartOf(i).ts = i.ts /\ EndOf(i).ts = i.ts + RoundedDur(i)
  BY <1>1 DEF StartOf, EndOf
<1>3. j.index = k.index => j = k
  BY <1>1 DEF Paired
<1>4. /\ EndOf(k).ts = IF k.dur = 0 THEN k.ts + 1 ELSE k.ts + k.dur
      /\ EndOf(k).ts \in Int /\ EndOf(k).ts # k.ts
  BY <1>2 DEF RoundedDur
<1>5. StartOf(j) # EndOf(k)
  BY <1>2, <1>3, <1>4
<1> QED
  BY <1>1, <1>2, <1>3, <1>4, <1>5

(* The copies of the kind whose start was summed, and their end not; and   *)
(* those whose end was summed before their start.                          *)
Active ==
  {k \in Copies(trace[rank]) : k.name = group /\ StartOf(k) \notin left /\ EndOf(k) \in left}
Owed ==
  {k \in Copies(trace[rank]) : k.name = group /\ StartOf(k) \in left /\ EndOf(k) \notin left}

BandwidthOf(r) == [k \in Copies(trace[r]) |-> k.bandwidth]
Expected ==
  SumFunctionOnSet(BandwidthOf(rank), Active) - SumFunctionOnSet(BandwidthOf(rank), Owed)

(* What is summed is a finite set of copies. *)
LEMMA CopiesFinite ==
  ASSUME IInv, NEW r \in Ranks, NEW S, S \subseteq Copies(trace[r])
  PROVE  /\ IsFiniteSet(S) /\ \A k \in S : BandwidthOf(r)[k] \in Nat /\ BandwidthOf(r)[k] = k.bandwidth
         /\ SumFunctionOnSet(BandwidthOf(r), S) \in Nat
         /\ Bandwidth(S) = SumFunctionOnSet(BandwidthOf(r), S)
<1>1. IsFiniteSet(trace[r]) /\ \A e \in trace[r] : e.bandwidth \in Nat
  BY TracesAssumption DEF IInv
<1>2. S \in SUBSET trace[r]
  BY DEF Copies, GpuKernels
<1>3. IsFiniteSet(S) /\ \A k \in S : BandwidthOf(r)[k] \in Nat /\ BandwidthOf(r)[k] = k.bandwidth
  BY <1>1, <1>2, FS_Subset DEF BandwidthOf
<1>4. SumFunctionOnSet(BandwidthOf(r), S) \in Nat
  BY <1>3, SumOfPart
<1> DEFINE f == [k \in S |-> k.bandwidth]
<1>5. Bandwidth(S) = SumFunctionOnSet(f, S)
  BY DEF Bandwidth, SumFunction
<1>6. \A k \in S : f[k] \in Int /\ f[k] = BandwidthOf(r)[k]
  BY <1>3
<1>7. SumFunctionOnSet(f, S) = SumFunctionOnSet(BandwidthOf(r), S)
  <2> HIDE DEF f
  <2> QED
    BY <1>3, <1>6, SumEqual
<1> QED
  BY <1>3, <1>4, <1>5, <1>7

(* A row that is summed moves its copy into a set or out of it.            *)
LEMMA SumRowCopies ==
  ASSUME IInv, SumRow, call = "memory", NEW r \in left, r.group = group, left' = left \ {r}
  PROVE  \E k \in Copies(trace[rank]) :
           \/ r.by = k.bandwidth /\ k \notin Active /\ Active' = Active \cup {k} /\ Owed' = Owed
           \/ r.by = k.bandwidth /\ k \in Owed /\ Owed' = Owed \ {k} /\ Active' = Active
           \/ r.by = -k.bandwidth /\ k \in Active /\ Active' = Active \ {k} /\ Owed' = Owed
           \/ r.by = -k.bandwidth /\ k \notin Owed /\ Owed' = Owed \cup {k} /\ Active' = Active
<1>1. /\ rank \in Ranks /\ SumInv /\ UNCHANGED <<trace, rank, group>>
      /\ Changes = BandwidthChanges(trace[rank])
  BY DEF SumRow, IInv, Changes, RowsOf
<1>2. PICK k \in Copies(trace[rank]) : r = StartOf(k) \/ r = EndOf(k)
  BY <1>1, CopyRows DEF SumInv
<1>3. k.name = group /\ StartOf(k).by = k.bandwidth /\ EndOf(k).by = -k.bandwidth
  BY <1>2 DEF StartOf, EndOf
<1>4. \A j \in Copies(trace[rank]) :
        /\ StartOf(j) = StartOf(k) => j = k
        /\ EndOf(j) = EndOf(k) => j = k
        /\ StartOf(j) # EndOf(k) /\ StartOf(k) # EndOf(j)
  BY <1>1, CopyRowsDiffer
<1>5. ASSUME NEW j \in Copies(trace[rank]), j # k
      PROVE  (j \in Active' <=> j \in Active) /\ (j \in Owed' <=> j \in Owed)
  <2>1. StartOf(j) # r /\ EndOf(j) # r
    BY <1>2, <1>4, <1>5
  <2> QED
    BY <1>1, <2>1 DEF Active, Owed
<1>6. /\ Active \subseteq Copies(trace[rank]) /\ Active' \subseteq Copies(trace[rank])
      /\ Owed \subseteq Copies(trace[rank]) /\ Owed' \subseteq Copies(trace[rank])
  BY <1>1 DEF Active, Owed
<1>7. CASE r = StartOf(k)
  <2>1. StartOf(k) \in left /\ StartOf(k) \notin left' /\ (EndOf(k) \in left' <=> EndOf(k) \in left)
    BY <1>4, <1>7
  <2>2. CASE EndOf(k) \in left
    <3>1. k \notin Active /\ k \in Active' /\ k \notin Owed /\ k \notin Owed'
      BY <1>1, <1>3, <2>1, <2>2 DEF Active, Owed
    <3> QED
      BY <1>3, <1>5, <1>6, <1>7, <3>1
  <2>3. CASE EndOf(k) \notin left
    <3>1. k \notin Active /\ k \notin Active' /\ k \in Owed /\ k \notin Owed'
      BY <1>1, <1>3, <2>1, <2>3 DEF Active, Owed
    <3> QED
      BY <1>3, <1>5, <1>6, <1>7, <3>1
  <2> QED
    BY <2>2, <2>3
<1>8. CASE r = EndOf(k)
  <2>1. EndOf(k) \in left /\ EndOf(k) \notin left' /\ (StartOf(k) \in left' <=> StartOf(k) \in left)
    BY <1>4, <1>8
  <2>2. CASE StartOf(k) \notin left
    <3>1. k \in Active /\ k \notin Active' /\ k \notin Owed /\ k \notin Owed'
      BY <1>1, <1>3, <2>1, <2>2 DEF Active, Owed
    <3> QED
      BY <1>3, <1>5, <1>6, <1>8, <3>1
  <2>3. CASE StartOf(k) \in left
    <3>1. k \notin Active /\ k \notin Active' /\ k \notin Owed /\ k \in Owed'
      BY <1>1, <1>3, <2>1, <2>3 DEF Active, Owed
    <3> QED
      BY <1>3, <1>5, <1>6, <1>8, <3>1
  <2> QED
    BY <2>2, <2>3
<1> QED
  BY <1>2, <1>7, <1>8

LEMMA ExpectedStep ==
  ASSUME IInv, SumRow, call = "memory", NEW r \in left, r.group = group, left' = left \ {r}
  PROVE  Expected \in Int /\ r.by \in Int /\ Expected' = Expected + r.by
<1>1. rank \in Ranks /\ UNCHANGED <<trace, rank>> /\ BandwidthOf(rank)' = BandwidthOf(rank)
  BY DEF SumRow, IInv, BandwidthOf
<1>2. Active \subseteq Copies(trace[rank]) /\ Owed \subseteq Copies(trace[rank])
  BY DEF Active, Owed
<1> DEFINE f == BandwidthOf(rank)
           Sum(S) == SumFunctionOnSet(f, S)
<1>3. \A S : S \subseteq Copies(trace[rank]) =>
        IsFiniteSet(S) /\ Sum(S) \in Nat /\ \A k \in S : f[k] \in Nat /\ f[k] \in Int /\ f[k] = k.bandwidth
  BY <1>1, CopiesFinite
<1>4. PICK k \in Copies(trace[rank]) :
           \/ r.by = k.bandwidth /\ k \notin Active /\ Active' = Active \cup {k} /\ Owed' = Owed
           \/ r.by = k.bandwidth /\ k \in Owed /\ Owed' = Owed \ {k} /\ Active' = Active
           \/ r.by = -k.bandwidth /\ k \in Active /\ Active' = Active \ {k} /\ Owed' = Owed
           \/ r.by = -k.bandwidth /\ k \notin Owed /\ Owed' = Owed \cup {k} /\ Active' = Active
  BY SumRowCopies
<1>5. f[k] \in Nat /\ f[k] = k.bandwidth
  BY <1>3
<1>6. Expected = Sum(Active) - Sum(Owed) /\ Expected' = Sum(Active') - Sum(Owed')
  BY <1>1 DEF Expected
<1>7. ASSUME NEW S, S \subseteq Copies(trace[rank])
      PROVE  /\ k \notin S => Sum(S \cup {k}) = f[k] + Sum(S)
             /\ k \in S => Sum(S) = f[k] + Sum(S \ {k})
  <2>1. S \cup {k} \subseteq Copies(trace[rank])
    BY <1>7
  <2>2. IsFiniteSet(S) /\ \A j \in S \cup {k} : f[j] \in Int
    BY <1>3, <1>7, <2>1
  <2> HIDE DEF f
  <2> QED
    BY <2>2, SumWith, SumWithout
<1>8. /\ Sum(Active) \in Nat /\ Sum(Owed) \in Nat /\ Sum(Active \ {k}) \in Nat /\ Sum(Owed \ {k}) \in Nat
  <2>1. Active \ {k} \subseteq Copies(trace[rank]) /\ Owed \ {k} \subseteq Copies(trace[rank])
    BY <1>2
  <2> HIDE DEF Sum
  <2> QED
    BY <1>2, <1>3, <2>1
<1>9. /\ k \notin Active => Sum(Active \cup {k}) = f[k] + Sum(Active)
      /\ k \in Active => Sum(Active) = f[k] + Sum(Active \ {k})
      /\ k \notin Owed => Sum(Owed \cup {k}) = f[k] + Sum(Owed)
      /\ k \in Owed => Sum(Owed) = f[k] + Sum(Owed \ {k})
  <2> HIDE DEF Sum, f
  <2> QED
    BY <1>2, <1>7
<1> DEFINE active == Sum(Active)
           owed == Sum(Owed)
           by == f[k]
<1>10. active \in Int /\ owed \in Int /\ by \in Int /\ Expected = active - owed
  BY <1>5, <1>6, <1>8
<1> HIDE DEF Sum, f
<1>11. CASE r.by = k.bandwidth /\ k \notin Active /\ Active' = Active \cup {k} /\ Owed' = Owed
  <2>1. Sum(Active') = by + active /\ Sum(Owed') = owed /\ r.by = by
    BY <1>5, <1>9, <1>11
  <2> HIDE DEF active, owed, by
  <2> QED
    BY <1>6, <1>10, <2>1
<1>12. CASE r.by = k.bandwidth /\ k \in Owed /\ Owed' = Owed \ {k} /\ Active' = Active
  <2>1. Sum(Active') = active /\ owed = by + Sum(Owed') /\ Sum(Owed') \in Int /\ r.by = by
    BY <1>5, <1>8, <1>9, <1>12
  <2> HIDE DEF active, owed, by
  <2> QED
    BY <1>6, <1>10, <2>1
<1>13. CASE r.by = -k.bandwidth /\ k \in Active /\ Active' = Active \ {k} /\ Owed' = Owed
  <2>1. active = by + Sum(Active') /\ Sum(Active') \in Int /\ Sum(Owed') = owed /\ r.by = -by
    BY <1>5, <1>8, <1>9, <1>13
  <2> HIDE DEF active, owed, by
  <2> QED
    BY <1>6, <1>10, <2>1
<1>14. CASE r.by = -k.bandwidth /\ k \notin Owed /\ Owed' = Owed \cup {k} /\ Active' = Active
  <2>1. Sum(Active') = active /\ Sum(Owed') = by + owed /\ r.by = -by
    BY <1>5, <1>9, <1>14
  <2> HIDE DEF active, owed, by
  <2> QED
    BY <1>6, <1>10, <2>1
<1> QED
  BY <1>4, <1>11, <1>12, <1>13, <1>14

(* A sum begins with no copy: none of the rows of its kind was summed.     *)
LEMMA ExpectedAtStart ==
  ASSUME call' = "memory", \A r \in Changes' \ left' : r.group # group'
  PROVE  Expected' = 0
<1>1. \A k \in Copies(trace'[rank']) : /\ StartOf(k) \in Changes' /\ StartOf(k).group = k.name
                                       /\ EndOf(k) \in Changes' /\ EndOf(k).group = k.name
  BY CopyRows DEF Changes, RowsOf, StartOf, EndOf
<1>2. Active' = {} /\ Owed' = {}
  BY <1>1 DEF Active, Owed
<1>3. SumFunctionOnSet(BandwidthOf(rank)', {}) = 0
  BY FS_EmptySet, SumRecursion
<1> QED
  BY <1>2, <1>3 DEF Expected

-----------------------------------------------------------------------------
(* The types                                                               *)

LEMMA RowTypes ==
  ASSUME IInv, pc = "sum"
  PROVE  \A r \in Changes : r.ts \in Int /\ r.by \in Int
<1> SUFFICES ASSUME NEW r \in Changes PROVE r.ts \in Int /\ r.by \in Int
  OBVIOUS
<1>1. rank \in Ranks /\ call \in {"queue", "memory"}
  BY DEF IInv
<1>2. CASE call = "queue"
  <2>1. r \in QueueChanges(trace[rank])
    BY <1>2, QueueRows
  <2>2. r.by = 1 \/ r.by = -1
    BY <2>1, ChangeCases, ChangeFields
  <2> QED
    BY <1>1, <2>1, <2>2, PairsOfRank
<1>3. CASE call = "memory"
  <2>1. r \in BandwidthChanges(trace[rank])
    BY <1>3 DEF Changes, RowsOf
  <2>2. PICK k \in Copies(trace[rank]) : r = StartOf(k) \/ r = EndOf(k)
    BY <2>1, CopyRows
  <2>3. k.bandwidth \in Nat /\ StartOf(k).ts \in Int /\ EndOf(k).ts \in Int
    BY <1>1, CopyRowsDiffer
  <2>4. StartOf(k).by = k.bandwidth /\ EndOf(k).by = -k.bandwidth
    BY DEF StartOf, EndOf
  <2> QED
    BY <2>2, <2>3, <2>4
<1> QED
  BY <1>1, <1>2, <1>3

(* The series and the results, without the time a queue was full. *)
SeriesTypes ==
  /\ running \in Int
  /\ DOMAIN series \subseteq Ranks
  /\ \A r \in DOMAIN series :
       /\ series[r] \in Seq(Range(series[r]))
       /\ \A i \in DOMAIN series[r] : series[r][i].ts \in Int /\ series[r][i].value \in Int
  /\ DOMAIN results \subseteq Ranks /\ \A r \in DOMAIN results : results[r] \subseteq stats
  /\ pc \notin {"returned"} => blocked = << >>

(* A sum is off by the residue at most. *)
LEMMA AddedBounds ==
  ASSUME running \in Int, NEW by \in Int, NEW sum \in Added(by)
  PROVE  /\ sum \in Int /\ running + by - Residue <= sum /\ sum <= running + by + Residue
         /\ call = "queue" => sum = running + by
  BY ResidueAssumption DEF Added

(* The sum of a row adds a point to the series of the rank. *)
LEMMA SumRowEffect ==
  ASSUME IInv, SeriesTypes, SumRow
  PROVE  \E r \in left :
           /\ group # None /\ r.group = group /\ Earliest(left, r) /\ r \in Changes
           /\ running' \in Added(r.by) /\ left' = left \ {r}
           /\ DOMAIN series' = DOMAIN series \cup {rank}
           /\ \A q \in DOMAIN series : q # rank => series'[q] = series[q]
           /\ PointsOf(rank) \in Seq(Range(PointsOf(rank)))
           /\ series'[rank] = Append(PointsOf(rank), [group |-> group, index |-> r.index, ts |-> r.ts,
                                                      value |-> running'])
<1>1. PICK r \in left : \E sum \in Added(r.by) :
        /\ group # None /\ r.group = group /\ Earliest(left, r)
        /\ running' = sum /\ left' = left \ {r}
        /\ series' = [q \in DOMAIN series \cup {rank} |->
               IF q = rank
               THEN Append(PointsOf(rank),
                           [group |-> group, index |-> r.index, ts |-> r.ts, value |-> sum])
               ELSE series[q]]
  BY DEF SumRow
<1>2. r \in Changes
  BY DEF SumRow, IInv, SumInv
<1>3. PointsOf(rank) \in Seq(Range(PointsOf(rank)))
  <2>1. << >> \in Seq(Range(<< >>))
    OBVIOUS
  <2>2. rank \in DOMAIN series => series[rank] \in Seq(Range(series[rank]))
    BY DEF SeriesTypes
  <2> QED
    BY <2>1, <2>2 DEF PointsOf
<1> QED
  BY <1>1, <1>2, <1>3

(* No other step adds to a series. *)
LEMMA OtherSteps ==
  ASSUME [Next]_vars, ~SumRow
  PROVE  /\ DOMAIN series' \subseteq DOMAIN series
         /\ \A r \in DOMAIN series' : series'[r] = series[r]
         /\ running' \in {running, 0}
  BY DEF Next, vars, sumVars, StartRank, NextGroup, FinishSum, MeasureBlocked, Return,
         LaunchEvent, FinishLaunches

LEMMA SeriesTypesStep == IInv /\ SeriesTypes /\ [Next]_vars => SeriesTypes'
<1> SUFFICES ASSUME IInv, SeriesTypes, [Next]_vars PROVE SeriesTypes'
  OBVIOUS
<1>1. /\ DOMAIN results' \subseteq Ranks /\ \A r \in DOMAIN results' : results'[r] \subseteq stats'
      /\ pc' \notin {"returned"} => blocked' = << >>
  <2>1. CASE LaunchEvent
    <3>1. stats \subseteq stats' /\ UNCHANGED <<results, blocked>> /\ pc' # "returned" /\ pc = "launch"
      BY <2>1 DEF LaunchEvent
    <3> QED
      BY <3>1 DEF SeriesTypes
  <2>2. CASE FinishLaunches
    <3>1. rank \in Ranks /\ UNCHANGED <<stats, blocked>> /\ pc = "launch"
      BY <2>2 DEF FinishLaunches, IInv
    <3>2. \/ results' = results
          \/ results' = [q \in DOMAIN results \cup {rank} |-> IF q = rank THEN stats ELSE results[q]]
      BY <2>2 DEF FinishLaunches
    <3> QED
      BY <3>1, <3>2 DEF SeriesTypes
  <2>3. CASE MeasureBlocked
    BY <2>3 DEF MeasureBlocked, SeriesTypes
  <2>4. CASE Return
    BY <2>4 DEF Return, SeriesTypes
  <2>5. CASE StartRank \/ SumRow \/ NextGroup \/ FinishSum
    <3>1. UNCHANGED <<results, stats, blocked>> /\ pc # "returned"
      BY <2>5 DEF StartRank, SumRow, NextGroup, FinishSum
    <3> QED
      BY <3>1 DEF SeriesTypes
  <2>6. CASE UNCHANGED vars
    BY <2>6 DEF vars, SeriesTypes
  <2> QED
    BY <2>1, <2>2, <2>3, <2>4, <2>5, <2>6 DEF Next
<1>2. CASE SumRow
  <2>1. PICK r \in left :
           /\ r \in Changes /\ running' \in Added(r.by)
           /\ DOMAIN series' = DOMAIN series \cup {rank}
           /\ \A q \in DOMAIN series : q # rank => series'[q] = series[q]
           /\ PointsOf(rank) \in Seq(Range(PointsOf(rank)))
           /\ series'[rank] = Append(PointsOf(rank), [group |-> group, index |-> r.index, ts |-> r.ts,
                                                      value |-> running'])
    BY <1>2, SumRowEffect
  <2>2. rank \in Ranks /\ pc = "sum"
    BY <1>2 DEF SumRow, IInv
  <2>3. r.ts \in Int /\ running' \in Int
    BY <1>2, <2>1, <2>2, RowTypes, AddedBounds DEF SeriesTypes
  <2>4. \A i \in DOMAIN PointsOf(rank) : PointsOf(rank)[i].ts \in Int /\ PointsOf(rank)[i].value \in Int
    BY DEF PointsOf, SeriesTypes
  <2>5. /\ series'[rank] \in Seq(Range(series'[rank]))
        /\ \A i \in DOMAIN series'[rank] : series'[rank][i].ts \in Int /\ series'[rank][i].value \in Int
    BY <2>1, <2>3, <2>4, Appended
  <2>6. DOMAIN series' \subseteq Ranks
    BY <2>1, <2>2 DEF SeriesTypes
  <2>7. \A q \in DOMAIN series' :
           /\ series'[q] \in Seq(Range(series'[q]))
           /\ \A i \in DOMAIN series'[q] : series'[q][i].ts \in Int /\ series'[q][i].value \in Int
    BY <2>1, <2>5 DEF SeriesTypes
  <2> QED
    BY <1>1, <2>3, <2>6, <2>7 DEF SeriesTypes
<1>3. CASE ~SumRow
  BY <1>1, <1>3, OtherSteps DEF SeriesTypes
<1> QED
  BY <1>2, <1>3

LEMMA SeriesTypesInit == Init => SeriesTypes
  BY DEF Init, SeriesTypes

LEMMA AlwaysSeriesTypes == Spec => []SeriesTypes
  BY SeriesTypesInit, SeriesTypesStep, Inductive, PTL DEF Spec

(* The rows of a rank that have no point in its series yet. *)
Unsummed(r) == IF r = rank THEN left ELSE {}

SameMoment(p, q) == p.group = q.group /\ p.ts = q.ts

-----------------------------------------------------------------------------
(* The points of a bandwidth series                                        *)

(* How many points of a group there are up to one, and in a series.        *)
Terms(points, g, n) == Cardinality({j \in 1 .. n : points[j].group = g})

(* No row of the group of a point is left at its moment.                   *)
Settled(r, i) ==
  /\ LastOfMoment(r, i)
  /\ \A q \in Unsummed(r) : q.group = series[r][i].group => series[r][i].ts < q.ts

AboveBackward(r, i) ==
  series[r][i].value >= -Bandwidth(Backward(r, series[r][i].group, series[r][i].ts)) - Slack(r, i)

ExpectedAt(r, g, t) ==
  Bandwidth(InProgress(r, g, t)) - Bandwidth({k \in Backward(r, g, t) : t < k.ts})

ByClock(r, i) ==
  series[r][i].value \in (ExpectedAt(r, series[r][i].group, series[r][i].ts) - Slack(r, i))
                           .. (ExpectedAt(r, series[r][i].group, series[r][i].ts) + Slack(r, i))

PointInv(r, i) ==
  /\ \E q \in BandwidthChanges(trace[r]) \ Unsummed(r) : SameMoment(series[r][i], q)
  /\ AboveBackward(r, i)
  /\ Settled(r, i) => ByClock(r, i)

(* The running sum is off by the residue of each of its terms at most.     *)
SumNearExpected ==
  LET slack == Residue * Terms(PointsOf(rank), group, Len(PointsOf(rank)))
  IN Expected - slack <= running /\ running <= Expected + slack

BandwidthInv ==
  call = "memory" =>
    /\ pc # "sum" => left = {}
    /\ pc = "sum" => SumNearExpected
    /\ \A r \in DOMAIN series : \A i \in DOMAIN series[r] : PointInv(r, i)

LEMMA TermsType ==
  ASSUME NEW n \in Nat, NEW points, NEW g
  PROVE  Terms(points, g, n) \in Nat
<1>1. IsFiniteSet(1 .. n) /\ {j \in 1 .. n : points[j].group = g} \in SUBSET (1 .. n)
  BY Positions
<1>2. IsFiniteSet({j \in 1 .. n : points[j].group = g})
  BY <1>1, FS_Subset
<1> QED
  BY <1>2, FS_CardinalityType DEF Terms

(* Points with the same beginning have the same terms there. *)
LEMMA TermsOfBeginning ==
  ASSUME NEW i \in Nat, NEW old, NEW new, NEW h, \A j \in 1 .. i : new[j] = old[j]
  PROVE  Terms(new, h, i) = Terms(old, h, i)
<1>1. {j \in 1 .. i : new[j].group = h} = {j \in 1 .. i : old[j].group = h}
  OBVIOUS
<1> QED
  BY <1>1 DEF Terms

(* A point more of the group is a term more. *)
LEMMA TermsOfAppended ==
  ASSUME NEW n \in Nat, NEW old, NEW new, NEW g, \A i \in 1 .. n : new[i] = old[i], new[n + 1].group = g
  PROVE  Terms(new, g, n + 1) = Terms(old, g, n) + 1
<1> DEFINE before == {j \in 1 .. n : old[j].group = g}
<1>1. IsFiniteSet(before)
  <2>1. IsFiniteSet(1 .. n) /\ before \in SUBSET (1 .. n)
    BY Positions
  <2> QED
    BY <2>1, FS_Subset
<1>2. {j \in 1 .. n + 1 : new[j].group = g} = before \cup {n + 1} /\ n + 1 \notin before
  OBVIOUS
<1>3. Cardinality(before \cup {n + 1}) = Cardinality(before) + 1
  <2> HIDE DEF before
  <2> QED
    BY <1>1, <1>2, FS_AddElement
<1> QED
  BY <1>2, <1>3 DEF Terms

(* After a row is summed, the copies whose end was summed before their     *)
(* start are among those that end before they start, around its moment; if *)
(* no row of the moment is left, the copies are those the clock finds.     *)
LEMMA CopiesAtMoment ==
  ASSUME IInv, SumRow, call = "memory", NEW r \in left, r.group = group, Earliest(left, r),
         left' = left \ {r}
  PROVE  /\ Owed' \subseteq Backward(rank, group, r.ts)
         /\ (\A s \in left' : s.group = group => r.ts < s.ts) =>
               /\ Active' = InProgress(rank, group, r.ts)
               /\ Owed' = {k \in Backward(rank, group, r.ts) : r.ts < k.ts}
<1>1. /\ rank \in Ranks /\ SumInv /\ UNCHANGED <<trace, rank, group>>
      /\ Changes = BandwidthChanges(trace[rank])
  BY DEF SumRow, IInv, Changes, RowsOf
<1>2. \A k \in Copies(trace[rank]) :
        /\ k.ts \in Int /\ k.dur \in Nat \cup {-1}
        /\ StartOf(k).ts = k.ts /\ EndOf(k).ts \in Int
        /\ EndOf(k).ts = IF k.dur = 0 THEN k.ts + 1 ELSE k.ts + k.dur
  BY <1>1, CopyRowsDiffer
<1>3. \A k \in Copies(trace[rank]) :
        /\ StartOf(k) \in Changes /\ StartOf(k).group = k.name
        /\ EndOf(k) \in Changes /\ EndOf(k).group = k.name
  BY <1>1, CopyRows DEF StartOf, EndOf
<1>4. r.ts \in Int
  <2>1. PICK k \in Copies(trace[rank]) : r = StartOf(k) \/ r = EndOf(k)
    BY <1>1, CopyRows DEF SumInv
  <2> QED
    BY <1>2, <2>1
<1>5. ASSUME NEW s \in Changes, s.group = group, s.ts \in Int
      PROVE  (s \in left' => r.ts <= s.ts) /\ (s \notin left' => s.ts <= r.ts)
  <2>1. s \in left => r.ts <= s.ts
    BY <1>5 DEF Earliest
  <2>2. s \in Changes \ left => s.ts <= r.ts
    BY <1>1, <1>5 DEF SumInv
  <2> QED
    BY <1>4, <2>1, <2>2
<1>6. ASSUME NEW k \in Copies(trace[rank]), k.name = group
      PROVE  /\ StartOf(k) \in left' => r.ts <= k.ts
             /\ StartOf(k) \notin left' => k.ts <= r.ts
             /\ EndOf(k) \in left' => r.ts <= EndOf(k).ts
             /\ EndOf(k) \notin left' => EndOf(k).ts <= r.ts
  BY <1>2, <1>3, <1>5, <1>6
<1>7. Owed' \subseteq Backward(rank, group, r.ts)
  <2> SUFFICES ASSUME NEW k \in Owed' PROVE k \in Backward(rank, group, r.ts)
    OBVIOUS
  <2>1. /\ k \in Copies(trace[rank]) /\ k.name = group
        /\ StartOf(k) \in left' /\ EndOf(k) \notin left'
    BY <1>1 DEF Owed
  <2>2. r.ts <= k.ts /\ EndOf(k).ts <= r.ts
    BY <1>6, <2>1
  <2>3. k.dur < 0 /\ EndOf(k).ts = k.ts + k.dur
    BY <1>2, <1>4, <2>1, <2>2
  <2> QED
    BY <2>1, <2>2, <2>3 DEF Backward
<1>8. ASSUME \A s \in left' : s.group = group => r.ts < s.ts
      PROVE  /\ Active' = InProgress(rank, group, r.ts)
             /\ Owed' = {k \in Backward(rank, group, r.ts) : r.ts < k.ts}
  <2>1. ASSUME NEW k \in Copies(trace[rank]), k.name = group
        PROVE  /\ StartOf(k) \in left' <=> r.ts < k.ts
               /\ EndOf(k) \in left' <=> r.ts < EndOf(k).ts
    <3>1. StartOf(k) \in left' => r.ts < k.ts
      BY <1>2, <1>3, <1>8, <2>1
    <3>2. EndOf(k) \in left' => r.ts < EndOf(k).ts
      BY <1>3, <1>8, <2>1
    <3>3. k.ts \in Int /\ EndOf(k).ts \in Int
      BY <1>2
    <3> QED
      BY <1>4, <1>6, <2>1, <3>1, <3>2, <3>3
  <2>2. ASSUME NEW k \in Copies(trace[rank]), k.name = group
        PROVE  /\ k \in Active' <=> k.ts <= r.ts /\ r.ts < EndOf(k).ts
               /\ k \in Owed' <=> r.ts < k.ts /\ EndOf(k).ts <= r.ts
    <3>1. k.ts \in Int /\ EndOf(k).ts \in Int
      BY <1>2
    <3>2. /\ k \in Active' <=> StartOf(k) \notin left' /\ EndOf(k) \in left'
          /\ k \in Owed' <=> StartOf(k) \in left' /\ EndOf(k) \notin left'
      BY <1>1, <2>2 DEF Active, Owed
    <3> QED
      BY <1>4, <2>1, <2>2, <3>1, <3>2
  <2>3. ASSUME NEW k \in Copies(trace[rank]), k.name = group
        PROVE  /\ k \in Active' <=> k \in InProgress(rank, group, r.ts)
               /\ k \in Owed' <=> k \in Backward(rank, group, r.ts) /\ r.ts < k.ts
    <3>1. /\ k.ts \in Int /\ k.dur \in Nat \cup {-1}
          /\ EndOf(k).ts = IF k.dur = 0 THEN k.ts + 1 ELSE k.ts + k.dur
      BY <1>2
    <3>2. k.dur >= 0 /\ k.ts <= r.ts /\ (r.ts < k.ts + k.dur \/ r.ts = k.ts)
            <=> k.ts <= r.ts /\ r.ts < EndOf(k).ts
      BY <1>4, <3>1
    <3>3. (k.dur < 0 /\ k.ts + k.dur <= r.ts /\ r.ts <= k.ts) /\ r.ts < k.ts
            <=> r.ts < k.ts /\ EndOf(k).ts <= r.ts
      BY <1>4, <3>1
    <3> QED
      BY <2>2, <2>3, <3>2, <3>3 DEF InProgress, Backward
  <2>4. /\ \A k \in Active' \cup Owed' : k \in Copies(trace[rank]) /\ k.name = group
        /\ \A k \in InProgress(rank, group, r.ts) \cup Backward(rank, group, r.ts) :
             k \in Copies(trace[rank]) /\ k.name = group
    BY <1>1 DEF Active, Owed, InProgress, Backward
  <2> QED
    BY <2>3, <2>4
<1> QED
  BY <1>7, <1>8

(* The sum keeps near to what it should be, and its new point is near to   *)
(* what the clock finds.                                                   *)
LEMMA SumRowNear ==
  ASSUME IInv, SeriesTypes, SumRow, call = "memory", SumNearExpected,
         NEW r \in left, r.group = group, Earliest(left, r), r \in Changes,
         running' \in Added(r.by), left' = left \ {r},
         NEW slack \in Int, slack = Residue * (Terms(PointsOf(rank), group, Len(PointsOf(rank))) + 1)
  PROVE  /\ Expected' - slack <= running' /\ running' <= Expected' + slack
         /\ running' >= -Bandwidth(Backward(rank, group, r.ts)) - slack
         /\ (\A s \in left' : s.group = group => r.ts < s.ts) =>
               running' \in (ExpectedAt(rank, group, r.ts) - slack) .. (ExpectedAt(rank, group, r.ts) + slack)
<1>1. /\ rank \in Ranks /\ pc = "sum" /\ UNCHANGED <<trace, rank, group>>
      /\ BandwidthOf(rank)' = BandwidthOf(rank)
  BY DEF SumRow, IInv, BandwidthOf
<1> DEFINE n == Terms(PointsOf(rank), group, Len(PointsOf(rank)))
<1>2. Len(PointsOf(rank)) \in Nat
  <2>1. << >> \in Seq({}) /\ (rank \in DOMAIN series => series[rank] \in Seq(Range(series[rank])))
    BY DEF SeriesTypes
  <2> QED
    BY <2>1 DEF PointsOf
<1>3. n \in Nat /\ Residue \in Nat
  BY <1>2, TermsType, ResidueAssumption
<1>4. running \in Int /\ Expected - Residue * n <= running /\ running <= Expected + Residue * n
  BY DEF SumNearExpected, SeriesTypes
<1>5. /\ running' \in Int /\ r.by \in Int
      /\ running + r.by - Residue <= running' /\ running' <= running + r.by + Residue
  BY <1>1, <1>4, RowTypes, AddedBounds
<1>6. Expected \in Int /\ Expected' = Expected + r.by
  BY ExpectedStep
<1>7. slack = Residue * n + Residue /\ Residue * n \in Int
  <2> HIDE DEF n
  <2>1. Residue * (n + 1) = Residue * n + Residue /\ Residue * n \in Int
    BY <1>3
  <2> QED
    BY <2>1 DEF n
<1>8. Expected' - slack <= running' /\ running' <= Expected' + slack
  <2> HIDE DEF n
  <2> QED
    BY <1>3, <1>4, <1>5, <1>6, <1>7
<1> DEFINE Sum(S) == SumFunctionOnSet(BandwidthOf(rank), S)
           backward == Backward(rank, group, r.ts)
<1>9. Expected' = Sum(Active') - Sum(Owed')
  BY <1>1 DEF Expected
<1>10. /\ Active' \subseteq Copies(trace[rank]) /\ Owed' \subseteq Copies(trace[rank])
       /\ backward \subseteq Copies(trace[rank])
       /\ InProgress(rank, group, r.ts) \subseteq Copies(trace[rank])
       /\ {k \in backward : r.ts < k.ts} \subseteq Copies(trace[rank])
  BY <1>1 DEF Active, Owed, Backward, InProgress
<1>11. \A S : S \subseteq Copies(trace[rank]) => Sum(S) \in Nat /\ Bandwidth(S) = Sum(S)
  BY <1>1, CopiesFinite
<1>12. Owed' \in SUBSET backward
  BY CopiesAtMoment
<1>13. Sum(Owed') <= Sum(backward)
  <2>1. IsFiniteSet(backward) /\ \A k \in backward : BandwidthOf(rank)[k] \in Nat
    BY <1>1, <1>10, CopiesFinite
  <2> HIDE DEF backward
  <2> QED
    BY <1>12, <2>1, SumOfPart
<1>14. Sum(Active') \in Nat /\ Sum(Owed') \in Nat /\ Sum(backward) \in Nat /\ Bandwidth(backward) = Sum(backward)
  BY <1>10, <1>11
<1>15. running' >= -Bandwidth(backward) - slack
  <2> HIDE DEF Sum, backward
  <2> QED
    BY <1>5, <1>8, <1>9, <1>13, <1>14
<1>16. ASSUME \A s \in left' : s.group = group => r.ts < s.ts
       PROVE  ExpectedAt(rank, group, r.ts) = Expected'
  <2>1. Active' = InProgress(rank, group, r.ts) /\ Owed' = {k \in backward : r.ts < k.ts}
    BY <1>16, CopiesAtMoment
  <2>2. Bandwidth(Active') = Sum(Active') /\ Bandwidth(Owed') = Sum(Owed')
    BY <1>10, <1>11
  <2> QED
    BY <1>9, <2>1, <2>2 DEF ExpectedAt
<1>17. Expected' \in Int
  BY <1>5, <1>6
<1> HIDE DEF backward, Sum, n
<1>18. ASSUME \A s \in left' : s.group = group => r.ts < s.ts
       PROVE  running' \in (ExpectedAt(rank, group, r.ts) - slack) .. (ExpectedAt(rank, group, r.ts) + slack)
  BY <1>5, <1>8, <1>16, <1>17, <1>18
<1> QED
  BY <1>8, <1>15, <1>18 DEF backward

(* The point of the row that is summed, and those before it.               *)
LEMMA SumRowPoints ==
  ASSUME IInv, SeriesTypes, SumRow, call = "memory", BandwidthInv
  PROVE  SumNearExpected' /\ \A i \in DOMAIN series'[rank] : PointInv(rank, i)'
<1>1. /\ rank \in Ranks /\ pc = "sum" /\ UNCHANGED <<trace, rank, group, call, pc>> /\ SumInv
      /\ Changes = BandwidthChanges(trace[rank])
  BY DEF SumRow, IInv, Changes, RowsOf
<1>2. PICK r \in left :
         /\ group # None /\ r.group = group /\ Earliest(left, r) /\ r \in Changes
         /\ running' \in Added(r.by) /\ left' = left \ {r}
         /\ DOMAIN series' = DOMAIN series \cup {rank}
         /\ PointsOf(rank) \in Seq(Range(PointsOf(rank)))
         /\ series'[rank] = Append(PointsOf(rank), [group |-> group, index |-> r.index, ts |-> r.ts,
                                                    value |-> running'])
  BY SumRowEffect
<1> PICK n : n = Len(PointsOf(rank))
  OBVIOUS
<1> DEFINE old == PointsOf(rank)
           new == series'[rank]
           slack == Residue * (Terms(old, group, n) + 1)
<1>3. /\ n \in Nat /\ DOMAIN old = 1 .. n /\ DOMAIN new = 1 .. n + 1
      /\ \A i \in 1 .. n : new[i] = old[i]
      /\ new[n + 1].group = group /\ new[n + 1].ts = r.ts /\ new[n + 1].value = running'
      /\ new \in Seq(Range(new))
  <2>1. new = Append(old, [group |-> group, index |-> r.index, ts |-> r.ts, value |-> running'])
    BY <1>2
  <2> HIDE DEF old, new
  <2> QED
    BY <1>2, <2>1, Appended DEF old
<1>4. Len(new) = n + 1
  BY <1>3
<1>5. /\ Terms(new, group, n + 1) = Terms(old, group, n) + 1
      /\ \A i \in 1 .. n : \A h : Terms(new, h, i) = Terms(old, h, i)
  <2> HIDE DEF old, new
  <2>1. n \in Nat /\ \A i \in 1 .. n : new[i] = old[i]
    BY <1>3
  <2>2. new[n + 1].group = group
    BY <1>3
  <2>3. Terms(new, group, n + 1) = Terms(old, group, n) + 1
    BY <2>1, <2>2, TermsOfAppended
  <2>4. ASSUME NEW i \in 1 .. n, NEW h
        PROVE  Terms(new, h, i) = Terms(old, h, i)
    <3>1. i \in Nat /\ \A j \in 1 .. i : j \in 1 .. n
      BY <2>1
    <3>2. \A j \in 1 .. i : new[j] = old[j]
      BY <2>1, <3>1
    <3> QED
      BY <3>1, <3>2, TermsOfBeginning
  <2> QED
    BY <2>3, <2>4
<1>6. slack \in Int
  <2>1. Terms(old, group, n) \in Nat
    BY <1>3, TermsType
  <2> HIDE DEF old
  <2> QED
    BY <2>1, ResidueAssumption
<1>7. /\ Expected' - slack <= running' /\ running' <= Expected' + slack
      /\ running' >= -Bandwidth(Backward(rank, group, r.ts)) - slack
      /\ (\A s \in left' : s.group = group => r.ts < s.ts) =>
            running' \in (ExpectedAt(rank, group, r.ts) - slack) .. (ExpectedAt(rank, group, r.ts) + slack)
  <2>1. SumNearExpected
    BY <1>1 DEF BandwidthInv
  <2> HIDE DEF slack
  <2> QED
    BY <1>2, <1>6, <2>1, SumRowNear DEF slack
<1>8. Slack(rank, n + 1)' = slack
      /\ \A i \in 1 .. n : rank \in DOMAIN series => Slack(rank, i)' = Slack(rank, i)
  <2>1. \A i \in 1 .. n + 1 : Slack(rank, i)' = Residue * Terms(new, new[i].group, i)
    BY <1>1 DEF Slack, Terms
  <2>2. \A i \in 1 .. n : rank \in DOMAIN series => Slack(rank, i) = Residue * Terms(old, old[i].group, i)
    BY DEF Slack, Terms, PointsOf
  <2>3. n + 1 \in 1 .. n + 1 /\ \A i \in 1 .. n : i \in 1 .. n + 1
    BY <1>3
  <2> HIDE DEF old, new
  <2> QED
    BY <1>3, <1>5, <2>1, <2>2, <2>3 DEF slack
<1>9. SumNearExpected'
  <2>1. PointsOf(rank)' = new
    BY <1>1, <1>2 DEF PointsOf
  <2> HIDE DEF new, old
  <2> QED
    BY <1>1, <1>4, <1>5, <1>7, <2>1 DEF SumNearExpected, slack
<1>10. \A g, t : /\ Backward(rank, g, t)' = Backward(rank, g, t)
                 /\ ExpectedAt(rank, g, t)' = ExpectedAt(rank, g, t)
  BY <1>1 DEF ExpectedAt, InProgress, Backward
<1>11. Unsummed(rank) = left /\ Unsummed(rank)' = left'
  BY <1>1 DEF Unsummed
<1>12. PointInv(rank, n + 1)'
  <2>1. r \in BandwidthChanges(trace'[rank]) \ Unsummed(rank)' /\ SameMoment(new[n + 1], r)
    BY <1>1, <1>2, <1>3, <1>11 DEF SameMoment
  <2>2. AboveBackward(rank, n + 1)'
    BY <1>1, <1>3, <1>7, <1>8, <1>10 DEF AboveBackward
  <2>3. ASSUME Settled(rank, n + 1)' PROVE ByClock(rank, n + 1)'
    <3>1. \A s \in left' : s.group = group => r.ts < s.ts
      BY <1>1, <1>3, <1>11, <2>3 DEF Settled
    <3> QED
      BY <1>1, <1>3, <1>7, <1>8, <1>10, <3>1 DEF ByClock
  <2> QED
    BY <1>1, <2>1, <2>2, <2>3 DEF PointInv
<1>13. ASSUME NEW i \in 1 .. n PROVE PointInv(rank, i)'
  <2>1. rank \in DOMAIN series /\ old = series[rank]
    BY <1>3, <1>13 DEF PointsOf
  <2>2. PointInv(rank, i)
    BY <1>1, <1>3, <1>13, <2>1 DEF BandwidthInv
  <2>3. new[i] = series[rank][i] /\ Slack(rank, i)' = Slack(rank, i)
    BY <1>3, <1>8, <1>13, <2>1
  <2>4. \E q \in BandwidthChanges(trace'[rank]) \ Unsummed(rank)' : SameMoment(new[i], q)
    BY <1>1, <1>2, <1>11, <2>2, <2>3 DEF PointInv
  <2>5. AboveBackward(rank, i)'
    BY <1>1, <1>10, <2>2, <2>3 DEF PointInv, AboveBackward
  <2>6. ASSUME Settled(rank, i)' PROVE ByClock(rank, i)'
    <3>1. \A j \in 1 .. n + 1 : i < j /\ new[j].group = new[i].group => new[i].ts < new[j].ts
      BY <1>1, <1>3, <2>6 DEF Settled, LastOfMoment
    <3>2. LastOfMoment(rank, i)
      <4>1. ASSUME NEW j \in 1 .. n PROVE j \in 1 .. n + 1 /\ new[j] = series[rank][j]
        BY <1>3, <2>1
      <4> HIDE DEF new
      <4> QED
        BY <1>3, <2>1, <2>3, <3>1, <4>1 DEF LastOfMoment
    <3>3. ASSUME NEW q \in left, q.group = new[i].group PROVE new[i].ts < q.ts
      <4>1. CASE q = r
        <5>1. n + 1 \in 1 .. n + 1 /\ i < n + 1
          BY <1>3, <1>13
        <5> QED
          BY <1>2, <1>3, <3>1, <3>3, <4>1, <5>1
      <4>2. CASE q # r
        BY <1>1, <1>2, <1>11, <2>6, <3>3, <4>2 DEF Settled
      <4> QED
        BY <4>1, <4>2
    <3>4. Settled(rank, i)
      BY <1>11, <2>3, <3>2, <3>3 DEF Settled
    <3>5. ByClock(rank, i)
      BY <2>2, <3>4 DEF PointInv
    <3> QED
      BY <1>1, <1>10, <2>3, <3>5 DEF ByClock
  <2> QED
    BY <1>1, <2>4, <2>5, <2>6 DEF PointInv
<1>14. ASSUME NEW i \in DOMAIN new PROVE PointInv(rank, i)'
  <2>1. i \in 1 .. n \/ i = n + 1
    BY <1>3, <1>14
  <2> QED
    BY <1>12, <1>13, <2>1
<1> QED
  BY <1>1, <1>9, <1>14

(* A point stays as it is while the rows of its rank do.                   *)
LEMMA PointKept ==
  ASSUME NEW r, NEW i, PointInv(r, i), series'[r] = series[r], trace' = trace, Unsummed(r)' = Unsummed(r)
  PROVE  PointInv(r, i)'
<1>1. /\ Slack(r, i)' = Slack(r, i) /\ LastOfMoment(r, i)' = LastOfMoment(r, i)
      /\ \A g, t : /\ Backward(r, g, t)' = Backward(r, g, t)
                   /\ ExpectedAt(r, g, t)' = ExpectedAt(r, g, t)
  BY DEF Slack, LastOfMoment, ExpectedAt, InProgress, Backward
<1>2. AboveBackward(r, i)' = AboveBackward(r, i) /\ ByClock(r, i)' = ByClock(r, i)
  BY <1>1 DEF AboveBackward, ByClock
<1>3. Settled(r, i)' => Settled(r, i)
  BY <1>1 DEF Settled
<1> QED
  BY <1>2, <1>3 DEF PointInv

(* No step but a sum changes what it relies on, but for its beginning.     *)
LEMMA BandwidthStep == IInv /\ IInv' /\ SeriesTypes /\ BandwidthInv /\ [Next]_vars => BandwidthInv'
<1> SUFFICES ASSUME IInv, IInv', SeriesTypes, BandwidthInv, [Next]_vars, call' = "memory" PROVE BandwidthInv'
  BY DEF BandwidthInv
<1>1. call = "memory" /\ trace' = trace
  BY DEF Next, vars, StartRank, SumRow, NextGroup, FinishSum, MeasureBlocked, Return,
         LaunchEvent, FinishLaunches
<1>2. \A r \in DOMAIN series : \A i \in DOMAIN series[r] : PointInv(r, i)
  BY <1>1 DEF BandwidthInv
<1>3. ~LaunchEvent /\ ~FinishLaunches /\ ~MeasureBlocked
  BY <1>1 DEF LaunchEvent, FinishLaunches, MeasureBlocked, IInv
<1>4. CASE SumRow
  <2>1. SumNearExpected' /\ \A i \in DOMAIN series'[rank] : PointInv(rank, i)'
    BY <1>1, <1>4, SumRowPoints
  <2>2. /\ DOMAIN series' = DOMAIN series \cup {rank} /\ rank' = rank /\ pc' = "sum"
        /\ \A r \in DOMAIN series : r # rank => series'[r] = series[r]
    BY <1>4, SumRowEffect DEF SumRow
  <2>3. ASSUME NEW r \in DOMAIN series', r # rank, NEW i \in DOMAIN series'[r] PROVE PointInv(r, i)'
    <3>1. r \in DOMAIN series /\ series'[r] = series[r] /\ Unsummed(r)' = Unsummed(r)
      BY <2>2, <2>3 DEF Unsummed
    <3> QED
      BY <1>1, <1>2, <2>3, <3>1, PointKept
  <2> QED
    BY <2>1, <2>2, <2>3 DEF BandwidthInv
<1>5. CASE ~SumRow
  <2>1. ASSUME NEW r \in DOMAIN series', NEW i \in DOMAIN series'[r] PROVE PointInv(r, i)'
    <3>1. r \in DOMAIN series /\ series'[r] = series[r]
      BY <1>5, OtherSteps
    <3>2. Unsummed(r)' = Unsummed(r)
      <4>1. CASE StartRank
        <5>1. left = {} /\ r # rank'
          BY <2>1, <4>1 DEF StartRank, IInv
        <5> QED
          BY <5>1 DEF Unsummed
      <4>2. CASE ~StartRank
        <5>1. UNCHANGED <<left, rank>>
          BY <1>3, <1>5, <4>2 DEF Next, vars, sumVars, NextGroup, FinishSum, Return
        <5> QED
          BY <5>1 DEF Unsummed
      <4> QED
        BY <4>1, <4>2
    <3> QED
      BY <1>1, <1>2, <2>1, <3>1, <3>2, PointKept
  <2>2. pc' # "sum" => left' = {}
    <3>1. CASE StartRank
      BY <1>1, <3>1 DEF StartRank
    <3>2. CASE NextGroup
      BY <3>2 DEF NextGroup
    <3>3. CASE FinishSum \/ Return \/ UNCHANGED vars
      BY <1>1, <3>3 DEF FinishSum, Return, vars, sumVars, BandwidthInv
    <3> QED
      BY <1>3, <1>5, <3>1, <3>2, <3>3 DEF Next
  <2>3. ASSUME pc' = "sum" PROVE SumNearExpected'
    <3>1. CASE StartRank
      <4>1. Changes' = left' /\ running' = 0 /\ rank' \notin DOMAIN series'
        BY <3>1 DEF StartRank, Changes, RowsOf
      <4>2. Expected' = 0
        BY <1>1, <4>1, ExpectedAtStart
      <4>3. PointsOf(rank)' = << >>
        BY <4>1 DEF PointsOf
      <4>4. Terms(PointsOf(rank)', group', Len(PointsOf(rank)')) = 0
        BY <4>3, FS_EmptySet DEF Terms
      <4> QED
        BY <4>1, <4>2, <4>4, ResidueAssumption DEF SumNearExpected
    <3>2. CASE NextGroup
      <4>1. /\ SumInv /\ running' = 0 /\ UNCHANGED <<left, series, rank>> /\ Changes' = Changes
            /\ (\E s \in left : s.group = group') /\ (\A s \in left : s.group # group)
            /\ Changes = BandwidthChanges(trace[rank]) /\ Unsummed(rank) = left
        BY <1>1, <3>2 DEF NextGroup, IInv, Changes, RowsOf, Unsummed
      <4>2. \A r \in Changes \ left : r.group # group'
        BY <4>1 DEF SumInv
      <4>3. Expected' = 0
        BY <1>1, <4>1, <4>2, ExpectedAtStart
      <4>4. PointsOf(rank)' = PointsOf(rank)
        BY <4>1 DEF PointsOf
      <4>5. \A j \in DOMAIN PointsOf(rank) : PointsOf(rank)[j].group # group'
        <5> SUFFICES ASSUME NEW j \in DOMAIN PointsOf(rank) PROVE PointsOf(rank)[j].group # group'
          OBVIOUS
        <5>1. rank \in DOMAIN series /\ PointsOf(rank) = series[rank] /\ j \in DOMAIN series[rank]
          BY DEF PointsOf
        <5>2. PICK q \in BandwidthChanges(trace[rank]) \ left : SameMoment(series[rank][j], q)
          BY <1>2, <4>1, <5>1 DEF PointInv
        <5> QED
          BY <4>1, <4>2, <5>1, <5>2 DEF SameMoment
      <4>6. DOMAIN PointsOf(rank) = 1 .. Len(PointsOf(rank))
        <5>1. << >> \in Seq({}) /\ (rank \in DOMAIN series => series[rank] \in Seq(Range(series[rank])))
          BY DEF SeriesTypes
        <5> QED
          BY <5>1 DEF PointsOf
      <4>7. {j \in 1 .. Len(PointsOf(rank)) : PointsOf(rank)[j].group = group'} = {}
        BY <4>5, <4>6
      <4>8. Terms(PointsOf(rank)', group', Len(PointsOf(rank)')) = 0
        BY <4>4, <4>7, FS_EmptySet DEF Terms
      <4> QED
        BY <4>1, <4>3, <4>8, ResidueAssumption DEF SumNearExpected
    <3>3. CASE UNCHANGED vars
      <4>1. SumNearExpected
        BY <1>1, <2>3, <3>3 DEF BandwidthInv, vars
      <4>2. Expected' = Expected /\ PointsOf(rank)' = PointsOf(rank) /\ running' = running /\ group' = group
        BY <3>3 DEF vars, sumVars, Expected, Active, Owed, BandwidthOf, PointsOf
      <4> QED
        BY <4>1, <4>2 DEF SumNearExpected
    <3>4. ~FinishSum /\ ~Return
      BY <2>3 DEF FinishSum, Return
    <3> QED
      BY <1>3, <1>5, <3>1, <3>2, <3>3, <3>4 DEF Next
  <2> QED
    BY <2>1, <2>2, <2>3 DEF BandwidthInv
<1> QED
  BY <1>4, <1>5

(* A bandwidth series follows the clock for every trace, the durations -1  *)
(* and the rounding of the sums included (trace_counters.py:291-318).      *)
THEOREM AlwaysBandwidthByClock == Spec => []BandwidthByClock
<1>1. Init => BandwidthInv
  BY DEF Init, BandwidthInv
<1>2. BandwidthInv => BandwidthByClock
  <2> SUFFICES ASSUME BandwidthInv, call = "memory", NEW r \in DOMAIN series, NEW i \in DOMAIN series[r]
               PROVE  /\ AboveBackward(r, i)
                      /\ LastOfMoment(r, i) /\ ~(r = rank /\ pc = "sum") => ByClock(r, i)
    BY DEF BandwidthByClock, AboveBackward, ByClock, ExpectedAt
  <2>1. PointInv(r, i) /\ (pc # "sum" => left = {})
    BY DEF BandwidthInv
  <2>2. ~(r = rank /\ pc = "sum") => Unsummed(r) = {}
    BY <2>1 DEF Unsummed
  <2> QED
    BY <2>1, <2>2 DEF PointInv, Settled
<1> QED
  BY <1>1, <1>2, BandwidthStep, Inductive, AlwaysSeriesTypes, PTL DEF Spec

-----------------------------------------------------------------------------
(* The time a queue was full                                               *)

(* The rows of a rank that have a point in its series. *)
Summed(r) == QueueChanges(trace[r]) \ Unsummed(r)

(* From a point of a stream to its next the queue is as long as the point  *)
(* says.                                                                   *)
Exact(r, i) ==
  \A t \in Int :
    /\ series[r][i].ts <= t
    /\ \A j \in DOMAIN series[r] : i < j /\ series[r][j].group = series[r][i].group => t < series[r][j].ts
    /\ \A q \in Unsummed(r) : q.group = series[r][i].group => t < q.ts
    => series[r][i].value = Cardinality(InQueue(trace[r], series[r][i].group, t))

SeriesOf(r) ==
  /\ \A i \in DOMAIN series[r] : \E q \in Summed(r) : SameMoment(series[r][i], q)
  /\ \A q \in Summed(r) : \E i \in DOMAIN series[r] : SameMoment(series[r][i], q)
  /\ \A i, j \in DOMAIN series[r] :
       i < j /\ series[r][i].group = series[r][j].group => series[r][i].ts <= series[r][j].ts
  /\ \A i \in DOMAIN series[r] : Exact(r, i)

SeriesInv ==
  call = "queue" =>
    /\ \A r \in DOMAIN series : SeriesOf(r)
    /\ \A r \in Ranks \ DOMAIN series : (r = rank /\ pc = "sum") \/ r \notin Range(todo) => Summed(r) = {}

(* At a moment between the rows that were summed and those that were not,  *)
(* the kernels that wait are those in the queue.                           *)
LEMMA WaitingAtMoment ==
  ASSUME IInv, SumRow, call = "queue", NEW q \in left, q.group = group, Earliest(left, q),
         left' = left \ {q}, NEW t \in Int, q.ts <= t, \A s \in left' : s.group = group => t < s.ts
  PROVE  Waiting' = InQueue(trace[rank], group, t)
<1>1. /\ SumInv /\ rank \in Ranks /\ UNCHANGED <<trace, rank, group, call>>
      /\ Changes = QueueChanges(trace[rank])
  BY QueueRows DEF SumRow, IInv
<1>2. \A r \in Changes : r.ts \in Int
  BY <1>1, PairsOfRank
<1>3. ASSUME NEW r \in Changes, r.group = group PROVE r \in left' <=> t < r.ts
  <2>1. CASE r \in left'
    BY <1>3, <2>1
  <2>2. CASE r = q
    BY <1>2, <2>2
  <2>3. CASE r \notin left
    <3>1. r.ts <= q.ts
      BY <1>1, <1>3, <2>3 DEF SumInv
    <3> QED
      BY <1>1, <1>2, <2>3, <3>1 DEF SumInv
  <2> QED
    BY <2>1, <2>2, <2>3
<1>4. ASSUME NEW k \in Started(trace[rank]), k.stream = group
      PROVE  Change(k, k, -1) \in left' <=> t < k.ts
  BY <1>1, <1>3, <1>4, ChangeFields DEF QueueChanges, Decrements
<1>5. ASSUME NEW k \in Started(trace[rank]), k.stream = group, NEW c \in RuntimeCalls(trace[rank]),
             c.correlation = k.correlation
      PROVE  Change(k, c, 1) \notin left' <=> c.ts <= t
  <2>1. Change(k, c, 1) \in Changes
    BY <1>1, <1>5, StartedChanges
  <2>2. Change(k, c, 1).group = group /\ Change(k, c, 1).ts = c.ts
    BY <1>5, ChangeFields
  <2>3. Change(k, c, 1) \in left' <=> t < c.ts
    BY <1>3, <2>1, <2>2
  <2>4. c.ts \in Int
    BY <1>2, <2>1, <2>2
  <2> QED
    BY <2>3, <2>4
<1> QED
  BY <1>1, <1>4, <1>5 DEF Waiting, InQueue

(* The value of the point that is added. *)
LEMMA NewPointIsExact ==
  ASSUME IInv, SumRow, call = "queue", LengthCounts', group # None, NEW q \in left, q.group = group,
         Earliest(left, q), left' = left \ {q}, NEW t \in Int, q.ts <= t,
         \A s \in left' : s.group = group => t < s.ts
  PROVE  running' = Cardinality(InQueue(trace[rank], group, t))
<1>1. Waiting' = InQueue(trace[rank], group, t)
  BY WaitingAtMoment
<1>2. rank \in Ranks /\ UNCHANGED <<trace, rank, group, call>>
  BY DEF SumRow, IInv
<1>3. running' = Cardinality({k.index : k \in Waiting'})
  BY <1>2 DEF LengthCounts, Outstanding, QueueLengthNow
<1>4. Waiting' \subseteq trace[rank] /\ IsFiniteSet(trace[rank])
      /\ \A j, k \in trace[rank] : j.index = k.index => j = k
  BY <1>1, <1>2, PairsOfRank DEF Paired, InQueue, Started, GpuKernels
<1>5. IsFiniteSet(Waiting')
  BY <1>4, FS_Subset
<1> DEFINE W == Waiting'
           index == [k \in W |-> k.index]
<1>6. IsFiniteSet(W) /\ \A j, k \in W : index[j] = index[k] => j = k
  BY <1>4, <1>5
<1>7. {k.index : k \in W} = {index[k] : k \in W}
  OBVIOUS
<1> HIDE DEF W, index
<1>8. Cardinality({index[k] : k \in W}) = Cardinality(W)
  BY <1>6, Image
<1> QED
  BY <1>1, <1>3, <1>7, <1>8 DEF W

LEMMA SumRowSeries ==
  ASSUME IInv, SeriesTypes, SeriesInv, SumRow, call = "queue", LengthCounts'
  PROVE  SeriesOf(rank)'
<1>1. PICK q \in left :
         /\ group # None /\ q.group = group /\ Earliest(left, q) /\ q \in Changes
         /\ left' = left \ {q}
         /\ DOMAIN series' = DOMAIN series \cup {rank}
         /\ \A r \in DOMAIN series : r # rank => series'[r] = series[r]
         /\ PointsOf(rank) \in Seq(Range(PointsOf(rank)))
         /\ series'[rank] = Append(PointsOf(rank), [group |-> group, index |-> q.index, ts |-> q.ts,
                                                    value |-> running'])
  BY SumRowEffect
<1>2. /\ SumInv /\ rank \in Ranks /\ UNCHANGED <<trace, rank, group, call>>
      /\ Changes = QueueChanges(trace[rank])
  BY QueueRows DEF SumRow, IInv
<1>3. \A r \in Changes : r.ts \in Int
  BY <1>2, PairsOfRank
<1> DEFINE old == PointsOf(rank)
           new == series'[rank]
           n == Len(old) + 1
<1>4. /\ Len(old) \in Nat /\ DOMAIN old = 1 .. Len(old) /\ DOMAIN new = 1 .. n
      /\ \A i \in DOMAIN old : new[i] = old[i]
      /\ new[n] = [group |-> group, index |-> q.index, ts |-> q.ts, value |-> running']
  BY <1>1, Appended
<1>5. new[n].group = group /\ new[n].ts = q.ts /\ new[n].value = running'
  BY <1>4
<1>6. /\ \A i \in DOMAIN old : \E r \in Summed(rank) : SameMoment(old[i], r)
      /\ \A r \in Summed(rank) : \E i \in DOMAIN old : SameMoment(old[i], r)
      /\ \A i, j \in DOMAIN old : i < j /\ old[i].group = old[j].group => old[i].ts <= old[j].ts
      /\ rank \in DOMAIN series => \A i \in DOMAIN old : Exact(rank, i)
      /\ rank \in DOMAIN series => old = series[rank]
      /\ rank \notin DOMAIN series => DOMAIN old = {}
  <2>1. CASE rank \in DOMAIN series
    BY <2>1 DEF SeriesInv, SeriesOf, PointsOf
  <2>2. CASE rank \notin DOMAIN series
    <3>1. Summed(rank) = {}
      BY <1>2, <2>2 DEF SeriesInv, SumRow
    <3>2. DOMAIN old = {}
      BY <2>2 DEF PointsOf
    <3> QED
      BY <2>2, <3>1, <3>2
  <2> QED
    BY <2>1, <2>2
<1>7. /\ Summed(rank) = Changes \ left /\ Summed(rank)' = Changes \ left'
      /\ Unsummed(rank) = left /\ Unsummed(rank)' = left'
  BY <1>2 DEF Summed, Unsummed
<1> HIDE DEF old, new, n
<1>8. SameMoment(new[n], q) /\ q \in Summed(rank)' /\ n \in DOMAIN new
  <2>1. SameMoment(new[n], q)
    BY <1>1, <1>5 DEF SameMoment
  <2>2. n \in DOMAIN new
    BY <1>4 DEF n
  <2> QED
    BY <1>1, <1>7, <2>1, <2>2
<1>9. \A i \in DOMAIN new : i = n \/ (i \in DOMAIN old /\ new[i] = old[i])
  BY <1>4 DEF n
<1>10. \A i \in DOMAIN old : i \in DOMAIN new /\ i # n /\ i < n
  BY <1>4 DEF n
<1>11. \A i \in DOMAIN new : \E r \in Summed(rank)' : SameMoment(new[i], r)
  BY <1>1, <1>6, <1>7, <1>8, <1>9
<1>12. \A r \in Summed(rank)' : \E i \in DOMAIN new : SameMoment(new[i], r)
  BY <1>1, <1>6, <1>7, <1>8, <1>9, <1>10
<1>13. ASSUME NEW i \in DOMAIN new, NEW j \in DOMAIN new, i < j, new[i].group = new[j].group
       PROVE  new[i].ts <= new[j].ts
  <2>1. i \in DOMAIN old /\ new[i] = old[i]
    BY <1>4, <1>9, <1>13 DEF n
  <2>2. CASE j \in DOMAIN old
    BY <1>6, <1>9, <1>10, <1>13, <2>1, <2>2
  <2>3. CASE j = n
    <3>1. PICK r \in Changes \ left : SameMoment(old[i], r)
      BY <1>6, <1>7, <2>1
    <3>2. r.group = q.group
      BY <1>1, <1>5, <1>13, <2>1, <2>3, <3>1 DEF SameMoment
    <3>3. r.ts <= q.ts
      BY <1>2, <3>1, <3>2 DEF SumInv
    <3> QED
      BY <1>5, <2>1, <2>3, <3>1, <3>3 DEF SameMoment
  <2> QED
    BY <1>9, <2>2, <2>3
<1>14. ASSUME NEW i \in DOMAIN new, NEW t \in Int, new[i].ts <= t,
              \A j \in DOMAIN new : i < j /\ new[j].group = new[i].group => t < new[j].ts,
              \A r \in left' : r.group = new[i].group => t < r.ts
       PROVE  new[i].value = Cardinality(InQueue(trace[rank], new[i].group, t))
  <2>1. CASE i = n
    BY <1>1, <1>2, <1>5, <1>14, <2>1, NewPointIsExact
  <2>2. CASE i \in DOMAIN old
    <3>1. new[i] = old[i] /\ i < n
      BY <1>9, <1>10, <2>2
    <3>2. rank \in DOMAIN series /\ Exact(rank, i) /\ old = series[rank]
      BY <1>6, <2>2
    <3>3. ASSUME NEW r \in left, r.group = new[i].group PROVE t < r.ts
      <4>1. CASE r = q
        BY <1>1, <1>5, <1>8, <1>14, <3>1, <3>3, <4>1
      <4> QED
        BY <1>1, <1>14, <3>3, <4>1
    <3>4. \A j \in DOMAIN old : i < j /\ old[j].group = old[i].group => t < old[j].ts
      BY <1>9, <1>10, <1>14, <3>1
    <3> QED
      BY <1>7, <1>14, <3>1, <3>2, <3>3, <3>4 DEF Exact
  <2> QED
    BY <1>9, <2>1, <2>2
<1>15. \A i \in DOMAIN new : Exact(rank, i)'
  BY <1>2, <1>7, <1>14 DEF Exact, new
<1> QED
  BY <1>2, <1>11, <1>12, <1>13, <1>15 DEF SeriesOf, new

(* A series stays as it is while the rows of its rank do. *)
LEMMA SeriesKept ==
  ASSUME NEW r \in DOMAIN series, SeriesOf(r), series'[r] = series[r],
         trace' = trace, Unsummed(r)' = Unsummed(r)
  PROVE  SeriesOf(r)'
<1>1. Summed(r)' = Summed(r)
  BY DEF Summed
<1>2. \A i \in DOMAIN series[r] : Exact(r, i)'
  BY DEF SeriesOf, Exact
<1> QED
  BY <1>1, <1>2 DEF SeriesOf

LEMMA SeriesStep ==
  IInv /\ SeriesTypes /\ SeriesInv /\ LengthCounts' /\ [Next]_vars => SeriesInv'
<1> SUFFICES ASSUME IInv, SeriesTypes, SeriesInv, LengthCounts', [Next]_vars, call' = "queue" PROVE SeriesInv'
  BY DEF SeriesInv
<1>1. call = "queue" /\ trace' = trace
  BY DEF Next, vars, StartRank, SumRow, NextGroup, FinishSum, MeasureBlocked, Return,
         LaunchEvent, FinishLaunches
<1>2. CASE SumRow
  <2>1. SeriesOf(rank)'
    BY <1>1, <1>2, SumRowSeries
  <2>2. /\ DOMAIN series' = DOMAIN series \cup {rank} /\ rank' = rank /\ todo' = todo
        /\ \A r \in DOMAIN series : r # rank => series'[r] = series[r]
    BY <1>2, SumRowEffect DEF SumRow
  <2>3. ASSUME NEW r, r # rank PROVE Unsummed(r) = {} /\ Unsummed(r)' = {} /\ Summed(r)' = Summed(r)
    BY <1>1, <2>2, <2>3 DEF Unsummed, Summed
  <2>4. ASSUME NEW r \in DOMAIN series', r # rank PROVE SeriesOf(r)'
    BY <1>1, <2>2, <2>3, <2>4, SeriesKept DEF SeriesInv
  <2>5. \A r \in Ranks \ DOMAIN series' : (r = rank' /\ pc' = "sum") \/ r \notin Range(todo') => Summed(r)' = {}
    BY <1>1, <1>2, <2>2, <2>3 DEF SeriesInv, SumRow
  <2> QED
    BY <2>1, <2>2, <2>4, <2>5 DEF SeriesInv
<1>3. CASE StartRank
  <2> PICK h : h = Head(todo)
    OBVIOUS
  <2>1. /\ rank' = h /\ todo' = Tail(todo) /\ todo # << >> /\ todo \in Seq(Ranks)
        /\ left' = QueueChanges(trace[h]) /\ left = {}
        /\ DOMAIN series' = DOMAIN series \ {h} /\ \A r \in DOMAIN series' : series'[r] = series[r]
    BY <1>1, <1>3 DEF StartRank, RowsOf, IInv
  <2>2. Summed(h)' = {}
    <3>1. Unsummed(h)' = QueueChanges(trace[h])
      BY <1>1, <2>1 DEF Unsummed
    <3>2. Summed(h)' = QueueChanges(trace'[h]) \ Unsummed(h)'
      BY DEF Summed
    <3> QED
      BY <1>1, <3>1, <3>2
  <2>3. ASSUME NEW r, r # h PROVE Unsummed(r) = {} /\ Unsummed(r)' = {} /\ Summed(r)' = Summed(r)
    BY <1>1, <2>1, <2>3 DEF Unsummed, Summed
  <2>4. ASSUME NEW r \in Range(todo), r # h PROVE r \in Range(todo')
    <3>1. PICK i \in 1 .. Len(todo) : todo[i] = r
      BY <2>1, <2>4 DEF Range
    <3>2. i # 1 /\ i - 1 \in 1 .. Len(todo')
      BY <2>1, <2>4, <3>1
    <3>3. todo'[i - 1] = r /\ i - 1 \in DOMAIN todo'
      BY <2>1, <3>1, <3>2
    <3> QED
      BY <3>3 DEF Range
  <2>5. ASSUME NEW r \in DOMAIN series' PROVE SeriesOf(r)'
    BY <1>1, <2>1, <2>3, <2>5, SeriesKept DEF SeriesInv
  <2>6. ASSUME NEW r \in Ranks \ DOMAIN series', r = rank' \/ r \notin Range(todo')
        PROVE  Summed(r)' = {}
    BY <1>1, <2>1, <2>2, <2>3, <2>4, <2>6 DEF SeriesInv
  <2> QED
    BY <2>1, <2>5, <2>6 DEF SeriesInv
<1>4. CASE ~SumRow /\ ~StartRank
  <2>1. UNCHANGED <<todo, series, left, rank>> /\ (pc' = "sum" => pc = "sum")
    <3>1. ~LaunchEvent /\ ~FinishLaunches
      BY <1>1 DEF LaunchEvent, FinishLaunches, IInv
    <3> QED
      BY <1>4, <3>1 DEF Next, vars, sumVars, NextGroup, FinishSum, MeasureBlocked, Return
  <2>2. \A r : Unsummed(r)' = Unsummed(r) /\ Summed(r)' = Summed(r)
    BY <1>1, <2>1 DEF Unsummed, Summed
  <2>3. ASSUME NEW r \in DOMAIN series' PROVE SeriesOf(r)'
    BY <1>1, <2>1, <2>2, <2>3, SeriesKept DEF SeriesInv
  <2> QED
    BY <1>1, <2>1, <2>2, <2>3 DEF SeriesInv
<1> QED
  BY <1>2, <1>3, <1>4

LEMMA AlwaysSeriesInv == Spec => []SeriesInv
<1>1. Init => SeriesInv
  <2> SUFFICES ASSUME Init PROVE SeriesInv
    OBVIOUS
  <2>1. DOMAIN series = {} /\ pc # "sum" /\ todo = Asked
    BY DEF Init
  <2>2. \A r \in Ranks : r \in Range(todo)
    BY <2>1 DEF Ranks
  <2> QED
    BY <2>1, <2>2 DEF SeriesInv
<1> QED
  BY <1>1, SeriesStep, QueueLengthCounts, Inductive, AlwaysSeriesTypes, PTL DEF Spec

-----------------------------------------------------------------------------
(* What a finished series says of the time a queue was full *)

LEMMA RowsOfRank ==
  ASSUME IInv, NEW r \in Ranks
  PROVE  /\ IsFiniteSet(trace[r])
         /\ \A q \in QueueChanges(trace[r]) : /\ q.ts \in Int /\ q.group \in Int
                                              /\ \E e \in trace[r] : q.ts = e.ts
         /\ IsFiniteSet({q.ts : q \in QueueChanges(trace[r])})
<1>1. /\ IsFiniteSet(trace[r])
      /\ \A e \in trace[r] : e.ts \in Int /\ e.stream \in Int
  BY TracesAssumption DEF IInv
<1>2. ASSUME NEW q \in QueueChanges(trace[r])
      PROVE  q.ts \in Int /\ q.group \in Int /\ \E e \in trace[r] : q.ts = e.ts
  <2>1. CASE \E c \in RuntimeCalls(trace[r]) : \E k \in Enqueued(trace[r], c) : q = Change(k, c, 1)
    BY <1>1, <2>1, ChangeFields DEF RuntimeCalls, Enqueued, GpuKernels
  <2>2. CASE \E k \in Started(trace[r]) : q = Change(k, k, -1)
    BY <1>1, <2>2, ChangeFields DEF Started, GpuKernels
  <2> QED
    BY <1>2, <2>1, <2>2, ChangeCases
<1>3. IsFiniteSet({q.ts : q \in QueueChanges(trace[r])})
  <2> DEFINE time == [e \in trace[r] |-> e.ts]
  <2>1. {q.ts : q \in QueueChanges(trace[r])} \in SUBSET {time[e] : e \in trace[r]}
    BY <1>2
  <2> HIDE DEF time
  <2>2. IsFiniteSet({time[e] : e \in trace[r]})
    BY <1>1, Image
  <2> QED
    BY <2>1, <2>2, FS_Subset
<1> QED
  BY <1>1, <1>2, <1>3

(* The points of a stream, and those at which its queue is full until the  *)
(* next.                                                                   *)
FullPoints(r, s) ==
  {j \in StreamPoints(r, s) : j # Max(StreamPoints(r, s)) /\ series[r][j].value >= MaxQueueLength}

(* From one point of a stream to the next. *)
Span(r, s) ==
  [i \in FullPoints(r, s) |-> series[r][i].ts .. (series[r][After(StreamPoints(r, s), i)].ts - 1)]

LEMMA NextPoint ==
  ASSUME IInv, SeriesTypes, NEW r \in DOMAIN series, SeriesOf(r), NEW s, NEW i \in FullPoints(r, s)
  PROVE  /\ IsFiniteSet(StreamPoints(r, s)) /\ StreamPoints(r, s) \subseteq Nat
         /\ After(StreamPoints(r, s), i) \in StreamPoints(r, s) /\ i < After(StreamPoints(r, s), i)
         /\ \A j \in StreamPoints(r, s) : i < j =>
              /\ After(StreamPoints(r, s), i) <= j
              /\ series[r][After(StreamPoints(r, s), i)].ts <= series[r][j].ts
         /\ series[r][i].ts <= series[r][After(StreamPoints(r, s), i)].ts
         /\ \A j \in StreamPoints(r, s) : series[r][j].ts \in Int
<1> DEFINE rows == StreamPoints(r, s)
           later == {j \in rows : i < j}
<1>1. DOMAIN series[r] = 1 .. Len(series[r]) /\ Len(series[r]) \in Nat
      /\ \A j \in DOMAIN series[r] : series[r][j].ts \in Int
  BY DEF SeriesTypes
<1>2. rows \in SUBSET (1 .. Len(series[r])) /\ i \in rows /\ i # Max(rows)
      /\ \A j \in rows : j \in DOMAIN series[r] /\ series[r][j].group = s
  BY <1>1 DEF StreamPoints, FullPoints
<1>3. IsFiniteSet(1 .. Len(series[r]))
  BY <1>1, Positions
<1>4. IsFiniteSet(rows) /\ rows \subseteq Nat /\ \A j \in rows : j \in Int
  BY <1>2, <1>3, FS_Subset
<1> HIDE DEF rows
<1>5. Max(rows) \in rows /\ i <= Max(rows)
  <2>1. rows # {} /\ rows \subseteq Int
    BY <1>2, <1>4
  <2>2. Max(rows) \in rows /\ \A j \in rows : j <= Max(rows)
    BY <1>4, <2>1, Greatest
  <2> QED
    BY <1>2, <2>2
<1>6. Max(rows) \in later /\ later \in SUBSET rows
  <2>1. i \in Int /\ Max(rows) \in Int
    <3>1. i \in rows /\ Max(rows) \in rows
      BY <1>2, <1>5
    <3> QED
      BY <3>1, <1>4, Zenon
  <2>2. i < Max(rows)
    BY <1>2, <1>5, <2>1
  <2> QED
    BY <1>5, <2>2
<1>7. IsFiniteSet(later) /\ later \subseteq Int
  <2>1. IsFiniteSet(later)
    BY <1>4, <1>6, FS_Subset
  <2>2. later \subseteq rows
    BY <1>6
  <2>3. \A j \in later : j \in Int
    BY <1>4, <2>2
  <2> QED
    BY <2>1, <2>3
<1>8. Min(later) \in later /\ \A j \in later : Min(later) <= j
  <2> HIDE DEF later
  <2> QED
    BY <1>6, <1>7, LeastInteger
<1>9. After(rows, i) = Min(later)
  BY DEF After
<1>10. /\ After(rows, i) \in rows /\ i < After(rows, i)
       /\ \A j \in rows : i < j => After(rows, i) <= j
  BY <1>8, <1>9
<1>11. \A j, k \in rows : j < k => series[r][j].ts <= series[r][k].ts
  BY <1>2 DEF SeriesOf
<1>12. ASSUME NEW j \in rows, i < j PROVE series[r][After(rows, i)].ts <= series[r][j].ts
  <2>1. After(rows, i) = j \/ After(rows, i) < j
    <3>1. After(rows, i) \in Int /\ j \in Int /\ After(rows, i) <= j
      <4>1. After(rows, i) \in rows /\ j \in rows /\ After(rows, i) <= j
        BY <1>10, <1>12
      <4>2. After(rows, i) \in Int /\ j \in Int
        BY <1>4, <4>1, Zenon
      <4> QED
        BY <4>1, <4>2
    <3> QED
      BY <3>1
  <2>2. After(rows, i) \in rows /\ series[r][j].ts \in Int
    BY <1>1, <1>2, <1>10, <1>12
  <2>3. CASE After(rows, i) = j
    BY <2>2, <2>3
  <2>4. CASE After(rows, i) < j
    BY <1>11, <1>12, <2>2, <2>4
  <2> QED
    BY <2>1, <2>3, <2>4
<1> QED
  BY <1>1, <1>2, <1>4, <1>10, <1>11, <1>12 DEF rows

(* The moments a queue was full are those in the spans of its points.      *)
LEMMA FullMoments ==
  ASSUME IInv, SeriesTypes, NEW r \in DOMAIN series, SeriesOf(r), Unsummed(r) = {}, NEW s, NEW t \in Int
  PROVE  Cardinality(InQueue(trace[r], s, t)) >= MaxQueueLength
           <=> \E i \in FullPoints(r, s) : t \in Span(r, s)[i]
<1> DEFINE rows == StreamPoints(r, s)
<1>1. /\ DOMAIN series[r] = 1 .. Len(series[r]) /\ Len(series[r]) \in Nat /\ r \in Ranks
      /\ \A j \in DOMAIN series[r] : series[r][j].ts \in Int
  BY DEF SeriesTypes
<1>2. /\ rows \in SUBSET (1 .. Len(series[r]))
      /\ \A j : j \in rows <=> j \in DOMAIN series[r] /\ series[r][j].group = s
  BY <1>1 DEF StreamPoints
<1>3. \A j, k \in rows : j < k => series[r][j].ts <= series[r][k].ts
  BY <1>2 DEF SeriesOf
<1>4. ASSUME NEW i \in rows, series[r][i].ts <= t, \A j \in rows : i < j => t < series[r][j].ts
      PROVE  series[r][i].value = Cardinality(InQueue(trace[r], s, t))
  BY <1>2, <1>4 DEF SeriesOf, Exact
<1>5. ASSUME NEW i \in FullPoints(r, s), t \in Span(r, s)[i]
      PROVE  Cardinality(InQueue(trace[r], s, t)) >= MaxQueueLength
  <2>1. /\ series[r][i].ts <= t /\ t < series[r][After(rows, i)].ts
        /\ i \in rows /\ series[r][i].value >= MaxQueueLength
    BY <1>1, <1>2, <1>5, NextPoint DEF Span, FullPoints
  <2>2. \A j \in rows : i < j => t < series[r][j].ts
    BY <1>1, <1>2, <2>1, NextPoint
  <2> QED
    BY <1>4, <2>1, <2>2
<1>6. ASSUME Cardinality(InQueue(trace[r], s, t)) >= MaxQueueLength
      PROVE  \E i \in FullPoints(r, s) : t \in Span(r, s)[i]
  <2>1. InQueue(trace[r], s, t) # {}
    BY <1>6, FS_EmptySet, MaxQueueLengthAssumption
  <2>2. PICK k \in Started(trace[r]), c \in RuntimeCalls(trace[r]) :
          k.stream = s /\ t < k.ts /\ c.correlation = k.correlation /\ c.ts <= t
    BY <2>1 DEF InQueue
  <2>3. Change(k, c, 1) \in Summed(r) /\ Change(k, k, -1) \in Summed(r)
    BY <2>2, StartedChanges DEF Summed
  <2>4. PICK a \in DOMAIN series[r], z \in DOMAIN series[r] :
          SameMoment(series[r][a], Change(k, c, 1)) /\ SameMoment(series[r][z], Change(k, k, -1))
    BY <2>3 DEF SeriesOf
  <2>5. a \in rows /\ z \in rows /\ series[r][a].ts <= t /\ t < series[r][z].ts
    BY <1>2, <2>2, <2>4, ChangeFields DEF SameMoment
  <2> DEFINE until == {j \in rows : series[r][j].ts <= t}
             i == Max(until)
  <2>6. IsFiniteSet(until) /\ until \subseteq Int /\ a \in until
    <3>1. until \in SUBSET (1 .. Len(series[r]))
      BY <1>2
    <3>2. IsFiniteSet(1 .. Len(series[r]))
      BY <1>1, Positions
    <3>3. IsFiniteSet(until)
      BY <3>1, <3>2, FS_Subset
    <3> QED
      BY <2>5, <3>1, <3>3
  <2>7. i \in until /\ \A j \in until : j <= i
    <3> HIDE DEF until
    <3> QED
      BY <2>6, Greatest
  <2>8. i \in rows /\ series[r][i].ts <= t
    BY <2>7
  <2>9. \A j \in rows : i < j => t < series[r][j].ts
    <3>1. ASSUME NEW j \in rows, i < j, ~(t < series[r][j].ts) PROVE FALSE
      <4>1. series[r][j].ts \in Int /\ j \in Int /\ i \in Int
        BY <1>1, <1>2, <2>8
      <4>2. j \in until
        BY <3>1, <4>1
      <4>3. j <= i
        BY <2>7, <4>2
      <4> QED
        BY <3>1, <4>1, <4>3
    <3> QED
      BY <3>1
  <2> HIDE DEF until, i
  <2>10. series[r][i].value >= MaxQueueLength
    BY <1>4, <1>6, <2>8, <2>9
  <2>11. i < z
    BY <1>1, <1>2, <1>3, <2>5, <2>8
  <2>12. i # Max(rows)
    <3>1. IsFiniteSet(rows) /\ rows \subseteq Int
      <4>1. IsFiniteSet(1 .. Len(series[r]))
        BY <1>1, Positions
      <4> QED
        BY <1>2, <4>1, FS_Subset
    <3>2. z <= Max(rows)
      <4> HIDE DEF rows
      <4> QED
        BY <2>5, <3>1, Greatest
    <3> QED
      BY <1>2, <2>5, <2>8, <2>11, <3>2
  <2>13. i \in FullPoints(r, s)
    BY <2>8, <2>10, <2>12 DEF FullPoints
  <2>14. After(rows, i) \in rows /\ i < After(rows, i)
    BY <2>13, NextPoint
  <2>15. t \in Span(r, s)[i]
    BY <1>1, <1>2, <2>8, <2>9, <2>13, <2>14 DEF Span
  <2> QED
    BY <2>13, <2>15
<1> QED
  BY <1>5, <1>6

(* The time reported for a stream is the size of its spans together, and   *)
(* the moments in them are those its queue was full.                       *)
LEMMA BlockedTimeIsExact ==
  ASSUME IInv, SeriesTypes, NEW r \in DOMAIN series, SeriesOf(r), Unsummed(r) = {}, NEW s
  PROVE  /\ BlockedTime(series[r], StreamPoints(r, s)) = FullTime(trace[r], s)
         /\ BlockedTime(series[r], StreamPoints(r, s)) \in Nat
         /\ FullPoints(r, s) = {} => FullTime(trace[r], s) = 0
<1> DEFINE rows == StreamPoints(r, s)
           full == FullPoints(r, s)
           span == Span(r, s)
           times == {q.ts : q \in QueueChanges(trace[r])}
           moments == {t \in Min(times) .. Max(times) :
                         Cardinality(InQueue(trace[r], s, t)) >= MaxQueueLength}
           dur == [i \in full |-> series[r][After(rows, i)].ts - series[r][i].ts]
           size == [i \in full |-> Cardinality(span[i])]
<1>1. /\ r \in Ranks /\ full \subseteq rows /\ rows \subseteq DOMAIN series[r]
      /\ DOMAIN series[r] = 1 .. Len(series[r]) /\ Len(series[r]) \in Nat
  BY DEF SeriesTypes, StreamPoints, FullPoints
<1>2. IsFiniteSet(full)
  <2>1. full \in SUBSET (1 .. Len(series[r]))
    BY <1>1
  <2>2. IsFiniteSet(1 .. Len(series[r]))
    BY <1>1, Positions
  <2> QED
    BY <2>1, <2>2, FS_Subset
<1>3. /\ \A i \in full : After(rows, i) \in rows /\ series[r][i].ts <= series[r][After(rows, i)].ts
      /\ \A i \in rows : series[r][i].ts \in Int
  <2>1. \A i \in rows : series[r][i].ts \in Int
    BY <1>1 DEF SeriesTypes
  <2> QED
    BY <2>1, NextPoint
<1>4. \A i \in full : /\ span[i] = series[r][i].ts .. (series[r][After(rows, i)].ts - 1)
                      /\ series[r][i].ts \in Int /\ series[r][After(rows, i)].ts \in Int
  BY <1>1, <1>3 DEF Span
<1>5. \A i \in full : /\ IsFiniteSet(span[i]) /\ Cardinality(span[i]) \in Nat
                      /\ size[i] = dur[i] /\ size[i] \in Int
  <2> TAKE i \in full
  <2>1. PICK a \in Int, z \in Int : a = series[r][i].ts /\ z = series[r][After(rows, i)].ts /\ a <= z
    BY <1>3, <1>4
  <2>2. span[i] = a .. (z - 1)
    BY <1>4, <2>1
  <2>3. IsFiniteSet(a .. (z - 1)) /\ Cardinality(a .. (z - 1)) = z - a
    BY <2>1, FS_Interval
  <2> QED
    BY <2>1, <2>2, <2>3
<1>6. \A i, j \in full : i # j => span[i] \cap span[j] = {}
  <2>1. ASSUME NEW i \in full, NEW j \in full, i < j, NEW t \in span[i], t \in span[j] PROVE FALSE
    <3>1. series[r][After(rows, i)].ts <= series[r][j].ts
      BY <1>1, <2>1, NextPoint
    <3>2. t \in Int /\ t < series[r][After(rows, i)].ts /\ series[r][j].ts <= t
      BY <1>4, <2>1
    <3> QED
      BY <1>4, <3>1, <3>2
  <2>2. \A i, j \in full : i # j => i < j \/ j < i
    BY <1>1
  <2> QED
    BY <2>1, <2>2
<1>7. /\ BlockedTime(series[r], rows) = SumFunctionOnSet(dur, full)
  BY DEF BlockedTime, SumFunction, FullPoints
<1>8. SumFunctionOnSet(dur, full) = SumFunctionOnSet(size, full)
  <2> HIDE DEF dur, size, full
  <2> QED
    BY <1>2, <1>5, SumEqual
<1>9. /\ IsFiniteSet(UNION {span[i] : i \in full})
      /\ Cardinality(UNION {span[i] : i \in full}) = SumFunctionOnSet(size, full)
  <2> HIDE DEF full, span
  <2> QED
    BY <1>2, <1>5, <1>6, SizeOfParts
<1>10. IsFiniteSet(times) /\ times \subseteq Int
  <2>1. IsFiniteSet(times)
    BY <1>1, RowsOfRank
  <2>2. times \subseteq Int
    BY <1>1, RowsOfRank
  <2> QED
    BY <2>1, <2>2
<1>11. times # {} => /\ Min(times) \in Int /\ Max(times) \in Int
                     /\ \A t \in times : Min(times) <= t /\ t <= Max(times)
  <2> HIDE DEF times
  <2> QED
    BY <1>10, Greatest, LeastInteger
<1>12. \A i \in rows : series[r][i].ts \in times
  BY DEF SeriesOf, Summed, SameMoment, StreamPoints
<1>13. times # {} => moments = UNION {span[i] : i \in full}
  <2> SUFFICES ASSUME times # {} PROVE moments = UNION {span[i] : i \in full}
    OBVIOUS
  <2>1. ASSUME NEW t \in moments PROVE t \in UNION {span[i] : i \in full}
    <3>1. t \in Int /\ Cardinality(InQueue(trace[r], s, t)) >= MaxQueueLength
      BY <1>11
    <3>2. \E i \in full : t \in span[i]
      BY <3>1, FullMoments
    <3> QED
      BY <3>2
  <2>2. ASSUME NEW i \in full, NEW t \in span[i] PROVE t \in moments
    <3>1. t \in Int /\ series[r][i].ts <= t /\ t < series[r][After(rows, i)].ts
      BY <1>4
    <3>2. series[r][i].ts \in times /\ series[r][After(rows, i)].ts \in times
      BY <1>1, <1>3, <1>12
    <3>3. t \in Min(times) .. Max(times)
      <4>1. /\ Min(times) \in Int /\ Max(times) \in Int /\ Min(times) <= series[r][i].ts
            /\ series[r][After(rows, i)].ts <= Max(times)
        BY <1>11, <3>2
      <4>2. series[r][i].ts \in Int /\ series[r][After(rows, i)].ts \in Int
        BY <1>4
      <4> QED
        BY <3>1, <4>1, <4>2
    <3>4. Cardinality(InQueue(trace[r], s, t)) >= MaxQueueLength
      BY <3>1, FullMoments
    <3> QED
      BY <3>3, <3>4
  <2> QED
    BY <2>1, <2>2
<1>14. times = {} => full = {}
  BY <1>1, <1>12
<1>15. SumFunctionOnSet(size, {}) = 0
  BY FS_EmptySet, SumRecursion
<1>16. FullTime(trace[r], s) = IF times = {} THEN 0 ELSE Cardinality(moments)
  BY DEF FullTime
<1>17. BlockedTime(series[r], rows) = FullTime(trace[r], s)
  BY <1>7, <1>8, <1>9, <1>13, <1>14, <1>15, <1>16
<1>18. BlockedTime(series[r], rows) \in Nat
  BY <1>7, <1>8, <1>9, FS_CardinalityType
<1>19. full = {} => FullTime(trace[r], s) = 0
  BY <1>7, <1>8, <1>15, <1>17
<1> QED
  BY <1>17, <1>18, <1>19

(* The stream that is reported is one with a full queue. *)
LEMMA ReportedStream ==
  ASSUME IInv, SeriesTypes, NEW r \in DOMAIN series, SeriesOf(r), FullStreams(r) # {}
  PROVE  Max(FullStreams(r)) \in Streams(r)
<1>1. /\ DOMAIN series[r] = 1 .. Len(series[r]) /\ Len(series[r]) \in Nat /\ r \in Ranks
  BY DEF SeriesTypes
<1> DEFINE stream == [i \in DOMAIN series[r] |-> series[r][i].group]
<1>2. IsFiniteSet(DOMAIN series[r])
  BY <1>1, Positions
<1>3. Streams(r) = {stream[i] : i \in DOMAIN series[r]}
  BY DEF Streams, Range
<1>4. \A i \in DOMAIN series[r] : series[r][i].group \in Int
  BY <1>1, RowsOfRank DEF SeriesOf, Summed, SameMoment
<1>5. Streams(r) \subseteq Int /\ FullStreams(r) \in SUBSET Streams(r)
  BY <1>3, <1>4 DEF FullStreams
<1> HIDE DEF stream
<1>6. IsFiniteSet(Streams(r))
  BY <1>2, <1>3, Image
<1>7. IsFiniteSet(FullStreams(r))
  BY <1>5, <1>6, FS_Subset
<1>8. FullStreams(r) \subseteq Int
  BY <1>5
<1>9. Max(FullStreams(r)) \in FullStreams(r)
  BY <1>7, <1>8, Greatest
<1> QED
  BY <1>5, <1>9

BlockedTypes ==
  /\ DOMAIN blocked \subseteq DOMAIN series
  /\ \A r \in DOMAIN blocked : blocked[r].stream \in Streams(r) /\ blocked[r].dur \in Nat

LEMMA MeasureIsExact ==
  ASSUME IInv, SeriesTypes, SeriesInv, MeasureBlocked
  PROVE  BlockedTypes' /\ BlockedIsExact'
<1>1. /\ todo = << >> /\ call = "queue" /\ left = {}
      /\ UNCHANGED <<trace, series, call>>
      /\ blocked' = [r \in {q \in DOMAIN series : FullStreams(q) # {}} |->
                       [stream |-> Max(FullStreams(r)),
                        dur |-> BlockedTime(series[r], StreamPoints(r, Max(FullStreams(r))))]]
  BY DEF MeasureBlocked, IInv
<1>2. \A r : Unsummed(r) = {}
  BY <1>1 DEF Unsummed
<1>3. \A r \in DOMAIN series : SeriesOf(r)
  BY <1>1 DEF SeriesInv
<1>4. \A r \in Ranks \ DOMAIN series : QueueChanges(trace[r]) = {}
  BY <1>1, <1>2 DEF SeriesInv, Summed, Range
<1>5. DOMAIN series \subseteq Ranks
  BY DEF SeriesTypes
<1>6. /\ DOMAIN blocked' = {q \in DOMAIN series : FullStreams(q) # {}}
      /\ \A r \in DOMAIN blocked' :
           /\ blocked'[r].stream = Max(FullStreams(r))
           /\ blocked'[r].dur = BlockedTime(series[r], StreamPoints(r, Max(FullStreams(r))))
  BY <1>1
<1>7. \A r \in DOMAIN blocked' :
        /\ blocked'[r].dur = FullTime(trace[r], blocked'[r].stream)
        /\ blocked'[r].dur \in Nat /\ blocked'[r].stream \in Streams(r)
  BY <1>2, <1>3, <1>6, BlockedTimeIsExact, ReportedStream
<1>8. ASSUME NEW r \in Ranks \ DOMAIN blocked', NEW k \in Started(trace[r])
      PROVE  FullTime(trace[r], k.stream) = 0
  <2>1. CASE r \in DOMAIN series
    <3>1. FullStreams(r) = {}
      BY <1>6, <1>8, <2>1
    <3>2. FullPoints(r, k.stream) = {}
      BY <3>1 DEF FullPoints, FullStreams, Streams, StreamPoints, Range
    <3> QED
      BY <1>2, <1>3, <2>1, <3>2, BlockedTimeIsExact
  <2>2. CASE r \notin DOMAIN series
    <3>1. QueueChanges(trace[r]) = {}
      BY <1>4, <1>8, <2>2
    <3> QED
      BY <3>1 DEF FullTime
  <2> QED
    BY <2>1, <2>2
<1>9. \A r \in DOMAIN series : Streams(r)' = Streams(r)
  BY <1>1 DEF Streams
<1> QED
  BY <1>1, <1>6, <1>7, <1>8, <1>9 DEF BlockedTypes, BlockedIsExact

BlockedInv == BlockedTypes /\ BlockedIsExact

LEMMA BlockedStep == IInv /\ SeriesTypes /\ SeriesInv /\ BlockedInv /\ [Next]_vars => BlockedInv'
<1> SUFFICES ASSUME IInv, SeriesTypes, SeriesInv, BlockedInv, [Next]_vars PROVE BlockedInv'
  OBVIOUS
<1>1. CASE MeasureBlocked
  BY <1>1, MeasureIsExact DEF BlockedInv
<1>2. CASE UNCHANGED vars
  BY <1>2 DEF vars, BlockedInv, BlockedTypes, BlockedIsExact, Streams
<1>3. CASE ~MeasureBlocked /\ ~UNCHANGED vars
  <2>1. pc # "returned" /\ blocked' = blocked /\ (pc' = "returned" => call' # "queue")
    BY <1>3 DEF Next, StartRank, SumRow, NextGroup, FinishSum, Return, LaunchEvent, FinishLaunches
  <2>2. DOMAIN blocked = {}
    BY <2>1 DEF SeriesTypes
  <2> QED
    BY <2>1, <2>2 DEF BlockedInv, BlockedTypes, BlockedIsExact
<1> QED
  BY <1>1, <1>2, <1>3

LEMMA AlwaysBlockedInv == Spec => []BlockedInv
<1>1. Init => BlockedInv
  BY DEF Init, BlockedInv, BlockedTypes, BlockedIsExact
<1> QED
  BY <1>1, BlockedStep, Inductive, AlwaysSeriesTypes, AlwaysSeriesInv, PTL DEF Spec

(* The time that get_time_spent_blocked_on_full_queue reports for a rank   *)
(* is the time the queue of the stream was full (trace_counters.py:222).   *)
THEOREM AlwaysBlockedIsExact == Spec => []BlockedIsExact
<1>1. BlockedInv => BlockedIsExact
  BY DEF BlockedInv
<1> QED
  BY <1>1, AlwaysBlockedInv, PTL

ControlOK == pc \in {"rank", "sum", "launch", "returned", "raised"}

(* The variables have their types; no time that a queue was full is        *)
(* negative (trace_counters.py:222-243).                                   *)
THEOREM TypeCorrect == Spec => []TypeOK
<1>1. IInv /\ SeriesTypes /\ BlockedInv /\ ControlOK => TypeOK
  BY DEF IInv, SeriesTypes, BlockedInv, BlockedTypes, ControlOK, TypeOK, Range
<1>2. Init => ControlOK
  BY DEF Init, ControlOK
<1>3. ControlOK /\ [Next]_vars => ControlOK'
  BY DEF Next, vars, StartRank, SumRow, NextGroup, FinishSum, MeasureBlocked, Return,
         LaunchEvent, FinishLaunches, ControlOK
<1> QED
  BY <1>1, <1>2, <1>3, Inductive, AlwaysSeriesTypes, AlwaysBlockedInv, PTL DEF Spec
=============================================================================
