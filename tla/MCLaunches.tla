----------------------------- MODULE MCLaunches -----------------------------
(* Small instances of Launches for TLC. *)
EXTENDS Launches, TLC

Row(index, ts, dur, stream, tid, name, correlation, link) ==
  [index |-> index, ts |-> ts, dur |-> dur, stream |-> stream, tid |-> tid, name |-> name,
   correlation |-> correlation, index_correlation |-> link, bandwidth |-> 0]

(* Call n, at ts, and its kernel, at start. *)
Pair(n, ts, start, stream, tid) ==
  {Row(2 * n, ts, 1, -1, tid, "launch", n, 2 * n + 1),
   Row(2 * n + 1, start, 1, stream, 0, "kernel", n, 2 * n)}

(* A kernel that no launch in the data frame enqueued. *)
Stray == Row(30, 1, 1, 7, 0, "kernel", 30, 0)

(* Three calls from two threads on two streams, in any order and with any  *)
(* ties; kernels start up to three later than they are launched.           *)
Waits == {<<ts, start>> \in (0 .. 2) \X (1 .. 3) : ts < start}
MCQueues ==
  {Pair(1, w[1], w[2], 7, 10) \cup Pair(2, x[1], x[2], 7, 11) \cup Pair(3, y[1], y[2], s, 10) \cup {Stray} :
     w, x, y \in Waits, s \in {7, 9}}

(* Two copies of one kind at all times, of all durations from -1, and one  *)
(* of another kind; three that hold each other, and three in a row.        *)
Copy(index, ts, dur, name) ==
  [Row(index, ts, dur, 7, 0, name, -1, 0) EXCEPT !.bandwidth = 10 * index]
MCCopies ==
  {{Copy(1, t, d, "DtoH"), Copy(2, u, e, "DtoH"), Copy(3, u, e, "Memset")} :
     t, u \in 0 .. 2, d, e \in -1 .. 2}
  \cup {{Copy(1, 0, d, "DtoH"), Copy(2, 1, e, "DtoH"), Copy(3, t, 1, "DtoH")} :
     t \in 1 .. 2, d \in {1, 3}, e \in {-1, 0, 2}}

(* An operator around the launches and one in it, another thread, and a    *)
(* launch whose kernel is not in the data frame.                           *)
Aten(index, ts, dur, tid) == Row(index, ts, dur, -1, tid, "aten", -1, -1)
MCOperators ==
  {Pair(1, 2, 4, 7, 10) \cup Pair(2, 3, 5, 7, 10) \cup {Aten(40, 1, 4, 10), o} :
     o \in {Aten(41, t, d, tid) : t \in 1 .. 3, d \in 1 .. 2, tid \in {10, 11}}}
  \cup {{Aten(40, 0, 4, 10), Row(2, 1, 1, -1, 10, "launch", 2, 0)},
        {Row(2, 1, 1, -1, 10, "launch", 2, 0)}}

MCAsked == <<0, 1>>

Small == Pair(1, 1, 2, 9, 10) \cup {Copy(5, 1, 0, "DtoH"), Aten(40, 0, 3, 10)}
Beside(frames) == {[r \in {0, 1} |-> IF r = 0 THEN rows ELSE Small] : rows \in frames}

(* Two streams that are full, one after the other. *)
MCTwoFull == {Pair(1, 0, 2, 7, 10) \cup Pair(2, 1, 3, 7, 10) \cup Pair(3, 4, 6, 9, 10) \cup Pair(4, 5, 7, 9, 10)}

(* A copy of less than a microsecond: 4.2 is rounded up, 4.7 down. *)
MCRounded == Beside({{Copy(1, 5, -1, "DtoH"), Copy(2, 6, 2, "DtoH")}})

MCTraces == Beside(MCQueues \cup MCCopies \cup MCOperators \cup MCTwoFull)
MCOneOperator == {t \in Beside(MCOperators) : \E e \in t[0] : e.index = 41 /\ e.ts = 1}
=============================================================================
