--------------------------- MODULE MCCriticalPath ---------------------------
(* Small instances of CriticalPath for TLC. *)
EXTENDS CriticalPath, TLC

Row(index, ts, dur, stream, tid, name, cat, link) ==
  [index |-> index, ts |-> ts, dur |-> dur, stream |-> stream, pid |-> IF stream = -1 THEN 1 ELSE 0,
   tid |-> tid, name |-> name, cat |-> cat, correlation |-> -1, index_correlation |-> link,
   record |-> -1, wait_on_stream |-> -1]

Host(index, ts, dur, tid, name, cat) == Row(index, ts, dur, -1, tid, name, cat, -1)
Call(index, ts, dur, tid, name) == Host(index, ts, dur, tid, name, "cuda_runtime")

(* A call, its kernel, and the correlation of both. *)
Pair(n, ts, dur, tid, name, start, length, stream) ==
  {[Call(n, ts, dur, tid, name) EXCEPT !.correlation = n, !.index_correlation = n + 1],
   [Row(n + 1, start, length, stream, stream, "kernel", "kernel", n) EXCEPT !.correlation = n]}

Step(index, ts, dur) == Host(index, ts, dur, 9, "step", "user_annotation")

(* Three calls that take the lock, on two threads or three, with any       *)
(* overlap of different threads; calls of one thread may touch, in file    *)
(* order.                                                                  *)
Spans3 == {<<t, d>> \in (0 .. 2) \X (1 .. 3) : t + d <= 4}
MCLocks ==
  {Pair(10, x[1], x[2], 1, "launch", 5, 1, 7)
     \cup {Call(20, y[1], y[2], 2, "alloc"), Call(30, z[1], z[2], tid, "launch"), Step(1, 0, 5)} :
     x, y, z \in Spans3, tid \in {1, 3}}
InOrderOnThread(rows) ==
  \A e, d \in {c \in rows : c.cat = "cuda_runtime"} :
     e # d /\ e.tid = d.tid /\ e.index < d.index => e.ts + e.dur <= d.ts
MCLockTraces == {rows \in MCLocks : InOrderOnThread(rows)}

(* An operator with two events in it, one of them in the other or after    *)
(* it, and an operator after it on its thread or on the backward thread.   *)
Inner == {<<"aten", "cpu_op">>, <<"launch", "cuda_runtime">>, <<"copy", "cuda_runtime">>,
          <<"device sync", "cuda_runtime">>, <<"note", "user_annotation">>}
Places == {<<2, 1, 3, 1>>, <<1, 1, 3, 1>>, <<1, 2, 3, 1>>, <<1, 3, 2, 1>>, <<1, 3, 1, 3>>, <<1, 3, 1, 2>>, <<2, 2, 3, 1>>}
MCNested ==
  {Pair(10, 6, 1, 1, "launch", 8, 1, 7)
     \cup {Host(2, 0, 5, 1, "forward", "cpu_op"), Host(3, p[1], p[2], 1, x[1], x[2]),
           Host(4, p[3], p[4], 1, y[1], y[2]), Host(5, 7, 2, tid, "autograd", "cpu_op"), Step(1, 0, 10)} :
     x, y \in Inner, p \in Places, tid \in {1, 2}}

(* Two streams: the second waits for the first, a third kernel is launched *)
(* by either thread on either of them, and a thread synchronizes.          *)
Later(a, b) == IF a < b THEN b ELSE a
Synchronized(a, d, gap, tid, s, kind, waits) ==
  LET end1 == a + d
      start2 == Later(IF waits THEN end1 ELSE 4, 4) + gap
      end2 == start2 + 2
      start3 == Later(5, IF s = 7 THEN end1 ELSE end2) + gap
      end3 == start3 + 1
      until == CASE kind = "Event Sync" -> Later(6, end1)
                 [] kind = "Context Sync" -> Later(end2, end3)
                 [] OTHER -> IF s = 7 THEN end3 ELSE Later(end2, 6)
      stream == IF kind = "Stream Sync" THEN s ELSE -1
  IN Pair(10, 0, 1, 1, "launch", a, d, 7) \cup Pair(20, 3, 1, 1, "copy", start2, 2, 9)
     \cup Pair(30, 4, 1, tid, "launch", start3, 1, s)
     \cup {[Call(40, 1, 1, 1, "cudaEventRecord") EXCEPT !.correlation = 40],
           Step(1, 0, until + 2), Host(60, until + 1, 2, 1, "aten", "cpu_op"),
           [Call(50, 5, until - 5, 1, "device sync") EXCEPT !.index_correlation = 51],
           [Row(51, 5, until - 5, stream, 99, kind, "cuda_sync", 50) EXCEPT !.record = 40, !.wait_on_stream = 7]}
     \cup IF ~waits THEN {}
          ELSE {[Call(41, 2, 1, 1, "cudaStreamWaitEvent") EXCEPT !.index_correlation = 42],
                [Row(42, 2, 1, 9, 98, "Stream Wait Event", "cuda_sync", 41)
                   EXCEPT !.record = 40, !.wait_on_stream = 7]}
MCStreams ==
  {Synchronized(a, d, gap, tid, s, kind, waits) :
     a \in 1 .. 3, d \in {1, 3}, gap \in {0, 1, 3}, tid \in {1, 2}, s \in {7, 9},
     kind \in {"Event Sync", "Stream Sync", "Context Sync"}, waits \in BOOLEAN}

(* Two steps, a kernel of the first that runs in the second, no step.      *)
MCSteps ==
  {Pair(10, 1, 1, 1, "launch", t, 2, 7) \cup Pair(20, 5, 1, 1, "launch", 8, 1, 7)
     \cup {Step(1, 0, 3), Step(2, 4, 4), Host(3, 4, 3, 1, "load", "user_annotation")} : t \in 2 .. 6}
  \cup {Pair(10, 1, 1, 1, "launch", 3, 2, 7), {Step(1, 0, 3), Host(3, 1, 1, 1, "aten", "cpu_op")}}

(* A wait whose call is not in the trace, alone or beside a linked one; a  *)
(* synchronization of another name.                                        *)
OneWait == Synchronized(1, 1, 0, 1, 7, "Event Sync", TRUE)
Unlinked(r) == [r EXCEPT !.index_correlation = 0]
MCUnlinked ==
  {{IF r.name = "Stream Wait Event" THEN Unlinked(r) ELSE r : r \in OneWait},
   OneWait \cup {[Unlinked(r) EXCEPT !.index = 44] : r \in {r \in OneWait : r.index = 42}},
   Synchronized(1, 1, 0, 1, 7, "Device Sync", TRUE)}

MCTraces == MCUnlinked \cup MCLockTraces \cup MCNested \cup MCStreams \cup MCSteps
MCAsked == {[first |-> 0, last |-> 1], [first |-> 1, last |-> 1]}
MCFirst == {[first |-> 0, last |-> 0]}
MCOptions == {[launch_edges |-> x, strict |-> x] : x \in BOOLEAN}
MCPlain == [launch_edges : {FALSE}, strict : {FALSE}]
=============================================================================
