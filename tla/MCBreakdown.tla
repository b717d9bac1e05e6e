----------------------------- MODULE MCBreakdown -----------------------------
(* Small instances of Breakdown for TLC. *)
EXTENDS Breakdown, TLC

Row(index, ts, dur, on, cat, type, link) ==
  [index |-> index, ts |-> ts, dur |-> dur, stream |-> on, cat |-> cat,
   kernel_type |-> type, index_correlation |-> link]

Kernel(index, ts, dur, type) == Row(index, ts, dur, index, "kernel", type, -1)

(* Three kernels of any types that overlap, touch, nest and have no        *)
(* duration, and a call of the host.                                       *)
Spans == {<<t, d>> \in (0 .. 3) \X (0 .. 3) : t + d <= 4}
Types3 == {<<"computation", "communication", "memory">>, <<"computation", "computation", "communication">>,
           <<"computation", "communication", "communication">>, <<"computation", "computation", "computation">>}
MCKernels ==
  {{Row(0, 0, 9, -1, "cuda_runtime", "other", -1), Kernel(1, x[1], x[2], n[1]),
    Kernel(2, y[1], y[2], n[2]), Kernel(3, z[1], z[2], n[3])} : x, y, z \in Spans, n \in Types3}

(* A long kernel with others in it, and a row of no known type. *)
MCLong ==
  {{Kernel(1, 0, 5, n), Kernel(2, 1, 1, "memory"), Kernel(3, t, 1, "communication"), Kernel(4, t, d, "other")} :
     n \in {"computation", "memory"}, t \in 2 .. 5, d \in 0 .. 2}

(* Three kernels of a stream, one of another, their launches and a         *)
(* synchronization; the launch of the third may be missing.                *)
MCStream ==
  {{Row(0, 0, 1, -1, "cuda_runtime", "other", 5), Row(1, a, 1, -1, "cuda_runtime", "other", 6),
    Row(2, b, 1, -1, "cuda_runtime", "other", 7),
    Row(5, 1, d, 7, "kernel", "computation", 0), Row(6, x, 1, 7, "gpu_memcpy", "memory", 1),
    Row(7, y, 1, 7, "kernel", "computation", link), Row(8, 3, 2, 9, "gpu_memset", "memory", -1),
    Row(9, 2, 3, 7, "cuda_sync", "other", -1)} :
     a \in {1, 3}, b \in {2, 4, 6}, d \in 0 .. 2, x \in 2 .. 4, y \in 4 .. 7, link \in {0, 2}}

(* No row, and a synchronization only, on the device. *)
MCHost == {{Row(0, 0, 1, -1, "cuda_runtime", "other", -1)},
           {Row(0, 0, 1, -1, "cuda_runtime", "other", 1), Row(1, 1, 1, 7, "cuda_sync", "other", 0)}}

MCTraces == MCKernels \cup MCLong \cup MCStream \cup MCHost
MCPoints == 0 .. 9

(* A kernel of less than a microsecond: 4.2 is rounded up, 4.7 down.       *)
MCRounded == {{Kernel(1, 0, 3, "computation"), Kernel(2, 5, -1, "memory")}}
=============================================================================
