------------------------------ MODULE MCTrace -------------------------------
(* Small instances of Trace for TLC: four files that differ in their       *)
(* profiler steps, two of them on a clock of their own.                    *)
EXTENDS Trace, TLC

E(index, ts, dur, stream, correlation, name, cat) ==
  [index |-> index, ts |-> ts, dur |-> dur, stream |-> stream,
   correlation |-> correlation, name |-> name, cat |-> cat]

Op(index, ts) == E(index, ts, 2, -1, -1, "op", "cpu_op")
Step(index, ts, name) == E(index, ts, 4, -1, -1, name, "user_annotation")
Launch(index, ts, correlation) == E(index, ts, 1, -1, correlation, "launch", "cuda_runtime")
Kernel(index, ts, correlation) == E(index, ts, 3, 7, correlation, "kernel", "kernel")
Sync(index, ts, correlation) ==
  E(index, ts, 1, -1, correlation, "Context Sync", "cuda_sync")

(* Two steps; the kernel of the first runs in the second, a kernel without *)
(* a launch, and a launch of two kernels after the last step.              *)
TwoSteps(t) ==
  [symbols |-> <<"op", "Step1", "launch", "kernel", "Step2">>,
   events |-> {Op(0, t), Step(1, t, "Step1"), Launch(2, t + 2, 5), Kernel(3, t + 5, 5),
               Step(4, t + 4, "Step2"), Kernel(5, t + 1, 4), Launch(6, t + 9, 8),
               Kernel(7, t + 10, 8), Kernel(8, t + 14, 8)}]
OneStep(t) ==
  [symbols |-> <<"Context Sync", "kernel", "launch", "Step1">>,
   events |-> {Step(0, t, "Step1"), Launch(1, t + 1, 5), Kernel(2, t + 2, 5),
               E(3, t + 3, 2, -1, 7, "launch", "cuda_runtime"), Sync(4, t + 3, 7)}]
NoStep(t) ==
  [symbols |-> <<"launch", "op", "kernel">>,
   events |-> {Op(0, t), Launch(1, t, 5), Kernel(2, t + 2, 5)}]
NoEvents == [symbols |-> << >>, events |-> {}]

MCFiles == {TwoSteps(4), OneStep(6), NoStep(3), NoEvents}

LoadOnly == [calls |-> {"load"}, mp |-> BOOLEAN, unreadable |-> Ranks]
AnyCall == [calls |-> {"parse", "single", "align", "load"}, mp |-> BOOLEAN, unreadable |-> {}]
MCSessions == {LoadOnly, AnyCall}

MCStepNumber == [n \in {"Step1", "Step2"} |-> IF n = "Step1" THEN 1 ELSE 2]
MCSyncNames == {"Event Sync", "Context Sync"}
=============================================================================
