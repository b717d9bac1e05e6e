----------------------------- MODULE MCFilters ------------------------------
(* Small instances of Filters for TLC: two iterations with operators that  *)
(* launch kernels, one iteration with a device synchronization that        *)
(* outlasts its step, with and without an annotation of the device, and a  *)
(* file without steps.                                                     *)
EXTENDS Filters

E(index, ts, dur, stream, correlation, name, cat) ==
  [index |-> index, ts |-> ts, dur |-> dur, stream |-> stream,
   correlation |-> correlation, name |-> name, cat |-> cat]

Op(index, ts, dur, name) == E(index, ts, dur, -1, -1, name, "cpu_op")
Step(index, ts, dur, name) == E(index, ts, dur, -1, -1, name, "user_annotation")
Launch(index, ts, correlation) == E(index, ts, 1, -1, correlation, "launch", "cuda_runtime")
DriverLaunch(index, ts, correlation) == E(index, ts, 1, -1, correlation, "launch", "cuda_driver")
Kernel(index, ts, correlation) == E(index, ts, 3, 7, correlation, "kernel", "kernel")
Sync(index, ts, correlation) == E(index, ts, 2, -1, correlation, "Context Sync", "cuda_sync")

(* Kernels run after their iteration ended, one that nobody launched too;  *)
(* the second iteration has a second root.                                 *)
TwoSteps(t) ==
  {Step(0, t, 16, "Step1"), Op(1, t + 1, 14, "forward"),
   Op(2, t + 2, 1, "wait"), Op(3, t + 3, 4, "wait"),
   Launch(4, t + 4, 5), Kernel(5, t + 9, 5), Op(6, t + 7, 3, "op"), Launch(7, t + 8, 6),
   Kernel(8, t + 20, 6), Op(9, t + 11, 3, "next"), Launch(10, t + 12, 8), Kernel(11, t + 25, 8),
   Step(12, t + 16, 10, "Step2"), Op(13, t + 17, 6, "forward"), Launch(14, t + 18, 9),
   Kernel(15, t + 30, 9), Kernel(16, t + 12, 4)}
OneStep(t) ==
  {Step(0, t, 10, "Step1"), Op(1, t + 1, 8, "forward"),
   Op(3, t + 2, 2, "wait"), DriverLaunch(4, t + 2, 5), Kernel(5, t + 4, 5), Launch(6, t + 5, 6),
   Kernel(7, t + 8, 6), E(8, t + 6, 2, -1, 7, "sync", "cuda_runtime"), Sync(9, t + 6, 7),
   E(10, t + 9, 3, -1, 8, "sync", "cuda_runtime"), Sync(11, t + 10, 8)}
Annotated(events, t) == events \cup {E(2, t + 3, 9, 7, -1, "forward", "gpu_user_annotation")}
NoStep(t) ==
  {Op(0, t, 9, "forward"), Launch(1, t + 1, 5), Kernel(2, t + 5, 5), Op(3, t + 3, 2, "op"),
   Launch(4, t + 3, 6), Kernel(5, t + 8, 6)}

MCFiles == {TwoSteps(2), OneStep(0), Annotated(OneStep(1), 1), NoStep(3)}

Iterations(s) == [kind |-> "iteration", iterations |-> s]
IterationIndex(s) == [kind |-> "iteration_index", positions |-> s]
Time(from, to) == [kind |-> "time", from |-> from, to |-> to]
Names(s) == [kind |-> "name", names |-> s]
Operator(method, name, position, kernels) ==
  [kind |-> "operator", method |-> method, name |-> name, position |-> position,
   include_gpu_kernels |-> kernels]
Combined(root, preceding, following, kernels) ==
  [kind |-> "combined", root |-> root, preceding |-> preceding, following |-> following,
   include_gpu_kernels |-> kernels]

MCMenu ==
  {Iterations({1}), Iterations({-1, 2}), IterationIndex({0}), IterationIndex({1, 3}),
   Time(5, 14), Names({"launch", "kernel", "wait", "sync", "Context Sync"}), [kind |-> "cpu"], [kind |-> "gpu"],
   Operator("under", "forward", 0, TRUE), Operator("under", "forward", 1, TRUE),
   Operator("after", "wait", -1, TRUE), Operator("before", "next", 0, TRUE),
   Operator("after", "wait", 0, FALSE), Combined("forward", "wait", "next", TRUE),
   Combined("forward", "op", "next", TRUE), Combined("none", "wait", "launch", FALSE)}

MCStepNumber == [n \in {"Step1", "Step2"} |-> IF n = "Step1" THEN 1 ELSE 2]
MCSyncNames == {"Event Sync", "Context Sync"}
=============================================================================
