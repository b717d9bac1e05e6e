---------------------------- MODULE MCCallGraph -----------------------------
(* Small instances of CallGraph for TLC. *)
EXTENDS CallGraph, TLC

E(index, ts, dur, pid, tid, name) ==
  [index |-> index, ts |-> ts, dur |-> dur, end |-> ts + dur, stream |-> -1,
   index_correlation |-> 0, pid |-> pid, tid |-> tid, name |-> name]
Op(index, ts, dur) == E(index, ts, dur, 1, 10, "op")
Kernel(index, ts, launch) ==
  [index |-> index, ts |-> ts, dur |-> 2, end |-> ts + 2, stream |-> 7,
   index_correlation |-> launch, pid |-> 0, tid |-> 7, name |-> "kernel"]

(* Two events overlap only if one encloses the other. *)
Nested(d, e) ==
  \/ d.ts + d.dur <= e.ts \/ e.ts + e.dur <= d.ts
  \/ d.ts <= e.ts /\ e.ts + e.dur <= d.ts + d.dur
  \/ e.ts <= d.ts /\ d.ts + d.dur <= e.ts + e.dur

(* No event without duration lies where one event ends and another starts. *)
Apart(rows) ==
  ~ \E z, d, e \in rows : /\ z.dur = 0 /\ d.dur > 0 /\ e.dur > 0
                          /\ d.ts + d.dur = z.ts /\ e.ts = z.ts

WellNested(rows) == (\A d, e \in rows : Nested(d, e)) /\ Apart(rows)

Spans == {s \in (0 .. 3) \X (0 .. 3) : s[1] + s[2] <= 3}
ThreeOps == {{Op(0, s[1], s[2]), Op(1, t[1], t[2]), Op(2, u[1], u[2])} : s, t, u \in Spans}

(* The other rank has a single event, with an index of the first rank. *)
Beside(rows) == [r \in Ranks |-> IF r = 0 THEN rows ELSE {E(1, 2, 1, 2, 11, "op"), Kernel(5, 2, 1)}]

(* One thread with any nesting of three events, two kernels. *)
MCNestings ==
  {Beside(rows \cup {Kernel(5, 4, 1), Kernel(6, 3, 2)}) : rows \in {s \in ThreeOps : WellNested(s)}}

(* Two steps, a backward annotation in each or in none, and two events of  *)
(* the backward thread, the last of which is in the last annotation.       *)
Backward(index, s, name) == E(index, s[1], s[2], 1, 20, name)
Annotated == {E(2, 1, 3, 1, 10, "## backward ##"), E(3, 6, 3, 1, 10, "## backward ##")}
MainThread(annotated) ==
  {E(0, 0, 5, 1, 10, "ProfilerStep#"), E(1, 5, 5, 1, 10, "ProfilerStep#")}
    \cup (IF annotated THEN Annotated ELSE {})
MCSteps ==
  {Beside(MainThread(annotated) \cup {Backward(4, s, "autograd::"), Backward(5, <<7, 2>>, name),
                                      Kernel(7, 8, 4), Kernel(8, 9, 5)})
     : annotated \in BOOLEAN, s \in {<<0, 1>>, <<1, 2>>, <<2, 2>>, <<4, 3>>, <<7, 1>>},
       name \in {"autograd::", "op"}}

(* One step, which the whole backward thread or its last event is in.      *)
MCOneStep ==
  {Beside({E(0, 3, 5, 1, 10, "ProfilerStep#"), Backward(4, s, "autograd::"),
           Backward(5, <<6, 2>>, "op"), Kernel(7, 8, 4), Kernel(8, 9, 5)}) :
     s \in {<<1, 2>>, <<4, 1>>}}

MCTraces == MCNestings \cup MCSteps \cup MCOneStep

(* The last annotation holds no event of the backward thread. *)
MCLastStepEmpty ==
  {Beside(MainThread(FALSE) \cup {Backward(4, <<1, 2>>, "autograd::"), Backward(5, <<2, 1>>, "op")})}

(* Three events that touch. *)
MCTouching == {Beside({Op(0, 0, 1), Op(1, 1, 1), Op(2, 1, 0)})}
=============================================================================
