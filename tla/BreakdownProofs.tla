---------------------------- MODULE BreakdownProofs ----------------------------
(***************************************************************************)
(* The merging of intervals, for every trace whose kernels do not end      *)
(* before they start, every set of breakdowns and every order of the rows  *)
(* of one time stamp.                                                      *)
(***************************************************************************)
EXTENDS Breakdown, SequenceTheorems, SetInduction

(* A sequence of intervals with gaps between them. *)
Intervals == Seq([ts : Int, end : Int])
Covers(intervals, x) == \E i \in DOMAIN intervals : intervals[i].ts <= x /\ x < intervals[i].end
Apart(intervals) == \A i, j \in DOMAIN intervals : i < j => intervals[i].end < intervals[j].ts
Forward(intervals) == \A i \in DOMAIN intervals : intervals[i].ts <= intervals[i].end

(* The intervals w cover what v does, and the time from a to b. *)
CoversAlso(w, v, a, b) ==
  \A x \in Int : Covers(w, x) <=> Covers(v, x) \/ (a <= x /\ x < b)

IsWith(w, v, a, b) ==
  w \in Intervals /\ Apart(w) /\ Forward(w) /\ w # << >> /\ CoversAlso(w, v, a, b)

-----------------------------------------------------------------------------
(* What a row with the start a and the end b does to the intervals. *)

LEMMA Entries ==
  ASSUME NEW v \in Intervals
  PROVE  /\ Len(v) \in Nat /\ DOMAIN v = 1 .. Len(v)
         /\ \A i \in 1 .. Len(v) : v[i].ts \in Int /\ v[i].end \in Int
         /\ v # << >> <=> Len(v) # 0
<1>1. Len(v) \in Nat /\ DOMAIN v = 1 .. Len(v) /\ v \in [1 .. Len(v) -> [ts : Int, end : Int]]
  BY LenProperties DEF Intervals
<1>2. v # << >> <=> Len(v) # 0
  BY EmptySeq DEF Intervals
<1> QED
  BY <1>1, <1>2

(* Every interval ends before the last one does. *)
LEMMA LastEndsLast ==
  ASSUME NEW v \in Intervals, v # << >>, Apart(v), Forward(v), NEW i \in DOMAIN v
  PROVE  v[i].end <= v[Len(v)].end
<1>1. /\ Len(v) \in Nat \ {0} /\ i \in 1 .. Len(v)
      /\ v[i].end \in Int /\ v[Len(v)].ts \in Int /\ v[Len(v)].end \in Int
  BY Entries
<1>2. CASE i = Len(v)
  BY <1>1, <1>2
<1>3. CASE i < Len(v)
  <2>1. v[i].end < v[Len(v)].ts /\ v[Len(v)].ts <= v[Len(v)].end
    BY <1>1, <1>3 DEF Apart, Forward
  <2> QED
    BY <2>1, <1>1
<1> QED
  BY <1>1, <1>2, <1>3

(* A row that starts after all ends becomes an interval of its own. *)
LEMMA Opens ==
  ASSUME NEW v \in Intervals, Apart(v), Forward(v), NEW a \in Int, NEW b \in Int, a <= b,
         v # << >> => v[Len(v)].end < a,
         NEW w, w = Append(v, [ts |-> a, end |-> b])
  PROVE  IsWith(w, v, a, b) /\ w[Len(w)] = [ts |-> a, end |-> b]
<1>1. /\ Len(v) \in Nat /\ DOMAIN v = 1 .. Len(v)
      /\ \A i \in 1 .. Len(v) : v[i].ts \in Int /\ v[i].end \in Int
      /\ v # << >> <=> Len(v) # 0
  BY Entries
<1>2. /\ w \in Intervals /\ Len(w) = Len(v) + 1 /\ DOMAIN w = 1 .. Len(v) + 1
      /\ w[Len(v) + 1] = [ts |-> a, end |-> b]
      /\ \A i \in 1 .. Len(v) : w[i] = v[i]
  <2>1. [ts |-> a, end |-> b] \in [ts : Int, end : Int]
    OBVIOUS
  <2>2. /\ w \in Intervals /\ Len(w) = Len(v) + 1
        /\ w[Len(v) + 1] = [ts |-> a, end |-> b] /\ \A i \in 1 .. Len(v) : w[i] = v[i]
    BY <2>1, AppendProperties DEF Intervals
  <2> QED
    BY <2>2, Entries
<1>3. Apart(w)
  <2> SUFFICES ASSUME NEW i \in 1 .. Len(v) + 1, NEW j \in 1 .. Len(v) + 1, i < j
               PROVE  w[i].end < w[j].ts
    BY <1>2 DEF Apart
  <2>1. i \in 1 .. Len(v) /\ w[i] = v[i] /\ v # << >>
    BY <1>1, <1>2
  <2>2. CASE j = Len(v) + 1
    <3>1. v[i].end <= v[Len(v)].end /\ v[Len(v)].end < a
      BY <2>1, <1>1, LastEndsLast
    <3>2. v[i].end \in Int /\ v[Len(v)].end \in Int
      BY <2>1, <1>1
    <3> QED
      BY <3>1, <3>2, <2>1, <2>2, <1>2
  <2>3. CASE j \in 1 .. Len(v)
    BY <2>1, <2>3, <1>1, <1>2 DEF Apart
  <2> QED
    BY <2>2, <2>3, <1>1
<1>4. Forward(w)
  BY <1>1, <1>2 DEF Forward
<1>5. CoversAlso(w, v, a, b)
  <2> SUFFICES ASSUME NEW x \in Int
               PROVE  Covers(w, x) <=> Covers(v, x) \/ (a <= x /\ x < b)
    BY DEF CoversAlso
  <2>1. ASSUME Covers(w, x) PROVE Covers(v, x) \/ (a <= x /\ x < b)
    BY <2>1, <1>1, <1>2 DEF Covers
  <2>2. ASSUME Covers(v, x) PROVE Covers(w, x)
    BY <2>2, <1>1, <1>2 DEF Covers
  <2>3. ASSUME a <= x, x < b PROVE Covers(w, x)
    <3>1. Len(v) + 1 \in DOMAIN w
      BY <1>1, <1>2
    <3> QED
      BY <2>3, <3>1, <1>2 DEF Covers
  <2> QED
    BY <2>1, <2>2, <2>3
<1>6. w # << >> /\ w[Len(w)] = [ts |-> a, end |-> b]
  BY <1>1, <1>2
<1> QED
  BY <1>2, <1>3, <1>4, <1>5, <1>6 DEF IsWith

(* A row that starts in the last interval or where it ends makes it last   *)
(* until the row ends.                                                     *)
LEMMA Extends ==
  ASSUME NEW v \in Intervals, Apart(v), Forward(v), v # << >>, NEW a \in Int, NEW b \in Int, a <= b,
         v[Len(v)].ts <= a, a <= v[Len(v)].end,
         NEW w, w = [v EXCEPT ![Len(v)].end = Later(@, b)], NEW n, n = Len(v)
  PROVE  /\ IsWith(w, v, a, b) /\ Len(w) = n
         /\ w[n].ts = v[n].ts /\ w[n].end = Later(v[n].end, b)
<1>1. /\ n \in Nat \ {0} /\ DOMAIN v = 1 .. n
      /\ \A i \in 1 .. n : v[i].ts \in Int /\ v[i].end \in Int
      /\ v \in [1 .. n -> [ts : Int, end : Int]]
  BY Entries, LenProperties DEF Intervals
<1>2. Later(v[n].end, b) \in Int /\ v[n].end <= Later(v[n].end, b) /\ b <= Later(v[n].end, b)
  BY <1>1 DEF Later
<1>3. /\ w \in Intervals /\ Len(w) = n /\ DOMAIN w = 1 .. n
      /\ w[n] = [ts |-> v[n].ts, end |-> Later(v[n].end, b)]
      /\ \A i \in 1 .. n : i # n => w[i] = v[i]
  <2>1. w[n] = [v[n] EXCEPT !.end = Later(@, b)] /\ DOMAIN w = 1 .. n
    BY <1>1
  <2>2. w[n] = [ts |-> v[n].ts, end |-> Later(v[n].end, b)]
    BY <2>1, <1>1
  <2>3. \A i \in 1 .. n : i # n => w[i] = v[i]
    BY <1>1
  <2>4. \A i \in 1 .. n : w[i] \in [ts : Int, end : Int]
    BY <2>2, <2>3, <1>1, <1>2
  <2>5. w \in [1 .. n -> [ts : Int, end : Int]]
    BY <2>1, <2>4
  <2>6. w \in Intervals /\ Len(w) = n
    BY <2>5, <1>1 DEF Intervals
  <2> QED
    BY <2>1, <2>2, <2>3, <2>6
<1>4. \A i \in 1 .. n : w[i].ts = v[i].ts
  BY <1>1, <1>3
<1>5. Apart(w)
  <2> SUFFICES ASSUME NEW i \in 1 .. n, NEW j \in 1 .. n, i < j
               PROVE  w[i].end < w[j].ts
    BY <1>3 DEF Apart
  <2>1. i # n /\ w[i] = v[i] /\ w[j].ts = v[j].ts
    BY <1>1, <1>3, <1>4
  <2> QED
    BY <2>1, <1>1 DEF Apart
<1>6. Forward(w)
  BY <1>1, <1>2, <1>3 DEF Forward
<1>7. CoversAlso(w, v, a, b)
  <2> SUFFICES ASSUME NEW x \in Int
               PROVE  Covers(w, x) <=> Covers(v, x) \/ (a <= x /\ x < b)
    BY DEF CoversAlso
  <2>0. n \in DOMAIN w /\ n \in DOMAIN v /\ v[n].ts \in Int /\ v[n].end \in Int
    BY <1>1, <1>3
  <2>1. ASSUME NEW i \in 1 .. n, w[i].ts <= x, x < w[i].end
        PROVE  Covers(v, x) \/ (a <= x /\ x < b)
    <3>1. CASE i # n
      BY <3>1, <2>1, <1>1, <1>3 DEF Covers
    <3>2. CASE i = n /\ x < v[n].end
      BY <3>2, <2>0, <2>1, <1>3 DEF Covers
    <3>3. CASE i = n /\ ~(x < v[n].end)
      BY <3>3, <2>0, <2>1, <1>3 DEF Later
    <3> QED
      BY <3>1, <3>2, <3>3
  <2>2. ASSUME NEW i \in 1 .. n, v[i].ts <= x, x < v[i].end PROVE Covers(w, x)
    <3>1. CASE i # n
      BY <3>1, <2>2, <1>1, <1>3 DEF Covers
    <3>2. CASE i = n
      <4>1. w[n].ts <= x /\ x < w[n].end
        BY <3>2, <2>0, <2>2, <1>2, <1>3
      <4> QED
        BY <4>1, <2>0 DEF Covers
    <3> QED
      BY <3>1, <3>2
  <2>3. ASSUME a <= x, x < b PROVE Covers(w, x)
    <3>1. w[n].ts <= x /\ x < w[n].end
      BY <2>0, <2>3, <1>2, <1>3
    <3> QED
      BY <3>1, <2>0 DEF Covers
  <2> QED
    BY <2>1, <2>2, <2>3, <1>1, <1>3 DEF Covers
<1>8. w # << >>
  BY <1>1, <1>3
<1>9. w[n].ts = v[n].ts /\ w[n].end = Later(v[n].end, b)
  BY <1>3
<1> QED
  BY <1>3, <1>5, <1>6, <1>7, <1>8, <1>9 DEF IsWith

-----------------------------------------------------------------------------
(* The inductive invariant *)

Rows == trace \in Traces /\ request \in Requests

(* Each type is merged once. *)
Todo ==
  /\ todo \in Seq(TypeNames)
  /\ \A i, j \in 1 .. Len(todo) : i # j => todo[i] # todo[j]
  /\ pc = "merge" => todo # << >> /\ left \subseteq FrameOf(trace, Head(todo))

(* The last interval ends with reach, and no row starts before it did. *)
Growing ==
  pc = "merge" =>
    LET v == merged[Head(todo)]
    IN v # << >> => /\ reach = v[Len(v)].end
                    /\ \A r \in left : v[Len(v)].ts <= r.ts

Merged(t) ==
  /\ merged[t] \in Intervals /\ Apart(merged[t]) /\ Forward(merged[t])
  /\ \A x \in Int : Runs(Done(t), x) <=> Covers(merged[t], x)

Fresh ==
  \A t \in Range(todo) : (pc = "merge" /\ t = Head(todo)) \/ merged[t] = << >>

IInv ==
  /\ Rows /\ Todo /\ Growing /\ Fresh
  /\ merged \in [TypeNames -> Intervals]
  /\ Range(todo) \subseteq Range(Types(request))
  /\ \A t \in Range(Types(request)) : Merged(t)

(* The types of a breakdown are different from each other. *)
LEMMA RequestTypes ==
  ASSUME NEW kind \in Requests
  PROVE  /\ Types(kind) \in Seq(TypeNames)
         /\ \A i, j \in 1 .. Len(Types(kind)) : i # j => Types(kind)[i] # Types(kind)[j]
<1>1. kind \in {"temporal", "overlap", "types", "types_with_memory", "idle"}
  BY TracesAssumption
<1>2. CASE kind = "temporal"
  <2>1. Types(kind) = <<"any", "computation">>
    BY <1>2 DEF Types
  <2> QED
    BY <2>1 DEF TypeNames
<1>3. CASE kind \in {"overlap", "types"}
  <2>1. Types(kind) = <<"computation", "communication">>
    BY <1>3 DEF Types
  <2> QED
    BY <2>1 DEF TypeNames
<1>4. CASE kind = "types_with_memory"
  <2>1. Types(kind) = <<"computation", "communication", "memory">>
    BY <1>4 DEF Types
  <2> QED
    BY <2>1 DEF TypeNames
<1>5. CASE kind = "idle"
  <2>1. Types(kind) = << >>
    BY <1>5 DEF Types
  <2> QED
    BY <2>1
<1> QED
  BY <1>1, <1>2, <1>3, <1>4, <1>5

LEMMA InitIInv == Init => IInv
<1> SUFFICES ASSUME Init PROVE IInv
  OBVIOUS
<1>1. Rows /\ Todo /\ Growing
  BY RequestTypes DEF Init, Rows, Todo, Growing
<1>2. merged \in [TypeNames -> Intervals] /\ \A t \in TypeNames : merged[t] = << >>
  BY DEF Init, Intervals
<1>3. Range(todo) = Range(Types(request)) /\ Range(todo) \subseteq TypeNames
  BY <1>1 DEF Todo, Range, Init
<1>4. Fresh
  BY <1>2, <1>3 DEF Fresh
<1>5. ASSUME NEW t \in Range(todo) PROVE Merged(t)
  <2>1. Done(t) = {}
    BY <1>5 DEF Done, Init
  <2> QED
    BY <2>1, <1>2, <1>3 DEF Merged, Covers, Runs, Apart, Forward
<1> QED
  BY <1>1, <1>2, <1>3, <1>4, <1>5 DEF IInv

-----------------------------------------------------------------------------
(* The steps *)

(* The type at hand is not among those still to come. *)
LEMMA HeadOnce ==
  ASSUME Todo, todo # << >>
  PROVE  /\ Head(todo) \in Range(todo) /\ Head(todo) \notin Range(Tail(todo))
         /\ Range(todo) = {Head(todo)} \cup Range(Tail(todo))
         /\ Tail(todo) \in Seq(TypeNames)
         /\ \A i, j \in 1 .. Len(Tail(todo)) : i # j => Tail(todo)[i] # Tail(todo)[j]
<1>1. /\ Len(todo) \in Nat \ {0} /\ DOMAIN todo = 1 .. Len(todo)
      /\ Head(todo) = todo[1]
      /\ Tail(todo) \in Seq(TypeNames) /\ Len(Tail(todo)) = Len(todo) - 1
      /\ \A i \in 1 .. Len(todo) - 1 : Tail(todo)[i] = todo[i + 1]
  BY LenProperties, EmptySeq, HeadTailProperties DEF Todo
<1>2. DOMAIN Tail(todo) = 1 .. Len(todo) - 1
  BY <1>1, LenProperties
<1>3. Head(todo) \in Range(todo)
  BY <1>1 DEF Range
<1>4. Head(todo) \notin Range(Tail(todo))
  BY <1>1, <1>2 DEF Range, Todo
<1>5. Range(Tail(todo)) \subseteq Range(todo)
  BY <1>1, <1>2 DEF Range
<1>6. ASSUME NEW t \in Range(todo), t # Head(todo) PROVE t \in Range(Tail(todo))
  <2>1. PICK i \in 1 .. Len(todo) : t = todo[i]
    BY <1>1 DEF Range
  <2>2. i - 1 \in 1 .. Len(todo) - 1 /\ Tail(todo)[i - 1] = t
    BY <2>1, <1>1, <1>6
  <2> QED
    BY <2>2, <1>2 DEF Range
<1>7. \A i, j \in 1 .. Len(Tail(todo)) : i # j => Tail(todo)[i] # Tail(todo)[j]
  BY <1>1 DEF Todo
<1> QED
  BY <1>1, <1>3, <1>4, <1>5, <1>6, <1>7

(* A step that leaves the intervals alone and no merging behind it. *)
LEMMA Elsewhere ==
  ASSUME IInv, UNCHANGED <<input, merging>>, pc # "merge", pc' # "merge"
  PROVE  IInv'
<1>1. \A t : Done(t)' = Done(t)
  BY DEF Done, input, merging
<1>2. Rows' /\ Todo' /\ Growing' /\ Fresh'
  BY DEF IInv, Rows, Todo, Growing, Fresh, input, merging
<1>3. UNCHANGED <<merged, todo, request>>
  BY DEF input, merging
<1>4. \A t \in Range(Types(request)) : Merged(t)'
  BY <1>1, <1>3 DEF IInv, Merged
<1> QED
  BY <1>2, <1>3, <1>4 DEF IInv

LEMMA NextFrameStep == ASSUME IInv, NextFrame PROVE IInv'
<1>1. pc = "frames" /\ pc' = "merge" /\ todo # << >> /\ left' = FrameOf(trace, Head(todo))
  BY DEF NextFrame
<1>2. UNCHANGED <<trace, request, todo, reach, merged>>
  BY DEF NextFrame, input, merging
<1>3. Todo /\ merged[Head(todo)] = << >>
  BY <1>1, HeadOnce DEF IInv, Fresh
<1>4. Rows' /\ Todo' /\ Growing' /\ Fresh'
  BY <1>1, <1>2, <1>3 DEF IInv, Rows, Todo, Growing, Fresh
<1>5. \A t : Done(t)' = Done(t)
  BY <1>1, <1>2 DEF Done
<1>6. \A t \in Range(Types(request)) : Merged(t)'
  BY <1>2, <1>5 DEF IInv, Merged
<1> QED
  BY <1>2, <1>4, <1>6 DEF IInv

LEMMA FinishFrameStep == ASSUME IInv, FinishFrame PROVE IInv'
<1>1. pc = "merge" /\ pc' = "frames" /\ left = {} /\ todo' = Tail(todo)
  BY DEF FinishFrame
<1>2. UNCHANGED <<trace, request, left, merged>>
  BY DEF FinishFrame, input
<1>3. todo # << >> /\ Todo
  BY <1>1 DEF IInv, Todo
<1>4. Rows' /\ Todo' /\ Growing'
  BY <1>1, <1>2, <1>3, HeadOnce DEF IInv, Rows, Todo, Growing
<1>5. Fresh'
  BY <1>1, <1>2, <1>3, HeadOnce DEF IInv, Fresh
<1>6. ASSUME NEW t \in Range(Types(request)) PROVE Done(t)' = Done(t)
  BY <1>1, <1>2, <1>3, HeadOnce DEF Done
<1>7. \A t \in Range(Types(request)) : Merged(t)'
  BY <1>2, <1>6 DEF IInv, Merged
<1>8. Range(todo') \subseteq Range(Types(request))
  BY <1>1, <1>3, HeadOnce DEF IInv
<1> QED
  BY <1>2, <1>4, <1>5, <1>7, <1>8 DEF IInv

(* A row joins the last interval or opens a new one. *)
LEMMA Grows ==
  ASSUME NEW v \in Intervals, Apart(v), Forward(v),
         NEW r, r.ts \in Int, End(r) \in Int, r.ts <= End(r),
         v # << >> => reach = v[Len(v)].end /\ v[Len(v)].ts <= r.ts,
         NEW w, w = Grown(v, r)
  PROVE  /\ IsWith(w, v, r.ts, End(r))
         /\ w[Len(w)].end = Reach(v, r) /\ w[Len(w)].ts <= r.ts /\ w[Len(w)].ts \in Int
<1>1. v # << >> => v[Len(v)].ts \in Int /\ v[Len(v)].end \in Int
  BY Entries
<1>2. CASE v = << >> \/ r.ts > reach
  <2>1. w = Append(v, [ts |-> r.ts, end |-> End(r)])
    BY <1>2 DEF Grown
  <2>2. v # << >> => v[Len(v)].end < r.ts
    BY <1>1, <1>2
  <2>3. IsWith(w, v, r.ts, End(r))
    BY <2>1, <2>2, Opens
  <2>5. w[Len(w)] = [ts |-> r.ts, end |-> End(r)]
    BY <2>1, <2>2, Opens
  <2>4. Reach(v, r) = End(r)
    BY <1>1, <2>2 DEF Reach, Later
  <2> QED
    BY <2>3, <2>4, <2>5
<1>3. CASE v # << >> /\ ~(r.ts > reach)
  <2>1. w = [v EXCEPT ![Len(v)].end = Later(@, End(r))]
    BY <1>3 DEF Grown
  <2>2. v[Len(v)].ts <= r.ts /\ r.ts <= v[Len(v)].end
    BY <1>1, <1>3
  <2>3. IsWith(w, v, r.ts, End(r))
    BY <2>1, <2>2, <1>3, Extends
  <2>5. Len(w) = Len(v)
    BY <2>1, <2>2, <1>3, Extends
  <2>6. w[Len(v)].ts = v[Len(v)].ts
    BY <2>1, <2>2, <1>3, Extends
  <2>7. w[Len(v)].end = Later(v[Len(v)].end, End(r))
    BY <2>1, <2>2, <1>3, Extends
  <2>4. Reach(v, r) = Later(v[Len(v)].end, End(r))
    BY <1>3 DEF Reach
  <2> QED
    BY <1>1, <1>3, <2>2, <2>3, <2>4, <2>5, <2>6, <2>7
<1> QED
  BY <1>2, <1>3

LEMMA MergeRowStep == ASSUME Lasting, IInv, MergeRow PROVE IInv'
<1> DEFINE h == Head(todo)
           v == merged[h]
<1>1. PICK r \in left : /\ First(left, r)
                        /\ left' = left \ {r}
                        /\ merged' = [merged EXCEPT ![h] = Grown(@, r)]
                        /\ reach' = Reach(v, r)
  BY DEF MergeRow
<1>2. pc = "merge" /\ pc' = "merge" /\ UNCHANGED <<trace, request, todo>>
  BY DEF MergeRow, input
<1>3. todo # << >> /\ Todo /\ left \subseteq FrameOf(trace, h)
  BY <1>2 DEF IInv, Todo
<1>4. h \in Range(todo) /\ h \in Range(Types(request)) /\ h \in TypeNames
  <2>1. h \in Range(todo) /\ Range(todo) \subseteq Range(Types(request))
    BY <1>3, HeadOnce DEF IInv
  <2>2. Range(todo) \subseteq TypeNames
    BY <1>3 DEF Todo, Range
  <2> QED
    BY <2>1, <2>2
<1>5. r.ts \in Int /\ r.dur \in Int /\ r.dur >= 0 /\ r \in FrameOf(trace, h) /\ trace \in Traces
  BY <1>1, <1>3, TracesAssumption DEF IInv, Rows, Lasting, FrameOf, DeviceRows
<1>6. End(r) \in Int /\ r.ts <= End(r)
  BY <1>5 DEF End
<1>7. Merged(h) /\ v \in Intervals /\ Apart(v) /\ Forward(v)
  BY <1>4 DEF IInv, Merged
<1>8. \A s \in left' : r.ts <= s.ts
  BY <1>1 DEF First
<1>9. merged'[h] = Grown(v, r) /\ \A t \in TypeNames : t # h => merged'[t] = merged[t]
  BY <1>1, <1>4 DEF IInv
<1>10. v # << >> => reach = v[Len(v)].end /\ v[Len(v)].ts <= r.ts
  BY <1>1, <1>2 DEF IInv, Growing
<1> DEFINE w == Grown(v, r)
<1>11. /\ IsWith(w, v, r.ts, End(r))
       /\ w[Len(w)].end = reach' /\ w[Len(w)].ts <= r.ts /\ w[Len(w)].ts \in Int
  BY <1>1, <1>5, <1>6, <1>7, <1>10, Grows
<1>12. Growing'
  <2>1. \A s \in left' : s.ts \in Int
    BY <1>1, <1>3, <1>5, TracesAssumption DEF FrameOf, DeviceRows
  <2>2. \A s \in left' : w[Len(w)].ts <= s.ts
    BY <2>1, <1>5, <1>8, <1>11
  <2>3. merged'[h] = w
    BY <1>9
  <2> HIDE DEF w
  <2> QED
    BY <2>2, <2>3, <1>2, <1>11 DEF Growing
<1>13. Rows' /\ Todo' /\ Fresh'
  <2>1. Rows' /\ Todo'
    BY <1>1, <1>2, <1>3 DEF IInv, Rows, Todo
  <2>2. Fresh'
    <3>1. Range(todo) \subseteq TypeNames
      BY <1>3 DEF Todo, Range
    <3> QED
      BY <3>1, <1>2, <1>9 DEF IInv, Fresh
  <2> QED
    BY <2>1, <2>2
<1>14. merged' \in [TypeNames -> Intervals]
  BY <1>1, <1>4, <1>11 DEF IInv, IsWith
<1>15. ASSUME NEW t \in Range(Types(request)) PROVE Merged(t)'
  <2>1. t \in TypeNames
    <3>1. Types(request) \in Seq(TypeNames)
      BY RequestTypes DEF IInv, Rows
    <3> QED
      BY <3>1 DEF Range
  <2>2. CASE t # h
    <3>1. Done(t)' = Done(t)
      BY <1>2, <2>2 DEF Done
    <3> QED
      BY <3>1, <2>1, <2>2, <1>9 DEF IInv, Merged
  <2>3. CASE t = h
    <3>1. Done(h) = FrameOf(trace, h) \ left /\ Done(h)' = FrameOf(trace, h) \ left'
      BY <1>2, <1>4 DEF Done
    <3>2. Done(h)' = Done(h) \cup {r}
      BY <3>1, <1>1, <1>5
    <3>3. \A x \in Int : Runs(Done(h)', x) <=> Runs(Done(h), x) \/ (r.ts <= x /\ x < End(r))
      BY <3>2 DEF Runs
    <3>4. \A x \in Int : Runs(Done(h)', x) <=> Covers(w, x)
      BY <3>3, <1>7, <1>11 DEF Merged, CoversAlso, IsWith
    <3> QED
      BY <3>4, <2>3, <1>2, <1>9, <1>11 DEF Merged, Runs, End, IsWith
  <2> QED
    BY <2>2, <2>3
<1>16. Range(todo') \subseteq Range(Types(request'))
  BY <1>2 DEF IInv
<1> QED
  BY <1>2, <1>12, <1>13, <1>14, <1>15, <1>16 DEF IInv

LEMMA NextIInv == Lasting /\ IInv /\ [Next]_vars => IInv'
<1> SUFFICES ASSUME Lasting, IInv, [Next]_vars PROVE IInv'
  OBVIOUS
<1>1. CASE NextFrame
  BY <1>1, NextFrameStep
<1>2. CASE MergeRow
  BY <1>2, MergeRowStep
<1>3. CASE FinishFrame
  BY <1>3, FinishFrameStep
<1>4. CASE Temporal
  BY <1>4, Elsewhere DEF Temporal
<1>5. CASE StartSweep
  BY <1>5, Elsewhere DEF StartSweep
<1>6. CASE PassBoundary
  BY <1>6, Elsewhere DEF PassBoundary
<1>7. CASE FinishSweep
  BY <1>7, Elsewhere DEF FinishSweep
<1>8. CASE StartIdle
  BY <1>8, Elsewhere DEF StartIdle
<1>9. CASE NextStream
  BY <1>9, Elsewhere DEF NextStream
<1>10. CASE PassKernel
  BY <1>10, Elsewhere DEF PassKernel
<1>11. CASE FinishStream
  BY <1>11, Elsewhere DEF FinishStream
<1>12. CASE UNCHANGED vars
  <2>1. UNCHANGED <<trace, request, pc, left, todo, reach, merged>>
    BY <1>12 DEF vars, input, merging
  <2>2. \A t : Done(t)' = Done(t)
    BY <2>1 DEF Done
  <2>3. Rows' /\ Todo' /\ Growing' /\ Fresh'
    BY <2>1 DEF IInv, Rows, Todo, Growing, Fresh
  <2>4. \A t \in Range(Types(request)) : Merged(t)'
    BY <2>1, <2>2 DEF IInv, Merged
  <2> QED
    BY <2>1, <2>3, <2>4 DEF IInv
<1> QED
  BY <1>1, <1>2, <1>3, <1>4, <1>5, <1>6, <1>7, <1>8, <1>9, <1>10, <1>11, <1>12 DEF Next

-----------------------------------------------------------------------------
(* Of traces whose kernels do not end before they start, the merged        *)
(* intervals always cover just the time in which a row merged so far runs, *)
(* and no two of them overlap or touch (merge_kernel_intervals).           *)
THEOREM AlwaysMergedExact ==
  ASSUME Lasting
  PROVE  Spec => []MergedExact
<1>1. Init => IInv
  BY InitIInv
<1>2. IInv /\ [Next]_vars => IInv'
  BY NextIInv
<1>3. IInv => MergedExact
  <2> SUFFICES ASSUME IInv, NEW t \in Range(Types(request))
               PROVE  /\ \A x \in Points :
                           Runs(Done(t), x) <=>
                             \E i \in DOMAIN merged[t] : merged[t][i].ts <= x /\ x < merged[t][i].end
                      /\ \A i, j \in DOMAIN merged[t] : i < j => merged[t][i].end < merged[t][j].ts
    BY DEF MergedExact
  <2>1. Merged(t) /\ Points \subseteq Int
    BY PointsAssumption DEF IInv
  <2> QED
    BY <2>1 DEF Merged, Covers, Apart
<1> QED
  BY <1>1, <1>2, <1>3, PTL DEF Spec

-----------------------------------------------------------------------------
(* The length of the merged intervals                                      *)

(* The intervals of a sequence have no moment in common, so their lengths  *)
(* add up to the number of moments that they cover.                        *)
LEMMA TotalIsCovered ==
  ASSUME NEW v \in Intervals, Apart(v), Forward(v), NEW P, P \subseteq Int,
         \A x \in Int : Covers(v, x) => x \in P
  PROVE  /\ IsFiniteSet({x \in P : Covers(v, x)})
         /\ Total(v) = Cardinality({x \in P : Covers(v, x)})
<1> DEFINE T == DOMAIN v
           span == [i \in T |-> v[i].ts .. (v[i].end - 1)]
           dur == [i \in T |-> v[i].end - v[i].ts]
           size == [i \in T |-> Cardinality(span[i])]
<1>1. /\ Len(v) \in Nat /\ T = 1 .. Len(v)
      /\ \A i \in T : v[i].ts \in Int /\ v[i].end \in Int /\ v[i].ts <= v[i].end
  BY Entries DEF Forward
<1>2. IsFiniteSet(T)
  BY <1>1, FS_Interval
<1>3. \A i \in T : /\ IsFiniteSet(span[i]) /\ size[i] = dur[i] /\ size[i] \in Int
  <2> TAKE i \in T
  <2>1. PICK a \in Int, z \in Int : a = v[i].ts /\ z = v[i].end /\ a <= z
    BY <1>1
  <2>2. IsFiniteSet(a .. (z - 1)) /\ Cardinality(a .. (z - 1)) = z - a
    <3>1. z - 1 \in Int
      BY <2>1
    <3>2. /\ IsFiniteSet(a .. (z - 1))
          /\ Cardinality(a .. (z - 1)) = IF a > z - 1 THEN 0 ELSE (z - 1) - a + 1
      BY <2>1, <3>1, FS_Interval
    <3> QED
      BY <2>1, <3>2
  <2> QED
    BY <2>1, <2>2
<1>4. \A i, j \in T : i # j => span[i] \cap span[j] = {}
  <2>1. ASSUME NEW i \in T, NEW j \in T, i < j, NEW x \in span[i], x \in span[j] PROVE FALSE
    <3>1. v[i].end < v[j].ts
      BY <2>1 DEF Apart
    <3> QED
      BY <1>1, <2>1, <3>1
  <2>2. \A i, j \in T : i # j => i < j \/ j < i
    BY <1>1
  <2> QED
    BY <2>1, <2>2
<1>5. Total(v) = SumFunctionOnSet(dur, T)
  BY DEF Total, SumFunction
<1>6. SumFunctionOnSet(dur, T) = SumFunctionOnSet(size, T)
  <2> HIDE DEF dur, size, T
  <2> QED
    BY <1>2, <1>3, SumEqual
<1>7. /\ IsFiniteSet(UNION {span[i] : i \in T})
      /\ Cardinality(UNION {span[i] : i \in T}) = SumFunctionOnSet(size, T)
  <2> HIDE DEF T, span
  <2> QED
    BY <1>2, <1>3, <1>4, SizeOfParts
<1>8. UNION {span[i] : i \in T} = {x \in P : Covers(v, x)}
  <2>1. ASSUME NEW i \in T, NEW x \in span[i] PROVE x \in P /\ Covers(v, x)
    <3>1. x \in Int /\ v[i].ts <= x /\ x < v[i].end
      BY <1>1
    <3>2. Covers(v, x)
      BY <3>1 DEF Covers
    <3> QED
      BY <3>1, <3>2
  <2>2. ASSUME NEW x \in P, Covers(v, x) PROVE \E i \in T : x \in span[i]
    BY <1>1, <2>2 DEF Covers
  <2> QED
    BY <2>1, <2>2
<1> QED
  BY <1>5, <1>6, <1>7, <1>8

(* Nothing runs outside of the moments that are looked at. *)
LEMMA RunsInPoints ==
  ASSUME NEW rows \in Traces, NEW part, part \subseteq rows, NEW x \in Int, Runs(part, x)
  PROVE  x \in Points
<1>1. PICK e \in part : e.ts <= x /\ x < e.ts + e.dur
  BY DEF Runs, End
<1>2. e.ts \in Int /\ e.dur \in Int /\ e.ts .. (e.ts + e.dur - 1) \subseteq Points
  BY TracesAssumption, PointsAssumption
<1>3. x \in e.ts .. (e.ts + e.dur - 1)
  BY <1>1, <1>2
<1> QED
  BY <1>2, <1>3

(* What the merging of a type comes to. *)
LEMMA MergedTotal ==
  ASSUME IInv, todo = << >>, NEW t \in Range(Types(request))
  PROVE  /\ \A x \in Int : RunsType(t, x) <=> Covers(merged[t], x)
         /\ \A x \in Int : RunsType(t, x) => x \in Points
         /\ merged[t] \in Intervals /\ Apart(merged[t]) /\ Forward(merged[t])
         /\ IsFiniteSet({x \in Points : RunsType(t, x)})
         /\ Total(merged[t]) = TimeOf(t) /\ Total(merged[t]) \in Nat
<1>1. Merged(t) /\ Done(t) = FrameOf(trace, t)
  BY DEF IInv, Done, Range
<1>2. \A x \in Int : RunsType(t, x) <=> Covers(merged[t], x)
  BY <1>1 DEF Merged, RunsType
<1>3. FrameOf(trace, t) \subseteq trace /\ trace \in Traces
  BY DEF FrameOf, DeviceRows, IInv, Rows
<1>4. \A x \in Int : RunsType(t, x) => x \in Points
  BY <1>3, RunsInPoints DEF RunsType
<1>5. Points \subseteq Int /\ \A x \in Int : Covers(merged[t], x) => x \in Points
  BY <1>2, <1>4, PointsAssumption
<1>6. {x \in Points : Covers(merged[t], x)} = {x \in Points : RunsType(t, x)}
  BY <1>2, <1>5
<1>7. /\ IsFiniteSet({x \in Points : Covers(merged[t], x)})
      /\ Total(merged[t]) = Cardinality({x \in Points : Covers(merged[t], x)})
  BY <1>1, <1>5, TotalIsCovered DEF Merged
<1> QED
  BY <1>1, <1>2, <1>4, <1>6, <1>7, FS_CardinalityType DEF Merged, TimeOf

-----------------------------------------------------------------------------
(* Where the merged intervals begin and end                                *)

(* The first interval begins with a row, and none earlier; the last ends   *)
(* with a row, and none later.                                             *)
Spanned(v, rows) ==
  /\ v = << >> <=> rows = {}
  /\ v # << >> =>
       /\ \E r \in rows : r.ts = v[1].ts
       /\ \E r \in rows : End(r) = v[Len(v)].end
       /\ \A r \in rows : v[1].ts <= r.ts /\ End(r) <= v[Len(v)].end

SpanInv == \A t \in Range(Types(request)) : Spanned(merged[t], Done(t))

LEMMA GrownSpans ==
  ASSUME NEW v \in Intervals, Apart(v), Forward(v), NEW rows, Spanned(v, rows),
         \A e \in rows : End(e) \in Int,
         NEW r, r.ts \in Int, End(r) \in Int, r.ts <= End(r),
         v # << >> => reach = v[Len(v)].end /\ v[Len(v)].ts <= r.ts,
         NEW w, w = Grown(v, r), w[Len(w)].end = Reach(v, r), w # << >>
  PROVE  Spanned(w, rows \cup {r})
<1>1. /\ Len(v) \in Nat /\ DOMAIN v = 1 .. Len(v) /\ (v # << >> <=> Len(v) # 0)
      /\ \A i \in 1 .. Len(v) : v[i].ts \in Int /\ v[i].end \in Int
  BY Entries
<1>2. CASE v = << >>
  <2>1. w = <<[ts |-> r.ts, end |-> End(r)]>> /\ rows = {}
    BY <1>2 DEF Grown, Spanned
  <2>2. w[1].ts = r.ts /\ w[Len(w)].end = End(r)
    BY <2>1
  <2> QED
    BY <2>1, <2>2 DEF Spanned
<1>3. CASE v # << >>
  <2>1. 1 \in 1 .. Len(v) /\ Len(v) \in 1 .. Len(v)
    BY <1>1, <1>3
  <2>2. v[1].ts <= v[Len(v)].ts
    <3>1. CASE Len(v) = 1
      BY <1>1, <2>1, <3>1
    <3>2. CASE Len(v) # 1
      <4>1. v[1].ts <= v[1].end /\ v[1].end < v[Len(v)].ts
        BY <1>1, <2>1, <3>2 DEF Apart, Forward
      <4> QED
        BY <1>1, <2>1, <4>1
    <3> QED
      BY <3>1, <3>2
  <2>3. w[1].ts = v[1].ts
    <3>1. CASE r.ts > reach
      <4>1. w = Append(v, [ts |-> r.ts, end |-> End(r)])
        BY <3>1 DEF Grown
      <4>2. w[1] = v[1]
        BY <4>1, <2>1, AppendProperties DEF Intervals
      <4> QED
        BY <4>2
    <3>2. CASE ~(r.ts > reach)
      <4>1. w = [v EXCEPT ![Len(v)].end = Later(@, End(r))]
        BY <1>3, <3>2 DEF Grown
      <4>2. v \in [1 .. Len(v) -> [ts : Int, end : Int]]
        BY LenProperties DEF Intervals
      <4>3. w[1] = IF Len(v) = 1 THEN [v[1] EXCEPT !.end = Later(v[1].end, End(r))] ELSE v[1]
        BY <2>1, <4>1, <4>2
      <4> QED
        BY <2>1, <4>2, <4>3
    <3> QED
      BY <3>1, <3>2
  <2>4. /\ v[1].ts \in Int /\ v[Len(v)].end \in Int /\ v[Len(v)].ts \in Int /\ v[1].ts <= r.ts
    BY <1>1, <1>3, <2>1, <2>2
  <2>5. w[Len(w)].end = Later(v[Len(v)].end, End(r))
    BY <1>3 DEF Reach
  <2>6. /\ \E e \in rows : e.ts = v[1].ts
        /\ \E e \in rows : End(e) = v[Len(v)].end
        /\ \A e \in rows : v[1].ts <= e.ts /\ End(e) <= v[Len(v)].end
    BY <1>3 DEF Spanned
  <2>7. \A e \in rows \cup {r} : w[1].ts <= e.ts /\ End(e) <= w[Len(w)].end
    <3>1. v[Len(v)].end <= w[Len(w)].end /\ End(r) <= w[Len(w)].end /\ w[Len(w)].end \in Int
      BY <2>4, <2>5 DEF Later
    <3> QED
      BY <2>3, <2>4, <2>6, <3>1
  <2>8. \E e \in rows \cup {r} : End(e) = w[Len(w)].end
    BY <2>5, <2>6 DEF Later
  <2> QED
    BY <2>3, <2>6, <2>7, <2>8 DEF Spanned
<1> QED
  BY <1>2, <1>3

LEMMA RowTimes ==
  ASSUME Lasting, trace \in Traces, NEW e \in trace
  PROVE  e.ts \in Int /\ e.dur \in Nat /\ End(e) \in Int /\ e.ts <= End(e)
<1>1. e.ts \in Int /\ e.dur \in Int /\ e.dur >= 0
  BY TracesAssumption DEF Lasting
<1> QED
  BY <1>1 DEF End

LEMMA SpanStep == Lasting /\ IInv /\ SpanInv /\ [Next]_vars => SpanInv'
<1> SUFFICES ASSUME Lasting, IInv, SpanInv, [Next]_vars PROVE SpanInv'
  OBVIOUS
<1>1. CASE MergeRow
  <2> DEFINE h == Head(todo)
             v == merged[h]
  <2>1. PICK r \in left : /\ First(left, r)
                          /\ left' = left \ {r}
                          /\ merged' = [merged EXCEPT ![h] = Grown(@, r)]
    BY <1>1 DEF MergeRow
  <2>2. pc = "merge" /\ pc' = "merge" /\ UNCHANGED <<trace, request, todo>>
    BY <1>1 DEF MergeRow, input
  <2>3. todo # << >> /\ Todo /\ left \subseteq FrameOf(trace, h) /\ trace \in Traces
    BY <2>2 DEF IInv, Todo, Rows
  <2>4. h \in Range(todo) /\ h \in Range(Types(request)) /\ h \in TypeNames
    <3>1. h \in Range(todo) /\ Range(todo) \subseteq Range(Types(request))
      BY <2>3, HeadOnce DEF IInv
    <3>2. Range(todo) \subseteq TypeNames
      BY <2>3 DEF Todo, Range
    <3> QED
      BY <3>1, <3>2
  <2>5. \A e \in FrameOf(trace, h) : e.ts \in Int /\ End(e) \in Int /\ e.ts <= End(e)
    BY <2>3, RowTimes DEF FrameOf, DeviceRows
  <2>6. Merged(h) /\ v \in Intervals /\ Apart(v) /\ Forward(v) /\ Spanned(v, Done(h))
    BY <2>4 DEF IInv, Merged, SpanInv
  <2>7. v # << >> => reach = v[Len(v)].end /\ v[Len(v)].ts <= r.ts
    BY <2>1, <2>2 DEF IInv, Growing
  <2> DEFINE w == Grown(v, r)
  <2>8. IsWith(w, v, r.ts, End(r)) /\ w[Len(w)].end = Reach(v, r)
    BY <2>1, <2>3, <2>5, <2>6, <2>7, Grows
  <2>9. Done(h) = FrameOf(trace, h) \ left /\ Done(h)' = Done(h) \cup {r}
    BY <2>1, <2>2, <2>3, <2>4 DEF Done
  <2>10. w # << >>
    BY <2>8 DEF IsWith
  <2> HIDE DEF w
  <2>11. Spanned(w, Done(h) \cup {r})
    <3>1. \A e \in Done(h) : End(e) \in Int
      BY <2>5, <2>9
    <3>2. r.ts \in Int /\ End(r) \in Int /\ r.ts <= End(r)
      BY <2>1, <2>3, <2>5
    <3> QED
      BY <2>6, <2>7, <2>8, <2>10, <3>1, <3>2, GrownSpans DEF w
  <2>12. merged'[h] = w /\ \A t \in TypeNames : t # h => merged'[t] = merged[t]
    BY <2>1, <2>4 DEF IInv, w
  <2>13. \A t : t # h => Done(t)' = Done(t)
    BY <2>2 DEF Done
  <2>14. Range(Types(request)) \subseteq TypeNames
    <3>1. Types(request) \in Seq(TypeNames)
      BY RequestTypes DEF IInv, Rows
    <3> QED
      BY <3>1 DEF Range
  <2>15. ASSUME NEW t \in Range(Types(request)) PROVE Spanned(merged[t], Done(t))'
    <3>1. CASE t = h
      <4>1. Spanned(merged'[h], Done(h)')
        BY <2>2, <2>9, <2>11, <2>12
      <4> QED
        BY <2>2, <3>1, <4>1 DEF Spanned
    <3>2. CASE t # h
      BY <2>12, <2>13, <2>14, <3>2 DEF SpanInv, Spanned
    <3> QED
      BY <3>1, <3>2
  <2> QED
    BY <2>2, <2>15 DEF SpanInv
<1>2. CASE ~MergeRow
  <2>1. UNCHANGED <<trace, request, merged>>
    BY <1>2 DEF Next, vars, NextFrame, FinishFrame, Temporal, StartSweep, PassBoundary, FinishSweep,
                StartIdle, NextStream, PassKernel, FinishStream, input, merging
  <2>2. ASSUME NEW t \in Range(Types(request)) PROVE Done(t)' = Done(t)
    <3>1. CASE NextFrame
      <4>1. pc = "frames" /\ pc' = "merge" /\ todo' = todo /\ left' = FrameOf(trace, Head(todo))
        BY <3>1 DEF NextFrame, merging
      <4> QED
        BY <2>1, <4>1 DEF Done
    <3>2. CASE FinishFrame
      <4>1. pc = "merge" /\ pc' = "frames" /\ left = {} /\ todo' = Tail(todo) /\ todo # << >> /\ Todo
        BY <3>2 DEF FinishFrame, IInv, Todo
      <4> QED
        BY <2>1, <4>1, HeadOnce DEF Done
    <3>3. CASE ~NextFrame /\ ~FinishFrame
      <4>1. /\ todo' = todo
            /\ (pc # "merge" /\ pc' # "merge") \/ (pc' = pc /\ left' = left)
        BY <1>2, <3>3 DEF Next, vars, Temporal, StartSweep, PassBoundary, FinishSweep,
                    StartIdle, NextStream, PassKernel, FinishStream, merging
      <4> QED
        BY <2>1, <4>1 DEF Done
    <3> QED
      BY <3>1, <3>2, <3>3
  <2> QED
    BY <2>1, <2>2 DEF SpanInv, Spanned
<1> QED
  BY <1>1, <1>2

LEMMA SpanInit == Init => SpanInv
<1> SUFFICES ASSUME Init, NEW t \in Range(Types(request)) PROVE Spanned(merged[t], Done(t))
  BY DEF SpanInv
<1>1. Done(t) = {}
  BY DEF Init, Done
<1>2. t \in TypeNames
  <2>1. Types(request) \in Seq(TypeNames)
    BY RequestTypes DEF Init
  <2> QED
    BY <2>1 DEF Range
<1> QED
  BY <1>1, <1>2 DEF Spanned, Init

-----------------------------------------------------------------------------
(* The temporal breakdown                                                  *)

LEMMA TemporalIsExact ==
  ASSUME Lasting, IInv, SpanInv, todo = << >>, request = "temporal", merged["any"] # << >>
  PROVE  LET kernel_time == KernelTime(merged["any"])
             all == Total(merged["any"])
             compute_time == Total(merged["computation"])
         IN /\ kernel_time \in Int /\ all \in Nat /\ compute_time \in Nat
            /\ all <= kernel_time /\ compute_time <= all
            /\ compute_time = TimeOf("computation")
            /\ all - compute_time =
                 Cardinality({x \in Points : RunsType("any", x) /\ ~RunsType("computation", x)})
            /\ kernel_time - all = Cardinality({x \in Points : Idle(x)})
<1> DEFINE v == merged["any"]
           any == {x \in Points : RunsType("any", x)}
           comp == {x \in Points : RunsType("computation", x)}
           other == {x \in Points : RunsType("any", x) /\ ~RunsType("computation", x)}
           gaps == {x \in Points : Idle(x)}
           whole == v[1].ts .. (v[Len(v)].end - 1)
<1>1. "any" \in Range(Types(request)) /\ "computation" \in Range(Types(request))
  <2>1. Types(request) = <<"any", "computation">>
    BY DEF Types
  <2>2. <<"any", "computation">>[1] = "any" /\ <<"any", "computation">>[2] = "computation"
        /\ DOMAIN <<"any", "computation">> = {1, 2}
    OBVIOUS
  <2> QED
    BY <2>1, <2>2 DEF Range
<1>2. /\ v \in Intervals /\ Apart(v) /\ Forward(v) /\ IsFiniteSet(any) /\ IsFiniteSet(comp)
      /\ Total(v) = Cardinality(any) /\ Total(merged["computation"]) = Cardinality(comp)
      /\ Cardinality(any) \in Nat /\ Cardinality(comp) \in Nat
      /\ \A x \in Int : RunsType("any", x) => x \in Points
  BY <1>1, MergedTotal DEF TimeOf
<1>3. comp \subseteq any
  BY DEF RunsType, Runs, FrameOf
<1>4. /\ IsFiniteSet(other) /\ Cardinality(other) = Cardinality(any) - Cardinality(comp)
      /\ Cardinality(comp) <= Cardinality(any)
  <2>1. other = any \ comp
    OBVIOUS
  <2>2. IsFiniteSet(any \ comp) /\ Cardinality(any \ comp) = Cardinality(any) - Cardinality(any \cap comp)
    BY <1>2, FS_Difference
  <2>3. any \cap comp = comp
    BY <1>3
  <2>4. Cardinality(comp) <= Cardinality(any)
    BY <1>2, <1>3, FS_Subset
  <2> QED
    BY <2>1, <2>2, <2>3, <2>4
<1>5. /\ Len(v) \in Nat \ {0} /\ DOMAIN v = 1 .. Len(v)
      /\ v[1].ts \in Int /\ v[Len(v)].end \in Int
  BY <1>2, Entries
<1>6. Done("any") = DeviceRows(trace)
  BY <1>1 DEF Done, Range, FrameOf
<1>7. /\ \E r \in DeviceRows(trace) : r.ts = v[1].ts
      /\ \E r \in DeviceRows(trace) : End(r) = v[Len(v)].end
      /\ \A r \in DeviceRows(trace) : v[1].ts <= r.ts /\ End(r) <= v[Len(v)].end
  BY <1>1, <1>6 DEF SpanInv, Spanned
<1>8. \A r \in DeviceRows(trace) : r \in trace /\ r.ts \in Int /\ End(r) \in Int /\ r.ts <= End(r)
  <2>1. trace \in Traces /\ DeviceRows(trace) \subseteq trace
    BY DEF IInv, Rows, DeviceRows
  <2> QED
    BY <2>1, RowTimes
<1>9. v[1].ts <= v[Len(v)].end
  BY <1>5, <1>7, <1>8
<1>10. IsFiniteSet(whole) /\ Cardinality(whole) = v[Len(v)].end - v[1].ts
  <2>1. v[Len(v)].end - 1 \in Int
    BY <1>5
  <2>2. /\ IsFiniteSet(whole)
        /\ Cardinality(whole) = IF v[1].ts > v[Len(v)].end - 1 THEN 0 ELSE (v[Len(v)].end - 1) - v[1].ts + 1
    BY <1>5, <2>1, FS_Interval
  <2> QED
    BY <1>5, <1>9, <2>2
<1>11. KernelTime(v) = v[Len(v)].end - v[1].ts
  BY DEF KernelTime, Last
<1>12. any \subseteq whole
  <2> SUFFICES ASSUME NEW x \in any PROVE x \in whole
    OBVIOUS
  <2>1. x \in Int
    BY PointsAssumption
  <2>2. PICK r \in DeviceRows(trace) : r.ts <= x /\ x < End(r)
    BY DEF RunsType, Runs, FrameOf
  <2> QED
    BY <1>5, <1>7, <1>8, <2>1, <2>2
<1>13. whole \subseteq Points
  <2>1. PICK r \in DeviceRows(trace), e \in DeviceRows(trace) : r.ts = v[1].ts /\ End(e) = v[Len(v)].end
    BY <1>7
  <2>2. trace \in Traces /\ r \in trace /\ e \in trace
    BY <1>8 DEF IInv, Rows
  <2>3. r.ts .. (e.ts + e.dur - 1) \subseteq Points
    BY <2>2, PointsAssumption
  <2>4. e.ts + e.dur - 1 = v[Len(v)].end - 1
    <3>1. e.ts \in Int /\ e.dur \in Int /\ e.ts + e.dur = v[Len(v)].end
      BY <2>1, <2>2, TracesAssumption DEF End
    <3> QED
      BY <3>1
  <2> QED
    BY <2>1, <2>3, <2>4
<1>14. gaps = whole \ any
  <2>1. ASSUME NEW x \in gaps PROVE x \in whole \ any
    <3>1. PICK r \in DeviceRows(trace), e \in DeviceRows(trace) : r.ts <= x /\ x < End(e)
      BY DEF Idle
    <3>2. x \in Int
      BY PointsAssumption
    <3>3. v[1].ts <= x /\ x < v[Len(v)].end
      BY <1>5, <1>7, <1>8, <3>1, <3>2
    <3> QED
      BY <1>5, <3>2, <3>3 DEF Idle
  <2>2. ASSUME NEW x \in whole, x \notin any PROVE x \in gaps
    <3>1. x \in Points /\ x \in Int /\ v[1].ts <= x /\ x < v[Len(v)].end
      BY <1>5, <1>13
    <3>2. ~RunsType("any", x)
      BY <2>2, <3>1
    <3>3. \E r, e \in DeviceRows(trace) : r.ts <= x /\ x < End(e)
      BY <1>7, <3>1
    <3> QED
      BY <3>1, <3>2, <3>3 DEF Idle
  <2> QED
    BY <2>1, <2>2
<1>15. Cardinality(gaps) = Cardinality(whole) - Cardinality(any) /\ Cardinality(any) <= Cardinality(whole)
  <2>1. Cardinality(whole \ any) = Cardinality(whole) - Cardinality(whole \cap any)
    BY <1>10, FS_Difference
  <2>2. whole \cap any = any
    BY <1>12
  <2>3. Cardinality(any) <= Cardinality(whole)
    BY <1>10, <1>12, FS_Subset
  <2> QED
    BY <1>14, <2>1, <2>2, <2>3
<1>16. Total(merged["computation"]) = TimeOf("computation")
  BY <1>2 DEF TimeOf
<1> QED
  BY <1>2, <1>4, <1>5, <1>10, <1>11, <1>15, <1>16

-----------------------------------------------------------------------------
(* The sweep over the boundaries                                           *)

(* What a type adds to the sum, nothing if it is not asked for. *)
Weight(t) == IF t \in Range(Types(request)) THEN Status(request, t) ELSE 0

Three == {"computation", "communication", "memory"}

LEMMA Weights ==
  ASSUME request \in {"overlap", "types", "types_with_memory"}
  PROVE  /\ Range(Types(request)) \subseteq Three
         /\ \A t \in Three : Weight(t) \in Nat
         /\ Weight("computation") + Weight("communication") + Weight("memory") <= 7
         /\ request = "overlap" =>
              Weight("computation") = 2 /\ Weight("communication") = 1 /\ Weight("memory") = 0
         /\ request = "types" =>
              Weight("computation") = 1 /\ Weight("communication") = 2 /\ Weight("memory") = 0
         /\ request = "types_with_memory" =>
              Weight("computation") = 1 /\ Weight("communication") = 2 /\ Weight("memory") = 4
<1>1. CASE request \in {"overlap", "types"}
  <2>1. Types(request) = <<"computation", "communication">>
    BY <1>1 DEF Types
  <2>2. /\ DOMAIN Types(request) = {1, 2}
        /\ Types(request)[1] = "computation" /\ Types(request)[2] = "communication"
    <3>1. /\ DOMAIN <<"computation", "communication">> = {1, 2}
          /\ <<"computation", "communication">>[1] = "computation"
          /\ <<"computation", "communication">>[2] = "communication"
      OBVIOUS
    <3> QED
      BY <2>1, <3>1, Zenon
  <2>3. Range(Types(request)) = {"computation", "communication"}
    BY <2>2 DEF Range
  <2>4. Weight("memory") = 0
    BY <2>3 DEF Weight
  <2>5. Weight("computation") = Status(request, "computation")
        /\ Weight("communication") = Status(request, "communication")
    BY <2>3 DEF Weight
  <2>6. CASE request = "overlap"
    <3>1. Status(request, "computation") = 2 /\ Status(request, "communication") = 1
      BY <2>6 DEF Status
    <3> QED
      BY <2>3, <2>4, <2>5, <2>6, <3>1 DEF Three
  <2>7. CASE request = "types"
    <3>1. Status(request, "computation") = 1 /\ Status(request, "communication") = 2
      BY <2>7 DEF Status
    <3> QED
      BY <2>3, <2>4, <2>5, <2>7, <3>1 DEF Three
  <2> QED
    BY <1>1, <2>6, <2>7
<1>2. CASE request = "types_with_memory"
  <2>1. Types(request) = <<"computation", "communication", "memory">>
    BY <1>2 DEF Types
  <2>2. /\ DOMAIN Types(request) = {1, 2, 3} /\ Types(request)[1] = "computation"
        /\ Types(request)[2] = "communication" /\ Types(request)[3] = "memory"
    <3>1. /\ DOMAIN <<"computation", "communication", "memory">> = {1, 2, 3}
          /\ <<"computation", "communication", "memory">>[1] = "computation"
          /\ <<"computation", "communication", "memory">>[2] = "communication"
          /\ <<"computation", "communication", "memory">>[3] = "memory"
      OBVIOUS
    <3> QED
      BY <2>1, <3>1, Zenon
  <2>3. Range(Types(request)) = Three
    BY <2>2 DEF Range, Three
  <2>4. /\ Status(request, "computation") = 1 /\ Status(request, "communication") = 2
        /\ Status(request, "memory") = 4
    BY <1>2 DEF Status
  <2>5. Weight("computation") = 1 /\ Weight("communication") = 2 /\ Weight("memory") = 4
    BY <2>3, <2>4 DEF Weight, Three
  <2>6. \A t \in Three : Weight(t) \in Nat
    <3> DEFINE w(t) == Weight(t)
    <3>1. w("computation") \in Nat /\ w("communication") \in Nat /\ w("memory") \in Nat
      BY <2>5
    <3> QED
      BY <3>1 DEF Three
  <2>7. Weight("computation") + Weight("communication") + Weight("memory") <= 7
    BY <2>5
  <2> QED
    BY <1>2, <2>3, <2>5, <2>6, <2>7
<1> QED
  BY <1>1, <1>2

(* The sum of the types that run at a moment. *)
Runs01(t, x) == IF RunsType(t, x) THEN 1 ELSE 0
SumAt(x) ==
  Weight("computation") * Runs01("computation", x) + Weight("communication") * Runs01("communication", x)
    + Weight("memory") * Runs01("memory", x)

(* The boundaries of an interval. *)
Up(t, i) == [time |-> merged[t][i].ts, change |-> Status(request, t), type |-> t, number |-> i]
Down(t, i) == [time |-> merged[t][i].end, change |-> -Status(request, t), type |-> t, number |-> i]

LEMMA BoundaryCases ==
  ASSUME NEW b \in Boundaries
  PROVE  \E t \in Range(Types(request)) : \E i \in DOMAIN merged[t] : b = Up(t, i) \/ b = Down(t, i)
  BY DEF Boundaries, Up, Down

LEMMA BoundariesAre ==
  ASSUME NEW t \in Range(Types(request)), NEW i \in DOMAIN merged[t]
  PROVE  Up(t, i) \in Boundaries /\ Down(t, i) \in Boundaries
<1>1. Up(t, i) \in {Up(t, j) : j \in DOMAIN merged[t]} /\ Down(t, i) \in {Down(t, j) : j \in DOMAIN merged[t]}
  OBVIOUS
<1> QED
  BY <1>1 DEF Boundaries, Up, Down

(* The starts and the ends that were passed are the first of each type.    *)
Passed(t, a, e) ==
  /\ a \in 0 .. Len(merged[t]) /\ e \in 0 .. Len(merged[t])
  /\ \A i \in DOMAIN merged[t] : (Up(t, i) \notin left <=> i <= a) /\ (Down(t, i) \notin left <=> i <= e)

(* a[t] starts and e[t] ends of the type t were passed, and the sum counts *)
(* those that are open.                                                    *)
Sweep(a, e) ==
  /\ a \in [Three -> Nat] /\ e \in [Three -> Nat]
  /\ \A t \in Range(Types(request)) : Passed(t, a[t], e[t])
  /\ \A t \in Three \ Range(Types(request)) : a[t] = 0 /\ e[t] = 0
  /\ running = Weight("computation") * (a["computation"] - e["computation"])
                + Weight("communication") * (a["communication"] - e["communication"])
                + Weight("memory") * (a["memory"] - e["memory"])

(* The moments before now at which the types running add up to s. *)
SoFar(s) == {x \in Points : now # None /\ x < now /\ SumAt(x) = s}

SweepInv ==
  /\ pc \in {"frames", "merge"} => now = None /\ running = 0 /\ spent = [s \in 1 .. 7 |-> 0]
  /\ pc = "sweep" =>
       /\ todo = << >> /\ request \in {"overlap", "types", "types_with_memory"}
       /\ left \subseteq Boundaries /\ \E a, e : Sweep(a, e)
       /\ now = None => left = Boundaries
       /\ now # None =>
            now \in Int /\ \A b \in Boundaries : IF b \in left THEN now <= b.time ELSE b.time <= now
       /\ spent \in [1 .. 7 -> Nat]
       /\ \A s \in 1 .. 7 : spent[s] = Cardinality(SoFar(s))

(* What the intervals of a type are when the sweep goes over them. *)
LEMMA SweptType ==
  ASSUME IInv, todo = << >>, NEW t \in Range(Types(request)), NEW v, v = merged[t]
  PROVE  /\ Len(v) \in Nat /\ DOMAIN v = 1 .. Len(v)
         /\ \A i \in 1 .. Len(v) : v[i].ts \in Int /\ v[i].end \in Int /\ v[i].ts <= v[i].end
         /\ \A i, j \in 1 .. Len(v) : i < j => v[i].end < v[j].ts
         /\ \A x \in Int : RunsType(t, x) <=> \E i \in 1 .. Len(v) : v[i].ts <= x /\ x < v[i].end
<1>1. /\ v \in Intervals /\ Apart(v) /\ Forward(v)
      /\ \A x \in Int : RunsType(t, x) <=> Covers(v, x)
  BY MergedTotal
<1>2. /\ Len(v) \in Nat /\ DOMAIN v = 1 .. Len(v)
      /\ \A i \in 1 .. Len(v) : v[i].ts \in Int /\ v[i].end \in Int
  BY <1>1, Entries
<1> QED
  BY <1>1, <1>2 DEF Apart, Forward, Covers

(* Between two boundaries of a type it runs if it was opened once more     *)
(* than it was closed.                                                     *)
LEMMA OpenIsRunning ==
  ASSUME IInv, todo = << >>, left \subseteq Boundaries, NEW t \in Range(Types(request)),
         NEW a \in Nat, NEW e \in Nat, Passed(t, a, e), NEW x \in Int,
         \A b \in Boundaries : IF b \in left THEN x < b.time ELSE b.time <= x
  PROVE  a - e = Runs01(t, x)
<1> DEFINE v == merged[t]
           n == Len(v)
<1>1. /\ n \in Nat /\ DOMAIN v = 1 .. n
      /\ \A i \in 1 .. n : v[i].ts \in Int /\ v[i].end \in Int /\ v[i].ts <= v[i].end
      /\ \A i, j \in 1 .. n : i < j => v[i].end < v[j].ts
      /\ RunsType(t, x) <=> \E i \in 1 .. n : v[i].ts <= x /\ x < v[i].end
  BY SweptType
<1>2. a \in 0 .. n /\ e \in 0 .. n
  BY DEF Passed
<1>3. \A i \in 1 .. n : (i <= a <=> v[i].ts <= x) /\ (i <= e <=> v[i].end <= x)
  <2> TAKE i \in 1 .. n
  <2>1. /\ Up(t, i) \in Boundaries /\ Up(t, i).time = v[i].ts
        /\ Down(t, i) \in Boundaries /\ Down(t, i).time = v[i].end
    BY <1>1, BoundariesAre DEF Up, Down
  <2>2. (Up(t, i) \notin left <=> i <= a) /\ (Down(t, i) \notin left <=> i <= e)
    BY <1>1 DEF Passed
  <2>3. (Up(t, i) \notin left <=> v[i].ts <= x) /\ (Down(t, i) \notin left <=> v[i].end <= x)
    BY <1>1, <2>1
  <2> QED
    BY <2>2, <2>3
<1> HIDE DEF v, n
<1>4. e <= a
  <2> SUFFICES ASSUME e > a PROVE FALSE
    BY <1>2
  <2>1. e \in 1 .. n /\ v[e].end <= x /\ ~(v[e].ts <= x)
    BY <1>2, <1>3
  <2> QED
    BY <1>1, <2>1
<1>5. a <= e + 1
  <2> SUFFICES ASSUME a > e + 1 PROVE FALSE
    BY <1>2
  <2>1. /\ a \in 1 .. n /\ e + 1 \in 1 .. n /\ e + 1 < a
        /\ v[a].ts <= x /\ ~(v[e + 1].end <= x)
    <3>1. a \in 1 .. n /\ e + 1 \in 1 .. n /\ e + 1 < a /\ a <= a /\ ~(e + 1 <= e)
      BY <1>1, <1>2
    <3> QED
      BY <1>3, <3>1
  <2>2. v[e + 1].end < v[a].ts
    BY <1>1, <2>1
  <2>3. v[a].ts \in Int /\ v[e + 1].end \in Int
    BY <1>1, <2>1
  <2> QED
    BY <2>1, <2>2, <2>3
<1>6. CASE a = e
  <2>1. \A i \in 1 .. n : ~(v[i].ts <= x /\ x < v[i].end)
    BY <1>1, <1>3, <1>6
  <2> QED
    BY <1>1, <1>2, <1>6, <2>1 DEF Runs01
<1>7. CASE a = e + 1
  <2>1. a \in 1 .. n /\ v[a].ts <= x /\ ~(v[a].end <= x)
    BY <1>2, <1>3, <1>7
  <2>2. RunsType(t, x)
    BY <1>1, <2>1
  <2> QED
    BY <1>2, <1>7, <2>2 DEF Runs01
<1> QED
  BY <1>2, <1>4, <1>5, <1>6, <1>7

(* The sum is what the types running between two boundaries add up to.     *)
LEMMA SumBetween ==
  ASSUME IInv, todo = << >>, request \in {"overlap", "types", "types_with_memory"},
         left \subseteq Boundaries, NEW a, NEW e, Sweep(a, e), NEW x \in Int,
         \A b \in Boundaries : IF b \in left THEN x < b.time ELSE b.time <= x
  PROVE  SumAt(x) = running /\ running \in 0 .. 7
<1>1. \A t \in Range(Types(request)) : a[t] - e[t] = Runs01(t, x)
  <2> TAKE t \in Range(Types(request))
  <2>1. t \in Three
    BY Weights
  <2>2. a[t] \in Nat /\ e[t] \in Nat /\ Passed(t, a[t], e[t])
    BY <2>1 DEF Sweep
  <2> QED
    BY <2>2, OpenIsRunning
<1>2. \A t \in Three : Weight(t) * (a[t] - e[t]) = Weight(t) * Runs01(t, x)
  <2> TAKE t \in Three
  <2>1. CASE t \in Range(Types(request))
    BY <1>1, <2>1
  <2>2. CASE t \notin Range(Types(request))
    <3>1. Weight(t) = 0 /\ a[t] - e[t] = 0 /\ Runs01(t, x) \in {0, 1}
      BY <2>2 DEF Weight, Sweep, Runs01
    <3>2. \A r \in {0, 1} : 0 * 0 = 0 * r
      OBVIOUS
    <3> QED
      BY <3>1, <3>2
  <2> QED
    BY <2>1, <2>2
<1>3. "computation" \in Three /\ "communication" \in Three /\ "memory" \in Three
  BY DEF Three
<1>4. SumAt(x) = running
  BY <1>2, <1>3 DEF SumAt, Sweep
<1>5. SumAt(x) \in 0 .. 7
  <2>1. \A t \in Three : Weight(t) \in Nat /\ Runs01(t, x) \in {0, 1}
    BY Weights DEF Runs01
  <2>2. \A t \in Three : Weight(t) * Runs01(t, x) \in 0 .. Weight(t)
    <3>1. \A w \in Nat : \A r \in {0, 1} : w * r \in 0 .. w
      OBVIOUS
    <3> QED
      BY <2>1, <3>1
  <2>3. Weight("computation") + Weight("communication") + Weight("memory") <= 7
    BY Weights
  <2> QED
    BY <1>3, <2>1, <2>2, <2>3 DEF SumAt
<1> QED
  BY <1>4, <1>5

(* The boundary that is passed is the next of its type. *)
LEMMA NextUp ==
  ASSUME IInv, todo = << >>, left \subseteq Boundaries, NEW t \in Range(Types(request)),
         NEW a \in Nat, NEW e \in Nat, Passed(t, a, e), NEW i \in DOMAIN merged[t],
         Up(t, i) \in left, \A c \in left : Up(t, i).time <= c.time
  PROVE  i = a + 1
<1> DEFINE v == merged[t]
<1>1. /\ Len(v) \in Nat /\ i \in 1 .. Len(v) /\ DOMAIN v = 1 .. Len(v)
      /\ \A j \in 1 .. Len(v) : v[j].ts \in Int /\ v[j].end \in Int /\ v[j].ts <= v[j].end
      /\ \A j, k \in 1 .. Len(v) : j < k => v[j].end < v[k].ts
  BY SweptType
<1>2. i > a /\ a \in 0 .. Len(v)
  BY <1>1 DEF Passed
<1>3. ASSUME a + 1 < i PROVE FALSE
  <2>1. a + 1 \in 1 .. Len(v) /\ ~(a + 1 <= a)
    BY <1>1, <1>2, <1>3
  <2>2. Up(t, a + 1) \in left
    BY <1>1, <2>1 DEF Passed
  <2>3. v[i].ts <= v[a + 1].ts
    BY <2>2 DEF Up
  <2>4. v[a + 1].ts <= v[a + 1].end /\ v[a + 1].end < v[i].ts
    BY <1>1, <1>3, <2>1
  <2> QED
    BY <1>1, <2>1, <2>3, <2>4
<1> QED
  BY <1>1, <1>2, <1>3

LEMMA NextDown ==
  ASSUME IInv, todo = << >>, left \subseteq Boundaries, NEW t \in Range(Types(request)),
         NEW a \in Nat, NEW e \in Nat, Passed(t, a, e), NEW i \in DOMAIN merged[t],
         Down(t, i) \in left, \A c \in left : Down(t, i).time <= c.time
  PROVE  i = e + 1
<1> DEFINE v == merged[t]
<1>1. /\ Len(v) \in Nat /\ i \in 1 .. Len(v) /\ DOMAIN v = 1 .. Len(v)
      /\ \A j \in 1 .. Len(v) : v[j].ts \in Int /\ v[j].end \in Int /\ v[j].ts <= v[j].end
      /\ \A j, k \in 1 .. Len(v) : j < k => v[j].end < v[k].ts
  BY SweptType
<1>2. i > e /\ e \in 0 .. Len(v)
  BY <1>1 DEF Passed
<1>3. ASSUME e + 1 < i PROVE FALSE
  <2>1. e + 1 \in 1 .. Len(v) /\ ~(e + 1 <= e)
    BY <1>1, <1>2, <1>3
  <2>2. Down(t, e + 1) \in left
    BY <1>1, <2>1 DEF Passed
  <2>3. v[i].end <= v[e + 1].end
    BY <2>2 DEF Down
  <2>4. v[i].ts <= v[i].end /\ v[e + 1].end < v[i].ts
    BY <1>1, <1>3, <2>1
  <2> QED
    BY <1>1, <2>1, <2>3, <2>4
<1> QED
  BY <1>1, <1>2, <1>3

(* No two boundaries are the same. *)
LEMMA BoundariesDiffer ==
  ASSUME request \in {"overlap", "types", "types_with_memory"},
         NEW t \in Range(Types(request)), NEW u \in Range(Types(request)), NEW i, NEW j
  PROVE  /\ Up(t, i) = Up(u, j) => t = u /\ i = j
         /\ Down(t, i) = Down(u, j) => t = u /\ i = j
         /\ Up(t, i) # Down(u, j)
         /\ Up(t, i).change = Weight(t) /\ Down(t, i).change = -Weight(t) /\ Weight(t) \in Nat
<1>1. /\ Up(t, i).type = t /\ Up(t, i).number = i /\ Down(t, i).type = t /\ Down(t, i).number = i
      /\ Up(u, j).type = u /\ Up(u, j).number = j /\ Down(u, j).type = u /\ Down(u, j).number = j
  BY DEF Up, Down
<1>2. Up(t, i).change = Weight(t) /\ Down(u, j).change = -Weight(u) /\ Down(t, i).change = -Weight(t)
  BY DEF Up, Down, Weight
<1>3. \A w \in Range(Types(request)) : Weight(w) \in Nat \ {0}
  <2>1. Range(Types(request)) \subseteq Three
    BY Weights
  <2>2. CASE request = "overlap"
    <3>1. Types(request) = <<"computation", "communication">>
      BY <2>2 DEF Types
    <3>2. Range(Types(request)) = {"computation", "communication"}
      BY <3>1 DEF Range
    <3> QED
      BY <2>2, <3>2, Weights
  <2>3. CASE request = "types"
    <3>1. Types(request) = <<"computation", "communication">>
      BY <2>3 DEF Types
    <3>2. Range(Types(request)) = {"computation", "communication"}
      BY <3>1 DEF Range
    <3> QED
      BY <2>3, <3>2, Weights
  <2>4. CASE request = "types_with_memory"
    BY <2>1, <2>4, Weights DEF Three
  <2> QED
    BY <2>2, <2>3, <2>4
<1>4. ASSUME Up(t, i) = Down(u, j) PROVE FALSE
  <2>1. t = u /\ Weight(t) = -Weight(u)
    BY <1>1, <1>2, <1>4
  <2> QED
    BY <1>3, <2>1
<1> QED
  BY <1>1, <1>2, <1>3, <1>4

(* Passing a boundary keeps the count of what is open. *)
LEMMA SweepStep ==
  ASSUME IInv, PassBoundary, SweepInv
  PROVE  \E a, e : Sweep(a, e)'
<1>1. PICK b \in left : /\ \A c \in left : b.time <= c.time
                        /\ left' = left \ {b} /\ running' = running + b.change
  BY DEF PassBoundary
<1>2. /\ pc = "sweep" /\ todo = << >> /\ request \in {"overlap", "types", "types_with_memory"}
      /\ left \subseteq Boundaries /\ UNCHANGED <<request, merged>>
  BY DEF PassBoundary, SweepInv, input, merging
<1>3. PICK a, e : Sweep(a, e)
  BY <1>2 DEF SweepInv
<1>3a. PICK t \in Range(Types(request)) : \E i \in DOMAIN merged[t] : b = Up(t, i) \/ b = Down(t, i)
  BY <1>1, <1>2, BoundaryCases
<1>4. PICK i \in DOMAIN merged[t] : b = Up(t, i) \/ b = Down(t, i)
  BY <1>3a
<1>5. /\ Range(Types(request)) \subseteq Three /\ \A u \in Three : Weight(u) \in Nat /\ Weight(u)' = Weight(u)
      /\ Three = {"computation", "communication", "memory"}
  BY <1>2, Weights DEF Three, Weight
<1>6. /\ a \in [Three -> Nat] /\ e \in [Three -> Nat] /\ t \in Three
      /\ \A u \in Range(Types(request)) : Passed(u, a[u], e[u])
      /\ \A u \in Three \ Range(Types(request)) : a[u] = 0 /\ e[u] = 0
  BY <1>3, <1>5 DEF Sweep
<1>7. \A u, j : Up(u, j)' = Up(u, j) /\ Down(u, j)' = Down(u, j)
  BY <1>2 DEF Up, Down
<1>8. running = Weight("computation") * (a["computation"] - e["computation"])
                + Weight("communication") * (a["communication"] - e["communication"])
                + Weight("memory") * (a["memory"] - e["memory"])
  BY <1>3 DEF Sweep
<1>9. Len(merged[t]) \in Nat /\ DOMAIN merged[t] = 1 .. Len(merged[t])
  BY <1>2, SweptType
<1>10. \A w \in Nat : \A m, n \in Nat : w * (m + 1 - n) = w * (m - n) + w
                                     /\ w * (m - (n + 1)) = w * (m - n) - w /\ w * (m - n) \in Int
  OBVIOUS
<1>11. CASE b = Up(t, i)
  <2> DEFINE a2 == [a EXCEPT ![t] = a[t] + 1]
  <2>1. i = a[t] + 1
    BY <1>1, <1>2, <1>6, <1>11, NextUp
  <2>2. /\ a2 \in [Three -> Nat] /\ a2[t] = a[t] + 1 /\ \A u \in Three : u # t => a2[u] = a[u]
    BY <1>6
  <2>3. b.change = Weight(t)
    BY <1>2, <1>11, BoundariesDiffer
  <2>4. ASSUME NEW u \in Range(Types(request)) PROVE Passed(u, a2[u], e[u])'
    <3>1. \A j : /\ Up(u, j) \in left' <=> Up(u, j) \in left /\ ~(u = t /\ j = i)
                 /\ Down(u, j) \in left' <=> Down(u, j) \in left
      BY <1>1, <1>2, <1>11, BoundariesDiffer
    <3>2. CASE u = t
      BY <1>2, <1>6, <1>7, <1>9, <2>1, <2>2, <3>1, <3>2 DEF Passed
    <3>3. CASE u # t
      BY <1>2, <1>5, <1>6, <1>7, <2>2, <3>1, <3>3 DEF Passed
    <3> QED
      BY <3>2, <3>3
  <2>5. \A u \in Three \ Range(Types(request)) : a2[u] = 0 /\ e[u] = 0
    BY <1>6, <2>2
  <2>6. running' = Weight("computation") * (a2["computation"] - e["computation"])
                + Weight("communication") * (a2["communication"] - e["communication"])
                + Weight("memory") * (a2["memory"] - e["memory"])
    <3> DEFINE term(u) == Weight(u) * (a[u] - e[u])
               term2(u) == Weight(u) * (a2[u] - e[u])
    <3>1. \A u \in Three : term(u) \in Int /\ term2(u) = IF u = t THEN term(u) + Weight(u) ELSE term(u)
      BY <1>5, <1>6, <1>10, <2>2
    <3>2. running = term("computation") + term("communication") + term("memory")
      BY <1>8
    <3> HIDE DEF term, term2
    <3>3. running' = term2("computation") + term2("communication") + term2("memory")
      BY <1>1, <1>5, <1>6, <2>3, <3>1, <3>2
    <3> QED
      BY <3>3 DEF term2
  <2> HIDE DEF a2
  <2>7. Sweep(a2, e)'
    BY <1>2, <1>5, <1>6, <2>2, <2>4, <2>5, <2>6 DEF Sweep
  <2> QED
    BY <2>7
<1>12. CASE b = Down(t, i)
  <2> DEFINE e2 == [e EXCEPT ![t] = e[t] + 1]
  <2>1. i = e[t] + 1
    BY <1>1, <1>2, <1>6, <1>12, NextDown
  <2>2. /\ e2 \in [Three -> Nat] /\ e2[t] = e[t] + 1 /\ \A u \in Three : u # t => e2[u] = e[u]
    BY <1>6
  <2>3. b.change = -Weight(t)
    BY <1>2, <1>12, BoundariesDiffer
  <2>4. ASSUME NEW u \in Range(Types(request)) PROVE Passed(u, a[u], e2[u])'
    <3>1. \A j : /\ Up(u, j) \in left' <=> Up(u, j) \in left
                 /\ Down(u, j) \in left' <=> Down(u, j) \in left /\ ~(u = t /\ j = i)
      BY <1>1, <1>2, <1>12, BoundariesDiffer
    <3>2. CASE u = t
      BY <1>2, <1>6, <1>7, <1>9, <2>1, <2>2, <3>1, <3>2 DEF Passed
    <3>3. CASE u # t
      BY <1>2, <1>5, <1>6, <1>7, <2>2, <3>1, <3>3 DEF Passed
    <3> QED
      BY <3>2, <3>3
  <2>5. \A u \in Three \ Range(Types(request)) : a[u] = 0 /\ e2[u] = 0
    BY <1>6, <2>2
  <2>6. running' = Weight("computation") * (a["computation"] - e2["computation"])
                + Weight("communication") * (a["communication"] - e2["communication"])
                + Weight("memory") * (a["memory"] - e2["memory"])
    <3> DEFINE term(u) == Weight(u) * (a[u] - e[u])
               term2(u) == Weight(u) * (a[u] - e2[u])
    <3>1. \A u \in Three : term(u) \in Int /\ term2(u) = IF u = t THEN term(u) - Weight(u) ELSE term(u)
      BY <1>5, <1>6, <1>10, <2>2
    <3>2. running = term("computation") + term("communication") + term("memory")
      BY <1>8
    <3> HIDE DEF term, term2
    <3>3. running' = term2("computation") + term2("communication") + term2("memory")
      BY <1>1, <1>5, <1>6, <2>3, <3>1, <3>2
    <3> QED
      BY <3>3 DEF term2
  <2> HIDE DEF e2
  <2>7. Sweep(a, e2)'
    BY <1>2, <1>5, <1>6, <2>2, <2>4, <2>5, <2>6 DEF Sweep
  <2> QED
    BY <2>7
<1> QED
  BY <1>4, <1>11, <1>12

LEMMA BoundaryTimes ==
  ASSUME IInv, todo = << >>, NEW b \in Boundaries
  PROVE  b.time \in Int
<1>1. PICK t \in Range(Types(request)) : \E i \in DOMAIN merged[t] : b = Up(t, i) \/ b = Down(t, i)
  BY BoundaryCases
<1>2. PICK i \in DOMAIN merged[t] : b = Up(t, i) \/ b = Down(t, i)
  BY <1>1
<1>3. merged[t][i].ts \in Int /\ merged[t][i].end \in Int
  BY SweptType
<1>4. Up(t, i).time = merged[t][i].ts /\ Down(t, i).time = merged[t][i].end
  BY DEF Up, Down
<1> QED
  BY <1>2, <1>3, <1>4

(* At no time is more than one interval of a type open, and where the      *)
(* boundaries of one time are passed in a bad order, at most one is closed *)
(* before it is opened.                                                    *)
LEMMA SumBounded ==
  ASSUME IInv, todo = << >>, request \in {"overlap", "types", "types_with_memory"},
         left \subseteq Boundaries, NEW a, NEW e, Sweep(a, e),
         now = None => left = Boundaries,
         now # None =>
           now \in Int /\ \A b \in Boundaries : IF b \in left THEN now <= b.time ELSE b.time <= now
  PROVE  running \in -7 .. 7 /\ (now = None => running = 0)
<1>1. ASSUME NEW t \in Range(Types(request))
      PROVE  a[t] - e[t] \in -1 .. 1 /\ (now = None => a[t] - e[t] = 0)
  <2> DEFINE v == merged[t]
             n == Len(v)
  <2>1. /\ n \in Nat /\ DOMAIN v = 1 .. n
        /\ \A i \in 1 .. n : v[i].ts \in Int /\ v[i].end \in Int /\ v[i].ts <= v[i].end
        /\ \A i, j \in 1 .. n : i < j => v[i].end < v[j].ts
    BY SweptType
  <2>2. t \in Three
    BY Weights
  <2>3. /\ a[t] \in 0 .. n /\ e[t] \in 0 .. n
        /\ \A i \in 1 .. n : (Up(t, i) \notin left <=> i <= a[t]) /\ (Down(t, i) \notin left <=> i <= e[t])
    BY <2>1, <2>2 DEF Sweep, Passed
  <2>4. \A i \in 1 .. n : /\ Up(t, i) \in Boundaries /\ Up(t, i).time = v[i].ts
                          /\ Down(t, i) \in Boundaries /\ Down(t, i).time = v[i].end
    BY <2>1, BoundariesAre DEF Up, Down
  <2> HIDE DEF v, n
  <2>5. CASE now = None
    <3>1. \A i \in 1 .. n : ~(i <= a[t]) /\ ~(i <= e[t])
      BY <2>3, <2>4, <2>5
    <3>2. a[t] = 0 /\ e[t] = 0
      BY <2>1, <2>3, <3>1
    <3> QED
      BY <3>2
  <2>6. CASE now # None
    <3>1. now \in Int /\ \A i \in 1 .. n : /\ IF i <= a[t] THEN v[i].ts <= now ELSE now <= v[i].ts
                                           /\ IF i <= e[t] THEN v[i].end <= now ELSE now <= v[i].end
      BY <2>3, <2>4, <2>6
    <3>2. ASSUME a[t] > e[t] + 1 PROVE FALSE
      <4>1. a[t] \in 1 .. n /\ e[t] + 1 \in 1 .. n /\ e[t] + 1 < a[t] /\ a[t] <= a[t] /\ ~(e[t] + 1 <= e[t])
        BY <2>1, <2>3, <3>2
      <4>2. v[a[t]].ts <= now /\ now <= v[e[t] + 1].end
        BY <3>1, <4>1
      <4>3. v[e[t] + 1].end < v[a[t]].ts /\ v[a[t]].ts \in Int /\ v[e[t] + 1].end \in Int
        BY <2>1, <4>1
      <4> QED
        BY <3>1, <4>2, <4>3
    <3>3. ASSUME e[t] > a[t] + 1 PROVE FALSE
      <4>1. e[t] \in 1 .. n /\ a[t] + 1 \in 1 .. n /\ a[t] + 1 < e[t] /\ e[t] <= e[t] /\ ~(a[t] + 1 <= a[t])
        BY <2>1, <2>3, <3>3
      <4>2. v[e[t]].end <= now /\ now <= v[a[t] + 1].ts
        BY <3>1, <4>1
      <4>3. /\ v[a[t] + 1].end < v[e[t]].ts /\ v[a[t] + 1].ts <= v[a[t] + 1].end /\ v[e[t]].ts <= v[e[t]].end
            /\ v[e[t]].ts \in Int /\ v[e[t]].end \in Int /\ v[a[t] + 1].ts \in Int /\ v[a[t] + 1].end \in Int
        BY <2>1, <4>1
      <4> QED
        BY <3>1, <4>2, <4>3
    <3> QED
      BY <2>3, <2>6, <3>2, <3>3
  <2> QED
    BY <2>5, <2>6
<1> DEFINE term(t) == Weight(t) * (a[t] - e[t])
<1>2. \A w \in Nat : \A d \in -1 .. 1 : w * d \in -w .. w /\ (d = 0 => w * d = 0)
  OBVIOUS
<1>3. \A t \in Three : Weight(t) \in Nat
  BY Weights
<1>4. \A t \in Three : term(t) \in -Weight(t) .. Weight(t) /\ (now = None => term(t) = 0)
  <2> TAKE t \in Three
  <2>1. CASE t \in Range(Types(request))
    BY <1>1, <1>2, <1>3, <2>1
  <2>2. CASE t \notin Range(Types(request))
    <3>1. a[t] - e[t] = 0
      BY <2>2 DEF Sweep
    <3> QED
      BY <1>2, <1>3, <3>1
  <2> QED
    BY <2>1, <2>2
<1>5. running = term("computation") + term("communication") + term("memory")
  BY DEF Sweep
<1>6. Weight("computation") + Weight("communication") + Weight("memory") <= 7
  BY Weights
<1>7. "computation" \in Three /\ "communication" \in Three /\ "memory" \in Three
  BY DEF Three
<1> HIDE DEF term
<1>8. \A p, q, r \in Nat : p + q + r <= 7 =>
        \A x \in -p .. p, y \in -q .. q, z \in -r .. r : x + y + z \in -7 .. 7
  OBVIOUS
<1>9. running \in -7 .. 7
  BY <1>3, <1>4, <1>5, <1>6, <1>7, <1>8
<1>10. now = None => running = 0
  BY <1>4, <1>5, <1>7
<1> QED
  BY <1>9, <1>10

(* A moment at which a type of the request runs is one of the trace. *)
LEMMA SumInPoints ==
  ASSUME IInv, todo = << >>, request \in {"overlap", "types", "types_with_memory"},
         NEW x \in Int, SumAt(x) # 0
  PROVE  x \in Points
<1> SUFFICES ASSUME x \notin Points PROVE FALSE
  OBVIOUS
<1>1. \A t \in Three : Weight(t) * Runs01(t, x) = 0
  <2> TAKE t \in Three
  <2>1. Weight(t) \in Nat
    BY Weights
  <2>2. CASE t \in Range(Types(request))
    <3>1. ~RunsType(t, x)
      BY <2>2, MergedTotal
    <3> QED
      BY <2>1, <3>1 DEF Runs01
  <2>3. CASE t \notin Range(Types(request))
    <3>1. Weight(t) = 0 /\ Runs01(t, x) \in {0, 1}
      BY <2>3 DEF Weight, Runs01
    <3> QED
      BY <3>1
  <2> QED
    BY <2>2, <2>3
<1>2. SumAt(x) = 0
  BY <1>1 DEF SumAt, Three
<1> QED
  BY <1>2

LEMMA SumStays ==
  ASSUME UNCHANGED <<trace, request>>
  PROVE  \A x : SumAt(x)' = SumAt(x)
<1>1. \A t : Weight(t)' = Weight(t)
  BY DEF Weight
<1>2. \A t, x : Runs01(t, x)' = Runs01(t, x)
  BY DEF Runs01, RunsType
<1> QED
  BY <1>1, <1>2 DEF SumAt

LEMMA PassBoundaryStep ==
  ASSUME IInv, SweepInv, PassBoundary
  PROVE  SweepInv'
<1>1. PICK b \in left :
        /\ \A c \in left : b.time <= c.time
        /\ left' = left \ {b} /\ now' = b.time
        /\ spent' = IF running > 0 THEN [spent EXCEPT ![running] = @ + b.time - now] ELSE spent
  BY DEF PassBoundary
<1>2. pc = "sweep" /\ UNCHANGED <<pc, trace, request, todo, merged>>
  BY DEF PassBoundary, input, merging
<1>3. /\ todo = << >> /\ request \in {"overlap", "types", "types_with_memory"}
      /\ left \subseteq Boundaries
      /\ now = None => left = Boundaries
      /\ now # None =>
           now \in Int /\ \A c \in Boundaries : IF c \in left THEN now <= c.time ELSE c.time <= now
      /\ spent \in [1 .. 7 -> Nat] /\ \A s \in 1 .. 7 : spent[s] = Cardinality(SoFar(s))
  BY <1>2 DEF SweepInv
<1>4. PICK a, e : Sweep(a, e)
  BY <1>2 DEF SweepInv
<1>5. /\ \A c \in Boundaries : c.time \in Int
      /\ b.time \in Int /\ b.time # None /\ b \in Boundaries
  BY <1>1, <1>3, BoundaryTimes, NoneAssumption
<1>6. Boundaries' = Boundaries
  BY <1>2 DEF Boundaries
<1>7. running \in -7 .. 7 /\ (now = None => running = 0)
  BY <1>3, <1>4, SumBounded
<1>8. now # None => now \in Int /\ now <= b.time
  BY <1>1, <1>3, <1>5
<1> DEFINE fresh(s) == {x \in Points : (now = None \/ now <= x) /\ x < b.time /\ SumAt(x) = s}
<1>9. \A s : SoFar(s)' = SoFar(s) \cup fresh(s)
  <2> TAKE s
  <2>1. \A x : SumAt(x)' = SumAt(x)
    BY <1>2, SumStays
  <2>2. SoFar(s)' = {x \in Points : x < b.time /\ SumAt(x) = s}
    BY <1>1, <1>5, <2>1 DEF SoFar
  <2>3. \A x \in Points : x \in Int
    BY PointsAssumption
  <2>4. \A x \in Points : x < b.time <=> (now # None /\ x < now) \/ ((now = None \/ now <= x) /\ x < b.time)
    BY <1>5, <1>8, <2>3
  <2> HIDE DEF SumAt
  <2> QED
    BY <2>2, <2>4 DEF SoFar
<1>10. ASSUME NEW x \in Int, now = None \/ now <= x, x < b.time
       PROVE  SumAt(x) = running
  <2>1. ASSUME NEW c \in Boundaries PROVE IF c \in left THEN x < c.time ELSE c.time <= x
    <3>1. c.time \in Int
      BY <1>5
    <3>2. CASE c \in left
      BY <1>1, <1>5, <1>10, <3>1, <3>2
    <3>3. CASE c \notin left
      <4>1. now # None /\ now \in Int /\ c.time <= now
        BY <1>3, <3>3
      <4> QED
        BY <1>10, <3>1, <3>3, <4>1
    <3> QED
      BY <3>2, <3>3
  <2> QED
    BY <1>3, <1>4, <2>1, SumBetween
<1>11. ASSUME NEW s \in 1 .. 7 PROVE spent'[s] = Cardinality(SoFar(s)') /\ spent'[s] \in Nat
  <2>1. spent[s] = Cardinality(SoFar(s)) /\ spent[s] \in Nat
    BY <1>3
  <2>2. CASE s = running
    <3>1. now \in Int /\ now <= b.time /\ now # None
      BY <1>7, <1>8, <2>2
    <3>2. fresh(s) = now .. (b.time - 1)
      <4>1. ASSUME NEW x \in fresh(s) PROVE x \in now .. (b.time - 1)
        <5>1. x \in Int
          BY PointsAssumption
        <5> QED
          BY <1>5, <3>1, <5>1
      <4>2. ASSUME NEW x \in now .. (b.time - 1) PROVE x \in fresh(s)
        <5>1. x \in Int /\ now <= x /\ x < b.time
          BY <1>5, <3>1
        <5>2. SumAt(x) = s /\ SumAt(x) # 0
          BY <1>10, <2>2, <5>1
        <5>3. x \in Points
          BY <1>3, <5>1, <5>2, SumInPoints
        <5> QED
          BY <5>1, <5>2, <5>3
      <4> QED
        BY <4>1, <4>2
    <3>3. IsFiniteSet(fresh(s)) /\ Cardinality(fresh(s)) = b.time - now
      <4>1. b.time - 1 \in Int
        BY <1>5
      <4>2. /\ IsFiniteSet(now .. (b.time - 1))
            /\ Cardinality(now .. (b.time - 1))
                 = IF now > b.time - 1 THEN 0 ELSE (b.time - 1) - now + 1
        BY <3>1, <4>1, FS_Interval
      <4>3. (IF now > b.time - 1 THEN 0 ELSE (b.time - 1) - now + 1) = b.time - now
        BY <1>5, <3>1
      <4>4. Cardinality(now .. (b.time - 1)) = b.time - now
        BY <4>2, <4>3
      <4> HIDE DEF fresh
      <4> QED
        BY <3>2, <4>2, <4>4, Zenon
    <3>4. IsFiniteSet(SoFar(s))
      BY PointsAssumption, FS_Subset DEF SoFar
    <3>5. SoFar(s) \cap fresh(s) = {}
      <4>1. \A x \in Points : x \in Int
        BY PointsAssumption
      <4> QED
        BY <3>1, <4>1 DEF SoFar
    <3> HIDE DEF fresh
    <3>6. Cardinality(SoFar(s) \cup fresh(s)) = spent[s] + (b.time - now)
      <4>1. Cardinality(SoFar(s) \cup fresh(s))
              = Cardinality(SoFar(s)) + Cardinality(fresh(s)) - Cardinality(SoFar(s) \cap fresh(s))
        BY <3>3, <3>4, FS_Union
      <4>2. Cardinality(SoFar(s) \cap fresh(s)) = 0
        BY <3>5, FS_EmptySet
      <4>3. Cardinality(SoFar(s) \cup fresh(s)) = spent[s] + (b.time - now) - 0
        BY <2>1, <3>3, <4>1, <4>2
      <4>4. b.time - now \in Int
        BY <1>5, <3>1
      <4> QED
        BY <2>1, <4>3, <4>4
    <3>7. spent'[s] = spent[s] + b.time - now
      BY <1>1, <1>3, <2>2
    <3>8. spent[s] + b.time - now = spent[s] + (b.time - now) /\ spent[s] + (b.time - now) \in Nat
      BY <1>5, <2>1, <3>1
    <3>9. Cardinality(SoFar(s)') = spent[s] + (b.time - now)
      BY <1>9, <3>6
    <3> QED
      BY <3>7, <3>8, <3>9
  <2>3. CASE s # running
    <3>1. fresh(s) = {}
      <4> SUFFICES ASSUME NEW x \in fresh(s) PROVE FALSE
        OBVIOUS
      <4>1. x \in Int
        BY PointsAssumption
      <4> QED
        BY <1>10, <2>3, <4>1
    <3>2. spent'[s] = spent[s]
      BY <1>1, <1>3, <2>3
    <3> QED
      BY <1>9, <2>1, <3>1, <3>2
  <2> QED
    BY <2>2, <2>3
<1>12. spent' \in [1 .. 7 -> Nat]
  <2>1. DOMAIN spent' = 1 .. 7 /\ spent' = [s \in 1 .. 7 |-> spent'[s]]
    BY <1>1, <1>3
  <2> QED
    BY <1>11, <2>1
<1>13. \A c \in Boundaries : IF c \in left' THEN now' <= c.time ELSE c.time <= now'
  <2> TAKE c \in Boundaries
  <2>1. CASE c \in left'
    BY <1>1, <2>1
  <2>2. CASE c \notin left'
    <3>1. c = b \/ c \notin left
      BY <1>1, <2>2
    <3>2. c \notin left => now # None /\ now \in Int /\ c.time <= now
      BY <1>3
    <3>3. c.time <= b.time
      BY <1>5, <1>8, <3>1, <3>2
    <3> QED
      BY <1>1, <2>2, <3>3
  <2> QED
    BY <2>1, <2>2
<1>14. \E x, y : Sweep(x, y)'
  BY SweepStep
<1> HIDE DEF fresh
<1> QED
  BY <1>1, <1>2, <1>3, <1>5, <1>6, <1>11, <1>12, <1>13, <1>14 DEF SweepInv

LEMMA StartSweepStep ==
  ASSUME IInv, SweepInv, StartSweep
  PROVE  SweepInv'
<1>1. /\ pc = "frames" /\ todo = << >> /\ request \in {"overlap", "types", "types_with_memory"}
      /\ left' = Boundaries /\ pc' = "sweep"
      /\ UNCHANGED <<trace, request, todo, merged, now, running, spent>>
  BY DEF StartSweep, input, merging, sweeping
<1>2. now = None /\ running = 0 /\ spent = [s \in 1 .. 7 |-> 0]
  BY <1>1 DEF SweepInv
<1>3. Boundaries' = Boundaries
  BY <1>1 DEF Boundaries
<1> DEFINE z == [t \in Three |-> 0]
<1>4. Sweep(z, z)'
  <2>1. z \in [Three -> Nat] /\ \A t \in Three : z[t] = 0
    OBVIOUS
  <2>2. ASSUME NEW t \in Range(Types(request)) PROVE Passed(t, z[t], z[t])'
    <3>1. t \in Three
      BY <1>1, Weights
    <3>2. Len(merged[t]) \in Nat /\ DOMAIN merged[t] = 1 .. Len(merged[t])
      BY <1>1, SweptType
    <3>3. \A i \in DOMAIN merged[t] : Up(t, i) \in Boundaries /\ Down(t, i) \in Boundaries
      BY BoundariesAre
    <3>4. \A i : Up(t, i)' = Up(t, i) /\ Down(t, i)' = Down(t, i)
      BY <1>1 DEF Up, Down
    <3>5. \A i \in DOMAIN merged[t] : ~(i <= 0)
      BY <3>2
    <3> HIDE DEF z
    <3> QED
      BY <1>1, <2>1, <3>1, <3>2, <3>3, <3>4, <3>5 DEF Passed
  <2>3. \A t \in Three : Weight(t) \in Nat /\ Weight(t)' = Weight(t)
    BY <1>1, Weights DEF Weight
  <2>4. "computation" \in Three /\ "communication" \in Three /\ "memory" \in Three
    BY DEF Three
  <2> HIDE DEF z
  <2>5. 0 = Weight("computation") * (z["computation"] - z["computation"])
              + Weight("communication") * (z["communication"] - z["communication"])
              + Weight("memory") * (z["memory"] - z["memory"])
    <3>1. \A w \in Nat : w * (0 - 0) = 0
      OBVIOUS
    <3> QED
      BY <2>1, <2>3, <2>4, <3>1
  <2> QED
    BY <1>1, <1>2, <2>1, <2>2, <2>3, <2>4, <2>5 DEF Sweep
<1>5. \A s \in 1 .. 7 : spent'[s] = Cardinality(SoFar(s)')
  <2> TAKE s \in 1 .. 7
  <2>1. SoFar(s)' = {}
    BY <1>1, <1>2 DEF SoFar
  <2> QED
    BY <1>1, <1>2, <2>1, FS_EmptySet
<1> HIDE DEF z
<1>6. spent' \in [1 .. 7 -> Nat]
  BY <1>1, <1>2
<1>7. \E x, y : Sweep(x, y)'
  BY <1>4
<1> QED
  BY <1>1, <1>2, <1>3, <1>5, <1>6, <1>7 DEF SweepInv

LEMMA SweepInit == Init => SweepInv
  BY DEF Init, SweepInv

LEMMA SweepNext == IInv /\ SweepInv /\ [Next]_vars => SweepInv'
<1> SUFFICES ASSUME IInv, SweepInv, [Next]_vars PROVE SweepInv'
  OBVIOUS
<1>1. CASE NextFrame \/ MergeRow \/ FinishFrame
  <2>1. pc \in {"frames", "merge"} /\ pc' \in {"frames", "merge"} /\ UNCHANGED <<now, running, spent>>
    BY <1>1 DEF NextFrame, MergeRow, FinishFrame, sweeping
  <2> QED
    BY <2>1 DEF SweepInv
<1>2. CASE StartSweep
  BY <1>2, StartSweepStep
<1>3. CASE PassBoundary
  BY <1>3, PassBoundaryStep
<1>4. CASE Temporal \/ FinishSweep \/ StartIdle \/ NextStream \/ PassKernel \/ FinishStream
  <2>1. pc' \in {"returned", "raised", "asserted", "streams", "stream"}
    BY <1>4 DEF Temporal, FinishSweep, StartIdle, NextStream, PassKernel, FinishStream
  <2> QED
    BY <2>1 DEF SweepInv
<1>5. CASE UNCHANGED vars
  <2>1. UNCHANGED <<trace, request, pc, left, todo, merged, now, running, spent>>
    BY <1>5 DEF vars, input, merging, sweeping
  <2>2. Boundaries' = Boundaries
    BY <2>1 DEF Boundaries
  <2>3. \A s : SoFar(s)' = SoFar(s)
    <3>1. \A x : SumAt(x)' = SumAt(x)
      BY <2>1, SumStays
    <3> HIDE DEF SumAt
    <3> QED
      BY <2>1, <3>1 DEF SoFar
  <2>4. \A t, x, y : Passed(t, x, y)' <=> Passed(t, x, y)
    <3>1. \A t, i : Up(t, i)' = Up(t, i) /\ Down(t, i)' = Down(t, i)
      BY <2>1 DEF Up, Down
    <3> QED
      BY <2>1, <3>1 DEF Passed
  <2>5. \A x, y : Sweep(x, y)' <=> Sweep(x, y)
    <3>1. \A t : Weight(t)' = Weight(t)
      BY <2>1 DEF Weight
    <3> QED
      BY <2>1, <2>4, <3>1 DEF Sweep
  <2> QED
    BY <2>1, <2>2, <2>3, <2>5 DEF SweepInv
<1> QED
  BY <1>1, <1>2, <1>3, <1>4, <1>5 DEF Next

(* After the last boundary the time spent with a sum is all the time at    *)
(* which the types that run add up to it.                                  *)
LEMMA SpentIsExact ==
  ASSUME IInv, SweepInv, pc = "sweep", left = {}, NEW s \in 1 .. 7
  PROVE  spent[s] = Cardinality({x \in Points : SumAt(x) = s})
<1>1. /\ todo = << >> /\ request \in {"overlap", "types", "types_with_memory"}
      /\ left \subseteq Boundaries /\ spent[s] = Cardinality(SoFar(s))
      /\ now = None => Boundaries = {}
      /\ now # None => now \in Int /\ \A c \in Boundaries : c.time <= now
  BY DEF SweepInv
<1>2. PICK a, e : Sweep(a, e)
  BY DEF SweepInv
<1>3. \A t \in Three : a[t] - e[t] = 0
  <2> TAKE t \in Three
  <2>1. CASE t \in Range(Types(request))
    <3>1. Len(merged[t]) \in Nat /\ DOMAIN merged[t] = 1 .. Len(merged[t])
      BY <1>1, <2>1, SweptType
    <3>2. /\ a[t] \in 0 .. Len(merged[t]) /\ e[t] \in 0 .. Len(merged[t])
          /\ \A i \in 1 .. Len(merged[t]) : i <= a[t] /\ i <= e[t]
      BY <1>2, <2>1, <3>1 DEF Sweep, Passed
    <3>3. a[t] = Len(merged[t]) /\ e[t] = Len(merged[t])
      BY <3>1, <3>2
    <3> QED
      BY <3>1, <3>3
  <2>2. CASE t \notin Range(Types(request))
    BY <1>2, <2>2 DEF Sweep
  <2> QED
    BY <2>1, <2>2
<1>4. running = 0
  <2>1. \A w \in Nat : w * 0 = 0
    OBVIOUS
  <2>2. \A t \in Three : Weight(t) * (a[t] - e[t]) = 0
    BY <1>1, <1>3, <2>1, Weights
  <2> QED
    BY <1>2, <2>2 DEF Sweep, Three
<1>5. ASSUME NEW x \in Points, SumAt(x) = s PROVE now # None /\ x < now
  <2>1. x \in Int
    BY PointsAssumption
  <2> SUFFICES ASSUME ~(now # None /\ x < now) PROVE FALSE
    OBVIOUS
  <2>2. \A c \in Boundaries : IF c \in left THEN x < c.time ELSE c.time <= x
    <3> TAKE c \in Boundaries
    <3>1. now # None /\ now \in Int /\ c.time <= now /\ c.time \in Int /\ c \notin left
      BY <1>1, BoundaryTimes
    <3> QED
      BY <2>1, <3>1
  <2>3. SumAt(x) = running
    BY <1>1, <1>2, <2>1, <2>2, SumBetween
  <2> QED
    BY <1>4, <1>5, <2>3
<1>6. SoFar(s) = {x \in Points : SumAt(x) = s}
  <2> HIDE DEF SumAt
  <2> QED
    BY <1>5 DEF SoFar
<1> QED
  BY <1>1, <1>6

(* Which types run can be read off the sum. *)
LEMMA SumIsJust ==
  ASSUME NEW s \in 1 .. 7, NEW x
  PROVE  /\ request = "types" => IF s < 4 THEN SumAt(x) = s <=> RunsJust(s, x) ELSE SumAt(x) # s
         /\ request = "types_with_memory" => (SumAt(x) = s <=> RunsJust(s, x))
         /\ request = "overlap" => (SumAt(x) = 3 <=> RunsJust(3, x))
<1> DEFINE p == Runs01("computation", x)
           q == Runs01("communication", x)
           r == Runs01("memory", x)
<1>1. p \in {0, 1} /\ q \in {0, 1} /\ r \in {0, 1}
  BY DEF Runs01
<1>2. /\ RunsType("computation", x) <=> p = 1
      /\ RunsType("communication", x) <=> q = 1
      /\ RunsType("memory", x) <=> r = 1
  BY DEF Runs01
<1>3. SumAt(x) = Weight("computation") * p + Weight("communication") * q + Weight("memory") * r
  BY DEF SumAt
<1>4. Digit[1] = 1 /\ Digit[2] = 2 /\ Digit[3] = 4
  BY DEF Digit
<1> HIDE DEF p, q, r
<1>5. ASSUME request \in {"overlap", "types"}, NEW n \in 1 .. 7
      PROVE  RunsJust(n, x) <=> (p = 1 <=> (n \div 1) % 2 = 1) /\ (q = 1 <=> (n \div 2) % 2 = 1)
  <2>1. Types(request) = <<"computation", "communication">>
    BY <1>5 DEF Types
  <2>2. /\ DOMAIN Types(request) = {1, 2}
        /\ Types(request)[1] = "computation" /\ Types(request)[2] = "communication"
    <3>1. /\ DOMAIN <<"computation", "communication">> = {1, 2}
          /\ <<"computation", "communication">>[1] = "computation"
          /\ <<"computation", "communication">>[2] = "communication"
      OBVIOUS
    <3> QED
      BY <2>1, <3>1, Zenon
  <2> QED
    BY <1>2, <1>4, <2>2 DEF RunsJust
<1>6. ASSUME request = "types_with_memory", NEW n \in 1 .. 7
      PROVE  RunsJust(n, x) <=> /\ p = 1 <=> (n \div 1) % 2 = 1
                                /\ q = 1 <=> (n \div 2) % 2 = 1
                                /\ r = 1 <=> (n \div 4) % 2 = 1
  <2>1. Types(request) = <<"computation", "communication", "memory">>
    BY <1>6 DEF Types
  <2>2. /\ DOMAIN Types(request) = {1, 2, 3} /\ Types(request)[1] = "computation"
        /\ Types(request)[2] = "communication" /\ Types(request)[3] = "memory"
    <3>1. /\ DOMAIN <<"computation", "communication", "memory">> = {1, 2, 3}
          /\ <<"computation", "communication", "memory">>[1] = "computation"
          /\ <<"computation", "communication", "memory">>[2] = "communication"
          /\ <<"computation", "communication", "memory">>[3] = "memory"
      OBVIOUS
    <3> QED
      BY <2>1, <3>1, Zenon
  <2> QED
    BY <1>2, <1>4, <2>2 DEF RunsJust
<1>7. CASE request = "types"
  <2>1. SumAt(x) = p + 2 * q
    <3>1. 1 * p + 2 * q + 0 * r = p + 2 * q
      BY <1>1
    <3> QED
      BY <1>3, <1>7, <3>1, Weights
  <2>2. RunsJust(s, x) <=> (p = 1 <=> (s \div 1) % 2 = 1) /\ (q = 1 <=> (s \div 2) % 2 = 1)
    BY <1>5, <1>7
  <2> QED
    BY <1>1, <1>7, <2>1, <2>2
<1>8. CASE request = "types_with_memory"
  <2>1. SumAt(x) = p + 2 * q + 4 * r
    <3>1. 1 * p + 2 * q + 4 * r = p + 2 * q + 4 * r
      BY <1>1
    <3> QED
      BY <1>3, <1>8, <3>1, Weights
  <2>2. RunsJust(s, x) <=> /\ p = 1 <=> (s \div 1) % 2 = 1
                           /\ q = 1 <=> (s \div 2) % 2 = 1
                           /\ r = 1 <=> (s \div 4) % 2 = 1
    BY <1>6, <1>8
  <2> QED
    BY <1>1, <1>8, <2>1, <2>2
<1>9. CASE request = "overlap"
  <2>1. SumAt(x) = 2 * p + q
    <3>1. 2 * p + 1 * q + 0 * r = 2 * p + q
      BY <1>1
    <3> QED
      BY <1>3, <1>9, <3>1, Weights
  <2>2. RunsJust(3, x) <=> (p = 1 <=> (3 \div 1) % 2 = 1) /\ (q = 1 <=> (3 \div 2) % 2 = 1)
    BY <1>5, <1>9
  <2> QED
    BY <1>1, <1>9, <2>1, <2>2
<1> QED
  BY <1>7, <1>8, <1>9

-----------------------------------------------------------------------------
(* What kinds of values the variables hold                                 *)

StreamNames == {r.stream : r \in trace}

KindInv ==
  /\ pc \in {"frames", "merge", "sweep", "streams", "stream", "returned", "raised", "asserted"}
  /\ pc \in {"streams", "stream"} => request = "idle"
  /\ \E i \in 0 .. Len(Types(request)) : todo = SubSeq(Types(request), i + 1, Len(Types(request)))
  /\ pc # "sweep" => left \subseteq trace /\ running \in -7 .. 7 /\ spent \in [1 .. 7 -> Nat]
  /\ reach \in Int \cup {None} /\ now \in Int \cup {None}
  /\ streams \subseteq StreamNames /\ stream \in StreamNames \cup {None}
  /\ \A s \in DOMAIN idle : idle[s] \in [Categories -> Int]

(* The streams that are analyzed are streams of the device. *)
ChosenStreams == streams \subseteq {r.stream : r \in DeviceRows(trace)}

LEMMA StartIdleChooses ==
  ASSUME StartIdle
  PROVE  \/ pc' = "raised" /\ UNCHANGED <<streams, idle>>
         \/ /\ pc' = "streams" /\ ChosenStreams'
            /\ idle' = [s \in streams' |-> [c \in Categories |-> 0]]
<1>1. trace' = trace
  BY DEF StartIdle, input
<1>2. PICK named \in SUBSET {r.stream : r \in DeviceRows(trace)} :
        \/ pc' = "raised" /\ UNCHANGED <<streams, idle>>
        \/ /\ pc' = "streams" /\ streams' = Analyzed(named)
           /\ idle' = [s \in streams' |-> [c \in Categories |-> 0]]
  BY DEF StartIdle
<1>3. Analyzed(named) \subseteq {r.stream : r \in DeviceRows(trace)}
  BY DEF Analyzed, Kernels
<1> QED
  BY <1>1, <1>2, <1>3 DEF ChosenStreams

LEMMA KindInit == Init => KindInv
<1> SUFFICES ASSUME Init PROVE KindInv
  OBVIOUS
<1>1. Types(request) \in Seq(TypeNames)
  BY RequestTypes DEF Init
<1>2. /\ 0 \in 0 .. Len(Types(request))
      /\ SubSeq(Types(request), 0 + 1, Len(Types(request))) = Types(request)
  BY <1>1
<1>3. DOMAIN idle = {}
  BY DEF Init
<1> QED
  BY <1>2, <1>3 DEF Init, KindInv

LEMMA SweepKinds ==
  ASSUME IInv, SweepInv, pc = "sweep"
  PROVE  left \subseteq Boundaries /\ running \in -7 .. 7 /\ spent \in [1 .. 7 -> Nat]
<1>1. PICK a, e : Sweep(a, e)
  BY DEF SweepInv
<1> QED
  BY <1>1, SumBounded DEF SweepInv

LEMMA KindNext ==
  ASSUME IInv, SweepInv, KindInv, [Next]_vars
  PROVE  KindInv'
<1>1. /\ trace \in Traces /\ \A r \in trace : r.ts \in Int /\ End(r) \in Int
      /\ Kernels(trace) \subseteq trace /\ \A t : FrameOf(trace, t) \subseteq trace
  <2>1. trace \in Traces
    BY DEF IInv, Rows
  <2>2. \A r \in trace : r.ts \in Int /\ r.dur \in Int
    BY <2>1, TracesAssumption
  <2> QED
    BY <2>1, <2>2 DEF End, Kernels, FrameOf, DeviceRows
<1>2. CASE NextFrame
  BY <1>1, <1>2 DEF NextFrame, KindInv, StreamNames, input, merging, sweeping, waiting
<1>3. CASE MergeRow
  <2>1. PICK r \in left : left' = left \ {r} /\ reach' = Reach(merged[Head(todo)], r)
    BY <1>3 DEF MergeRow
  <2>2. pc = "merge" /\ left \subseteq trace
    BY <1>3 DEF MergeRow, KindInv
  <2>3. reach' \in Int \cup {None}
    BY <1>1, <2>1, <2>2 DEF KindInv, Reach, Later
  <2> QED
    BY <1>3, <2>1, <2>2, <2>3 DEF MergeRow, KindInv, StreamNames, input, sweeping, waiting
<1>4. CASE FinishFrame
  <2> DEFINE types == Types(request)
  <2>1. PICK i \in 0 .. Len(types) : todo = SubSeq(types, i + 1, Len(types))
    BY DEF KindInv
  <2>2. types \in Seq(TypeNames) /\ todo # << >>
    BY <1>4, RequestTypes DEF IInv, Rows, Todo, FinishFrame
  <2>3. i + 1 \in 0 .. Len(types) /\ Tail(todo) = SubSeq(types, (i + 1) + 1, Len(types))
    BY <2>1, <2>2
  <2>4. UNCHANGED <<trace, request, left, now, running, spent, streams, stream, idle>>
        /\ todo' = Tail(todo) /\ pc' = "frames" /\ pc = "merge" /\ reach' = None
    BY <1>4 DEF FinishFrame, input, sweeping, waiting
  <2> QED
    BY <2>3, <2>4 DEF KindInv, StreamNames
<1>5. CASE Temporal
  <2>1. pc' \in {"returned", "raised", "asserted"} /\ pc = "frames"
        /\ UNCHANGED <<trace, request, left, todo, reach, now, running, spent, streams, stream, idle>>
    BY <1>5 DEF Temporal, input, merging, sweeping, waiting
  <2> QED
    BY <2>1 DEF KindInv, StreamNames
<1>6. CASE StartSweep
  BY <1>6 DEF StartSweep, KindInv, StreamNames, input, merging, sweeping, waiting
<1>7. CASE PassBoundary
  <2>1. PICK b \in left : now' = b.time
    BY <1>7 DEF PassBoundary
  <2>2. pc = "sweep" /\ pc' = "sweep" /\ todo = << >> /\ left \subseteq Boundaries
        /\ UNCHANGED <<trace, request, todo, reach, streams, stream, idle>>
    BY <1>7 DEF PassBoundary, SweepInv, input, merging, waiting
  <2>3. now' \in Int
    BY <2>1, <2>2, BoundaryTimes
  <2> QED
    BY <2>2, <2>3 DEF KindInv, StreamNames
<1>8. CASE FinishSweep
  <2>1. pc = "sweep" /\ left = {} /\ pc' = "returned"
        /\ UNCHANGED <<trace, request, left, todo, reach, now, running, spent, streams, stream, idle>>
    BY <1>8 DEF FinishSweep, input, merging, sweeping, waiting
  <2>2. running \in -7 .. 7 /\ spent \in [1 .. 7 -> Nat]
    BY <2>1, SweepKinds
  <2> QED
    BY <2>1, <2>2 DEF KindInv, StreamNames
<1>9. CASE StartIdle
  <2>1. pc = "frames" /\ request = "idle" /\ pc' \in {"raised", "streams"}
        /\ UNCHANGED <<trace, request, left, todo, reach, now, running, spent, stream>>
    BY <1>9 DEF StartIdle, input, merging, sweeping
  <2>2. streams' \subseteq StreamNames /\ \A s \in DOMAIN idle' : idle'[s] \in [Categories -> Int]
    <3>1. CASE UNCHANGED <<streams, idle>>
      BY <2>1, <3>1 DEF KindInv
    <3>2. CASE idle' = [s \in streams' |-> [c \in Categories |-> 0]] /\ ChosenStreams'
      <4>1. streams' \subseteq StreamNames
        BY <2>1, <3>2 DEF ChosenStreams, DeviceRows, StreamNames
      <4> QED
        BY <3>2, <4>1
    <3> QED
      BY <1>9, <3>1, <3>2, StartIdleChooses
  <2> QED
    BY <2>1, <2>2 DEF KindInv, StreamNames
<1>10. CASE NextStream
  <2>1. PICK s \in streams : /\ streams' = streams \ {s} /\ stream' = s
                             /\ left' = {k \in Kernels(trace) : k.stream = s}
    BY <1>10 DEF NextStream
  <2>2. pc = "streams" /\ pc' = "stream" /\ now' = None
        /\ UNCHANGED <<trace, request, todo, reach, running, spent, idle>>
    BY <1>10 DEF NextStream, input, merging, sweeping
  <2>3. left' \subseteq trace
    BY <1>1, <2>1
  <2> QED
    BY <2>1, <2>2, <2>3 DEF KindInv, StreamNames
<1>11. CASE PassKernel
  <2>1. PICK k \in left :
          /\ left' = left \ {k} /\ now' = End(k)
          /\ idle' = IF now = None THEN idle ELSE [idle EXCEPT ![stream][Category(k)] = @ + k.ts - now]
    BY <1>11 DEF PassKernel
  <2>2. pc = "stream" /\ pc' = "stream"
        /\ UNCHANGED <<trace, request, todo, reach, running, spent, streams, stream>>
    BY <1>11 DEF PassKernel, input, merging, sweeping
  <2>3. left \subseteq trace
    BY <2>2 DEF KindInv
  <2>4. now' \in Int /\ k.ts \in Int
    BY <1>1, <2>1, <2>3
  <2>5. ASSUME NEW s \in DOMAIN idle' PROVE idle'[s] \in [Categories -> Int]
    <3>1. now \in Int \cup {None} /\ \A z \in DOMAIN idle : idle[z] \in [Categories -> Int]
      BY DEF KindInv
    <3>2. Category(k) \in Categories
      BY DEF Category, Categories
    <3>3. s \in DOMAIN idle
      BY <2>1
    <3>4. CASE now = None
      BY <2>1, <3>1, <3>3, <3>4
    <3>5. CASE now # None
      <4>1. now \in Int
        BY <3>1, <3>5
      <4>2. CASE s = stream
        <5>1. idle'[s] = [idle[s] EXCEPT ![Category(k)] = idle[s][Category(k)] + k.ts - now]
          BY <2>1, <3>3, <3>5, <4>2
        <5>2. idle[s] \in [Categories -> Int] /\ idle[s][Category(k)] + k.ts - now \in Int
          BY <2>4, <3>1, <3>2, <3>3, <4>1
        <5> QED
          BY <5>1, <5>2
      <4>3. CASE s # stream
        BY <2>1, <3>1, <3>3, <3>5, <4>3
      <4> QED
        BY <4>2, <4>3
    <3> QED
      BY <3>4, <3>5
  <2>6. left' \subseteq trace
    BY <2>1, <2>3
  <2> QED
    BY <2>2, <2>4, <2>5, <2>6 DEF KindInv, StreamNames
<1>12. CASE FinishStream
  <2>1. pc = "stream" /\ pc' \in {"returned", "streams"}
        /\ UNCHANGED <<trace, request, left, todo, reach, now, running, spent, streams, stream, idle>>
    BY <1>12 DEF FinishStream, input, merging, sweeping, waiting
  <2> QED
    BY <2>1 DEF KindInv, StreamNames
<1>13. CASE UNCHANGED vars
  BY <1>13 DEF KindInv, StreamNames, vars, input, merging, sweeping, waiting
<1> QED
  BY <1>2, <1>3, <1>4, <1>5, <1>6, <1>7, <1>8, <1>9, <1>10, <1>11, <1>12, <1>13 DEF Next

-----------------------------------------------------------------------------
(* The reports                                                             *)

LEMMA ReportsStay ==
  ASSUME UNCHANGED <<trace, request>>
  PROVE  /\ \A t, x : RunsType(t, x)' <=> RunsType(t, x)
         /\ \A s, x : RunsJust(s, x)' <=> RunsJust(s, x)
         /\ \A x : Idle(x)' <=> Idle(x)
         /\ \A t : TimeOf(t)' = TimeOf(t)
         /\ \A s : TimeOfJust(s)' = TimeOfJust(s)
<1>1. \A t, x : RunsType(t, x)' <=> RunsType(t, x)
  BY DEF RunsType
<1>2. \A s, x : RunsJust(s, x)' <=> RunsJust(s, x)
  BY <1>1 DEF RunsJust
<1>3. \A x : Idle(x)' <=> Idle(x)
  BY <1>1 DEF Idle
<1>4. \A t : TimeOf(t)' = TimeOf(t)
  <2> TAKE t
  <2> HIDE DEF RunsType
  <2> QED
    BY <1>1 DEF TimeOf
<1>5. \A s : TimeOfJust(s)' = TimeOfJust(s)
  <2> TAKE s
  <2> HIDE DEF RunsJust
  <2> QED
    BY <1>2 DEF TimeOfJust
<1> QED
  BY <1>1, <1>2, <1>3, <1>4, <1>5

LEMMA TemporalReports ==
  ASSUME Lasting, IInv, SpanInv, Temporal
  PROVE  ReportsExact' /\ (pc' = "returned" => report'.idle_time \in 0 .. report'.kernel_time)
         /\ pc' \in {"returned", "raised"}
<1> DEFINE kernel_time == KernelTime(merged["any"])
           all == Total(merged["any"])
           compute_time == Total(merged["computation"])
           both == Cardinality({x \in Points : RunsType("any", x) /\ ~RunsType("computation", x)})
           gaps == Cardinality({x \in Points : Idle(x)})
<1>1. todo = << >> /\ request = "temporal" /\ UNCHANGED <<trace, request>>
  BY DEF Temporal, input
<1>2. CASE merged["any"] = << >>
  BY <1>2 DEF Temporal, ReportsExact
<1>3. CASE merged["any"] # << >>
  <2>1. /\ kernel_time \in Int /\ all \in Nat /\ compute_time \in Nat
        /\ all <= kernel_time /\ compute_time <= all
        /\ compute_time = TimeOf("computation")
        /\ all - compute_time = both
        /\ kernel_time - all = gaps
    BY <1>1, <1>3, TemporalIsExact
  <2>2. LET i == kernel_time - all
            n == kernel_time - compute_time - i
        IN IF i <= kernel_time /\ compute_time <= kernel_time /\ n >= 0
           THEN /\ report' = [idle_time |-> i, compute_time |-> compute_time,
                              non_compute_time |-> n, kernel_time |-> kernel_time]
                /\ pc' = "returned"
           ELSE pc' = "asserted" /\ UNCHANGED report
    BY <1>3 DEF Temporal
  <2> HIDE DEF kernel_time, all, compute_time
  <2>3. /\ kernel_time - all \in 0 .. kernel_time /\ compute_time <= kernel_time
        /\ kernel_time - compute_time - (kernel_time - all) = all - compute_time
        /\ all - compute_time >= 0
    BY <2>1
  <2>4. /\ pc' = "returned"
        /\ report'.idle_time = kernel_time - all /\ report'.compute_time = compute_time
        /\ report'.non_compute_time = all - compute_time /\ report'.kernel_time = kernel_time
    BY <2>2, <2>3
  <2>5. /\ TimeOf("computation")' = TimeOf("computation")
        /\ both' = both /\ gaps' = gaps
    <3>1. /\ \A t, x : RunsType(t, x)' <=> RunsType(t, x)
          /\ \A x : Idle(x)' <=> Idle(x)
          /\ TimeOf("computation")' = TimeOf("computation")
      BY <1>1, ReportsStay
    <3> HIDE DEF RunsType, Idle
    <3> QED
      BY <3>1
  <2>6. ReportsExact'
    BY <1>1, <2>1, <2>4, <2>5 DEF ReportsExact
  <2> QED
    BY <2>3, <2>4, <2>6
<1> QED
  BY <1>2, <1>3

LEMMA SweepReports ==
  ASSUME IInv, SweepInv, FinishSweep
  PROVE  ReportsExact'
<1>1. /\ pc = "sweep" /\ left = {} /\ pc' = "returned" /\ UNCHANGED <<trace, request, merged>>
      /\ report' = IF request = "overlap"
                   THEN [overlap |-> spent[3], comm_time |-> Total(merged["communication"])]
                   ELSE spent
  BY DEF FinishSweep, input, merging
<1>2. todo = << >> /\ request \in {"overlap", "types", "types_with_memory"}
  BY <1>1 DEF SweepInv
<1>3. \A s \in 1 .. 7 : spent[s] = Cardinality({x \in Points : SumAt(x) = s})
  BY <1>1, SpentIsExact
<1>4. /\ \A s : TimeOfJust(s)' = TimeOfJust(s) /\ \A t : TimeOf(t)' = TimeOf(t)
      /\ Types(request)' = Types(request)
  BY <1>1, ReportsStay
<1>5. CASE request = "overlap"
  <2>1. {x \in Points : SumAt(x) = 3} = {x \in Points : RunsJust(3, x)}
    <3>1. \A x : SumAt(x) = 3 <=> RunsJust(3, x)
      BY <1>5, SumIsJust
    <3> HIDE DEF SumAt, RunsJust
    <3> QED
      BY <3>1
  <2>2. spent[3] = TimeOfJust(3)
    BY <1>3, <2>1 DEF TimeOfJust
  <2>3. Total(merged["communication"]) = TimeOf("communication")
    <3>1. Types(request) = <<"computation", "communication">>
      BY <1>5 DEF Types
    <3>2. "communication" \in Range(Types(request))
      <4>1. <<"computation", "communication">>[2] = "communication"
            /\ DOMAIN <<"computation", "communication">> = {1, 2}
        OBVIOUS
      <4> QED
        BY <3>1, <4>1 DEF Range
    <3> QED
      BY <1>2, <3>2, MergedTotal
  <2>4. report'.overlap = spent[3] /\ report'.comm_time = Total(merged["communication"])
    BY <1>1, <1>5
  <2> QED
    BY <1>1, <1>4, <1>5, <2>2, <2>3, <2>4 DEF ReportsExact
<1>6. CASE request \in {"types", "types_with_memory"}
  <2> DEFINE limit == 2 * Digit[Len(Types(request))]
  <2>1. limit = IF request = "types" THEN 4 ELSE 8
    <3>1. Digit[1] = 1 /\ Digit[2] = 2 /\ Digit[3] = 4
      BY DEF Digit
    <3>2. Len(Types(request)) = IF request = "types" THEN 2 ELSE 3
      BY <1>6 DEF Types
    <3> QED
      BY <3>1, <3>2
  <2>2. ASSUME NEW s \in 1 .. 7
        PROVE  spent[s] = IF s < limit THEN TimeOfJust(s) ELSE 0
    <3>1. \A x : /\ request = "types" => IF s < 4 THEN SumAt(x) = s <=> RunsJust(s, x) ELSE SumAt(x) # s
                 /\ request = "types_with_memory" => (SumAt(x) = s <=> RunsJust(s, x))
      BY SumIsJust
    <3>2. spent[s] = Cardinality({x \in Points : SumAt(x) = s})
      BY <1>3
    <3> HIDE DEF SumAt, RunsJust, limit
    <3>3. CASE s < limit
      <4>1. {x \in Points : SumAt(x) = s} = {x \in Points : RunsJust(s, x)}
        BY <1>6, <2>1, <3>1, <3>3
      <4> QED
        BY <3>2, <3>3, <4>1 DEF TimeOfJust
    <3>4. CASE ~(s < limit)
      <4>1. {x \in Points : SumAt(x) = s} = {}
        BY <1>6, <2>1, <3>1, <3>4
      <4> QED
        BY <3>2, <3>4, <4>1, FS_EmptySet
    <3> QED
      BY <3>3, <3>4
  <2>3. report' = spent /\ request # "overlap" /\ request # "temporal"
    BY <1>1, <1>6
  <2>4. \A s \in 1 .. 7 : report'[s] = IF s < limit THEN TimeOfJust(s)' ELSE 0
    BY <1>4, <2>2, <2>3
  <2> QED
    BY <1>1, <1>4, <2>3, <2>4 DEF ReportsExact
<1> QED
  BY <1>2, <1>5, <1>6

LEMMA ReportsNext ==
  ASSUME Lasting, IInv, SpanInv, SweepInv, KindInv, ReportsExact, [Next]_vars
  PROVE  ReportsExact' /\ (pc' = "asserted" => pc = "asserted")
<1>1. CASE Temporal
  BY <1>1, TemporalReports
<1>2. CASE FinishSweep
  BY <1>2, SweepReports DEF FinishSweep
<1>3. CASE NextFrame \/ MergeRow \/ FinishFrame \/ StartSweep \/ PassBoundary \/ StartIdle \/ NextStream \/ PassKernel
  <2>1. pc' \notin {"returned", "asserted"}
    BY <1>3 DEF NextFrame, MergeRow, FinishFrame, StartSweep, PassBoundary, StartIdle, NextStream, PassKernel
  <2> QED
    BY <2>1 DEF ReportsExact
<1>4. CASE FinishStream
  <2>1. request' = "idle" /\ pc' \in {"returned", "streams"} /\ pc = "stream"
    BY <1>4 DEF FinishStream, input, KindInv
  <2> QED
    BY <2>1 DEF ReportsExact
<1>5. CASE UNCHANGED vars
  <2>1. UNCHANGED <<trace, request, pc, report>>
    BY <1>5 DEF vars, input
  <2>2. /\ \A t, x : RunsType(t, x)' <=> RunsType(t, x)
        /\ \A x : Idle(x)' <=> Idle(x)
        /\ \A t : TimeOf(t)' = TimeOf(t)
        /\ \A s : TimeOfJust(s)' = TimeOfJust(s)
    BY <2>1, ReportsStay
  <2> HIDE DEF RunsType, Idle, TimeOf, TimeOfJust
  <2> QED
    BY <2>1, <2>2 DEF ReportsExact
<1> QED
  BY <1>1, <1>2, <1>3, <1>4, <1>5 DEF Next

-----------------------------------------------------------------------------
(* The idle time of a stream                                               *)

StreamKernels(s) == {k \in trace : k.stream = s /\ k.cat \in KernelCats}

(* The kernels of a stream that were analyzed. *)
Seen(s) ==
  IF s \in streams THEN {}
  ELSE IF s = stream /\ pc = "stream" THEN StreamKernels(s) \ left ELSE StreamKernels(s)

Waited(s) == idle[s]["host_wait"] + idle[s]["kernel_wait"] + idle[s]["other"]

(* Of a stream whose kernels run one by one, the idle time is that between *)
(* the kernels analyzed so far, the last of which ended now.               *)
IdleInv ==
  /\ pc \in {"streams", "stream"} =>
       /\ streams \subseteq DOMAIN idle /\ -1 \notin streams
       /\ \A s \in DOMAIN idle : OneByOne(StreamKernels(s)) => Waited(s) = Cardinality(Gaps(Seen(s)))
  /\ pc = "stream" =>
       /\ stream \in DOMAIN idle /\ stream \notin streams /\ left \subseteq StreamKernels(stream)
       /\ now = None => left = StreamKernels(stream)
       /\ \A k \in StreamKernels(stream) \ left, l \in left : k.ts <= l.ts
       /\ now # None /\ OneByOne(StreamKernels(stream)) =>
            \E l \in StreamKernels(stream) \ left :
              now = End(l) /\ \A k \in StreamKernels(stream) \ left : End(k) <= now

(* A kernel that starts after all others end adds the gap before it. *)
LEMMA GapsWithNext ==
  ASSUME Lasting, trace \in Traces, NEW part, part \subseteq trace, NEW k \in trace, NEW l \in part,
         \A m \in part : Before(m, k) /\ End(m) <= End(l)
  PROVE  /\ End(l) <= k.ts
         /\ Cardinality(Gaps(part \cup {k})) = Cardinality(Gaps(part)) + (k.ts - End(l))
<1>1. \A r \in trace : r.ts \in Int /\ r.dur \in Nat /\ End(r) \in Int /\ r.ts <= End(r)
  BY RowTimes
<1>2. /\ l \in trace /\ End(l) \in Int /\ k.ts \in Int /\ End(l) <= k.ts
      /\ \A m \in part : /\ m.ts \in Int /\ End(m) \in Int /\ m.ts <= End(m)
                         /\ m.ts < k.ts /\ End(m) <= k.ts /\ End(m) <= End(l)
  BY <1>1 DEF Before
<1>3. \A x \in Points : x \in Int
  BY PointsAssumption
<1> DEFINE more == End(l) .. (k.ts - 1)
           old == Gaps(part)
           new == Gaps(part \cup {k})
<1>4. more \subseteq Points
  <2>1. l.ts .. (k.ts + k.dur - 1) \subseteq Points
    BY <1>2, PointsAssumption
  <2>2. l.ts <= End(l) /\ k.ts - 1 <= k.ts + k.dur - 1 /\ l.ts \in Int /\ k.ts + k.dur - 1 \in Int
    BY <1>1, <1>2
  <2> QED
    BY <1>2, <2>1, <2>2
<1>5. ASSUME NEW x \in new PROVE x \in old \cup more
  <2>1. /\ x \in Points /\ x \in Int /\ ~Runs(part \cup {k}, x)
        /\ \E a, b \in part \cup {k} : a.ts <= x /\ x < b.ts
    BY <1>3 DEF Gaps
  <2>2. PICK a \in part \cup {k}, b \in part \cup {k} : a.ts <= x /\ x < b.ts
    BY <2>1
  <2>3. x < k.ts
    BY <1>2, <2>1, <2>2
  <2>4. a \in part
    BY <1>2, <2>1, <2>2, <2>3
  <2>5. ~Runs(part, x) /\ ~(l.ts <= x /\ x < End(l))
    BY <2>1 DEF Runs
  <2>6. CASE End(l) <= x
    BY <1>2, <2>1, <2>3, <2>6
  <2>7. CASE x < End(l)
    <3>1. x < l.ts
      BY <1>2, <2>1, <2>5, <2>7
    <3> QED
      BY <2>1, <2>2, <2>4, <2>5, <3>1 DEF Gaps
  <2> QED
    BY <1>2, <2>1, <2>6, <2>7
<1>6. ASSUME NEW x \in old PROVE x \in new /\ x \notin more
  <2>1. /\ x \in Points /\ x \in Int /\ ~Runs(part, x)
        /\ \E a, b \in part : a.ts <= x /\ x < b.ts
    BY <1>3 DEF Gaps
  <2>2. PICK a \in part, b \in part : a.ts <= x /\ x < b.ts
    BY <2>1
  <2>3. x < k.ts /\ x < End(l)
    BY <1>2, <2>1, <2>2
  <2>4. ~Runs(part \cup {k}, x)
    BY <1>2, <2>1, <2>3 DEF Runs
  <2> QED
    BY <1>2, <2>1, <2>2, <2>3, <2>4 DEF Gaps
<1>7. ASSUME NEW x \in more PROVE x \in new
  <2>1. x \in Points /\ x \in Int /\ End(l) <= x /\ x < k.ts
    BY <1>2, <1>4
  <2>2. ~Runs(part \cup {k}, x)
    BY <1>2, <2>1 DEF Runs
  <2>3. l \in part \cup {k} /\ k \in part \cup {k} /\ l.ts <= x /\ x < k.ts
    BY <1>2, <2>1
  <2> QED
    BY <2>1, <2>2, <2>3 DEF Gaps
<1>8. new = old \cup more /\ old \cap more = {}
  BY <1>5, <1>6, <1>7
<1>9. IsFiniteSet(old)
  BY PointsAssumption, FS_Subset DEF Gaps
<1>10. IsFiniteSet(more) /\ Cardinality(more) = k.ts - End(l)
  <2>1. k.ts - 1 \in Int
    BY <1>2
  <2>2. /\ IsFiniteSet(more)
        /\ Cardinality(more) = IF End(l) > k.ts - 1 THEN 0 ELSE (k.ts - 1) - End(l) + 1
    BY <1>2, <2>1, FS_Interval
  <2>3. (IF End(l) > k.ts - 1 THEN 0 ELSE (k.ts - 1) - End(l) + 1) = k.ts - End(l)
    BY <1>2
  <2> QED
    BY <2>2, <2>3
<1> HIDE DEF old, new, more
<1>11. Cardinality(new) = Cardinality(old) + Cardinality(more) - Cardinality(old \cap more)
  BY <1>8, <1>9, <1>10, FS_Union
<1>12. Cardinality(old \cap more) = 0 /\ Cardinality(old) \in Nat
  BY <1>8, <1>9, FS_EmptySet, FS_CardinalityType
<1>13. k.ts - End(l) \in Int
  BY <1>2
<1>14. Cardinality(new) = Cardinality(old) + (k.ts - End(l))
  BY <1>10, <1>11, <1>12, <1>13
<1> QED
  BY <1>2, <1>14 DEF old, new

LEMMA FewGaps == Gaps({}) = {} /\ (trace \in Traces => \A k \in trace : Gaps({k}) = {})
<1>1. Gaps({}) = {}
  BY DEF Gaps
<1>2. ASSUME trace \in Traces, NEW k \in trace PROVE Gaps({k}) = {}
  <2> SUFFICES ASSUME NEW x \in Gaps({k}) PROVE FALSE
    OBVIOUS
  <2>1. k.ts \in Int /\ x \in Int /\ k.ts <= x /\ x < k.ts
    BY <1>2, TracesAssumption, PointsAssumption DEF Gaps
  <2> QED
    BY <2>1
<1> QED
  BY <1>1, <1>2

LEMMA StreamsStay ==
  ASSUME UNCHANGED trace
  PROVE  \A s : StreamKernels(s)' = StreamKernels(s)
  BY DEF StreamKernels

LEMMA NothingWaited ==
  ASSUME NEW f, NEW s, f[s] = [c \in Categories |-> 0]
  PROVE  f[s]["host_wait"] + f[s]["kernel_wait"] + f[s]["other"] = 0
  BY DEF Categories

LEMMA StartIdleStep ==
  ASSUME IdleInv, StartIdle
  PROVE  IdleInv'
<1>1. CASE pc' = "raised"
  BY <1>1 DEF StartIdle, IdleInv
<1>2. CASE /\ pc' = "streams" /\ ChosenStreams'
           /\ idle' = [s \in streams' |-> [c \in Categories |-> 0]]
  <2>1. /\ idle' = [s \in streams' |-> [c \in Categories |-> 0]]
        /\ pc' = "streams" /\ UNCHANGED trace
    BY <1>2 DEF StartIdle, input
  <2>2. DOMAIN idle' = streams' /\ -1 \notin streams'
    BY <1>2, <2>1 DEF ChosenStreams, DeviceRows
  <2>3. ASSUME NEW s \in DOMAIN idle' PROVE Waited(s)' = Cardinality(Gaps(Seen(s))')
    <3>1. Seen(s)' = {}
      BY <2>2 DEF Seen
    <3>2. Waited(s)' = 0
      BY <2>1, <2>2, NothingWaited DEF Waited
    <3>3. Gaps(Seen(s))' = {}
      BY <3>1, FewGaps DEF Gaps
    <3> QED
      BY <3>2, <3>3, FS_EmptySet
  <2> QED
    BY <2>1, <2>2, <2>3 DEF IdleInv
<1> QED
  BY <1>1, <1>2, StartIdleChooses

LEMMA NextStreamStep ==
  ASSUME IdleInv, NextStream
  PROVE  IdleInv'
<1>1. PICK s \in streams : /\ streams' = streams \ {s} /\ stream' = s
                           /\ left' = {k \in Kernels(trace) : k.stream = s}
  BY DEF NextStream
<1>2. pc = "streams" /\ pc' = "stream" /\ now' = None /\ UNCHANGED <<trace, idle>>
  BY DEF NextStream, input
<1>3. /\ streams \subseteq DOMAIN idle /\ -1 \notin streams
      /\ \A z \in DOMAIN idle : OneByOne(StreamKernels(z)) => Waited(z) = Cardinality(Gaps(Seen(z)))
  BY <1>2 DEF IdleInv
<1>4. left' = StreamKernels(s)
  BY <1>1, <1>3 DEF Kernels, DeviceRows, StreamKernels
<1>5. \A z : StreamKernels(z)' = StreamKernels(z)
  BY <1>2, StreamsStay
<1>6. \A z \in DOMAIN idle : Seen(z)' = Seen(z)
  BY <1>1, <1>2, <1>4, <1>5 DEF Seen
<1>7. \A z \in DOMAIN idle : Waited(z)' = Waited(z)
  BY <1>2 DEF Waited
<1>8. \A z \in DOMAIN idle : Gaps(Seen(z))' = Gaps(Seen(z))
  BY <1>6 DEF Gaps
<1>9. \A z \in DOMAIN idle' : OneByOne(StreamKernels(z))' => Waited(z)' = Cardinality(Gaps(Seen(z))')
  BY <1>2, <1>3, <1>5, <1>7, <1>8 DEF OneByOne
<1>10. /\ stream' \in DOMAIN idle' /\ stream' \notin streams' /\ left' = StreamKernels(stream)'
       /\ streams' \subseteq DOMAIN idle' /\ -1 \notin streams'
  BY <1>1, <1>2, <1>3, <1>4, <1>5
<1> QED
  BY <1>2, <1>9, <1>10 DEF IdleInv

LEMMA FinishStreamStep ==
  ASSUME IdleInv, IdleIsGaps, KindInv, FinishStream
  PROVE  IdleInv' /\ IdleIsGaps'
<1>1. /\ pc = "stream" /\ left = {} /\ UNCHANGED <<trace, request, idle, streams, stream>>
      /\ IF streams = {} THEN pc' = "returned" /\ report' = idle ELSE pc' = "streams" /\ UNCHANGED report
  BY DEF FinishStream, input, waiting
<1>2. /\ streams \subseteq DOMAIN idle /\ -1 \notin streams
      /\ \A z \in DOMAIN idle : OneByOne(StreamKernels(z)) => Waited(z) = Cardinality(Gaps(Seen(z)))
  BY <1>1 DEF IdleInv
<1>3. \A z : StreamKernels(z)' = StreamKernels(z)
  BY <1>1, StreamsStay
<1>4. CASE streams # {}
  <2>1. \A z : Seen(z)' = Seen(z)
    BY <1>1, <1>3, <1>4 DEF Seen
  <2>2. \A z : Waited(z)' = Waited(z) /\ Gaps(Seen(z))' = Gaps(Seen(z))
    BY <1>1, <2>1 DEF Waited, Gaps
  <2>3. \A z \in DOMAIN idle' : OneByOne(StreamKernels(z))' => Waited(z)' = Cardinality(Gaps(Seen(z))')
    BY <1>1, <1>2, <1>3, <2>2 DEF OneByOne
  <2> QED
    BY <1>1, <1>2, <1>4, <2>3 DEF IdleInv, IdleIsGaps
<1>5. CASE streams = {}
  <2>1. pc' = "returned" /\ report' = idle
    BY <1>1, <1>5
  <2>2. ASSUME NEW z \in DOMAIN idle, OneByOne(StreamKernels(z))
        PROVE  report'[z]["host_wait"] + report'[z]["kernel_wait"] + report'[z]["other"]
                 = Cardinality(Gaps(StreamKernels(z)))
    <3>1. Seen(z) = StreamKernels(z)
      BY <1>1, <1>5 DEF Seen
    <3> QED
      BY <1>2, <2>1, <2>2, <3>1 DEF Waited
  <2>3. IdleIsGaps'
    BY <1>1, <2>1, <2>2 DEF IdleIsGaps, StreamKernels, OneByOne, Gaps
  <2> QED
    BY <2>1, <2>3 DEF IdleInv
<1> QED
  BY <1>4, <1>5

LEMMA PassKernelStep ==
  ASSUME Lasting, IInv, IdleInv, KindInv, PassKernel
  PROVE  IdleInv'
<1>1. PICK k \in left :
        /\ First(left, k) /\ left' = left \ {k} /\ now' = End(k)
        /\ idle' = IF now = None THEN idle ELSE [idle EXCEPT ![stream][Category(k)] = @ + k.ts - now]
  BY DEF PassKernel
<1>2. pc = "stream" /\ pc' = "stream" /\ UNCHANGED <<trace, streams, stream>> /\ trace \in Traces
  BY DEF PassKernel, input, IInv, Rows
<1> DEFINE all == StreamKernels(stream)
           part == all \ left
<1>3. /\ streams \subseteq DOMAIN idle /\ -1 \notin streams
      /\ \A z \in DOMAIN idle : OneByOne(StreamKernels(z)) => Waited(z) = Cardinality(Gaps(Seen(z)))
      /\ stream \in DOMAIN idle /\ stream \notin streams /\ left \subseteq all
      /\ now = None => left = all
      /\ \A m \in part, l \in left : m.ts <= l.ts
      /\ now # None /\ OneByOne(all) =>
           \E l \in part : now = End(l) /\ \A m \in part : End(m) <= now
  BY <1>2 DEF IdleInv
<1>4. all \subseteq trace /\ part \subseteq trace /\ k \in trace /\ k \in all /\ k \notin part
  BY <1>1, <1>3 DEF StreamKernels
<1>5. \A r \in trace : r.ts \in Int /\ r.dur \in Nat /\ End(r) \in Int /\ r.ts <= End(r)
  BY <1>2, RowTimes
<1>6. \A z : StreamKernels(z)' = StreamKernels(z)
  BY <1>2, StreamsStay
<1>7. /\ DOMAIN idle' = DOMAIN idle
      /\ \A z \in DOMAIN idle : z # stream => idle'[z] = idle[z]
  BY <1>1
<1>8. End(k) \in Int /\ End(k) # None
  BY <1>4, <1>5, NoneAssumption
<1>9. all \ left' = part \cup {k}
  BY <1>1, <1>4
<1>10. /\ Seen(stream) = part /\ Seen(stream)' = part \cup {k}
       /\ \A z : z # stream => Seen(z)' = Seen(z)
  BY <1>2, <1>3, <1>6, <1>9 DEF Seen
<1>11. ASSUME OneByOne(all), now # None
       PROVE  \E l \in part : now = End(l) /\ \A m \in part : Before(m, k) /\ End(m) <= End(l)
  <2>1. PICK l \in part : now = End(l) /\ \A m \in part : End(m) <= now
    BY <1>3, <1>11
  <2>2. ASSUME NEW m \in part PROVE Before(m, k)
    <3>1. m \in all /\ m # k /\ m.ts <= k.ts /\ m.ts \in Int /\ k.ts \in Int
      BY <1>1, <1>3, <1>4, <1>5
    <3>2. Before(m, k) \/ Before(k, m)
      BY <1>4, <1>11, <3>1 DEF OneByOne
    <3>3. ~Before(k, m)
      BY <3>1 DEF Before
    <3> QED
      BY <3>2, <3>3
  <2> QED
    BY <2>1, <2>2
<1>12. ASSUME OneByOne(all)
       PROVE  Waited(stream)' = Cardinality(Gaps(part \cup {k}))
  <2>1. Waited(stream) = Cardinality(Gaps(part))
    BY <1>3, <1>10, <1>12
  <2>2. CASE now = None
    <3>1. part = {} /\ part \cup {k} = {k} /\ idle' = idle
      BY <1>1, <1>3, <2>2
    <3>2. Gaps(part) = {} /\ Gaps(part \cup {k}) = {}
      BY <1>2, <1>4, <3>1, FewGaps
    <3>3. Waited(stream)' = Waited(stream)
      BY <1>2, <3>1 DEF Waited
    <3> QED
      BY <2>1, <3>2, <3>3
  <2>3. CASE now # None
    <3>1. PICK l \in part : now = End(l) /\ \A m \in part : Before(m, k) /\ End(m) <= End(l)
      BY <1>11, <1>12, <2>3
    <3> HIDE DEF part
    <3>2. Cardinality(Gaps(part \cup {k})) = Cardinality(Gaps(part)) + (k.ts - now)
      BY <1>2, <1>4, <3>1, GapsWithNext
    <3>3. Waited(stream)' = Waited(stream) + (k.ts - now)
      <4>1. /\ idle[stream] \in [Categories -> Int] /\ now \in Int /\ k.ts \in Int
            /\ Category(k) \in Categories
        BY <1>3, <1>4, <1>5, <2>3 DEF KindInv, Category, Categories
      <4> DEFINE old == idle[stream]
                 new == idle'[stream]
                 c == Category(k)
      <4>2. new = [old EXCEPT ![c] = old[c] + k.ts - now]
        BY <1>1, <1>3, <2>3
      <4>3. Waited(stream)' = new["host_wait"] + new["kernel_wait"] + new["other"]
            /\ Waited(stream) = old["host_wait"] + old["kernel_wait"] + old["other"]
        BY <1>2 DEF Waited
      <4> HIDE DEF old, new, c
      <4>4. /\ c \in {"host_wait", "kernel_wait", "other"}
            /\ old["host_wait"] \in Int /\ old["kernel_wait"] \in Int /\ old["other"] \in Int
            /\ \A d \in {"host_wait", "kernel_wait", "other"} :
                 new[d] = IF d = c THEN old[d] + k.ts - now ELSE old[d]
        BY <4>1, <4>2 DEF Categories, old, c
      <4> QED
        BY <4>1, <4>3, <4>4
    <3> QED
      BY <2>1, <3>2, <3>3
  <2> QED
    BY <2>2, <2>3
<1>13. ASSUME NEW z \in DOMAIN idle, OneByOne(StreamKernels(z))
       PROVE  Waited(z)' = Cardinality(Gaps(Seen(z))')
  <2>1. CASE z = stream
    <3>1. Gaps(Seen(stream))' = Gaps(part \cup {k})
      BY <1>10 DEF Gaps
    <3> HIDE DEF part
    <3>2. Waited(z)' = Waited(stream)'
      BY <1>2, <2>1
    <3> QED
      BY <1>2, <1>12, <1>13, <2>1, <3>1, <3>2
  <2>2. CASE z # stream
    <3>1. Waited(z)' = Waited(z)
      BY <1>7, <2>2 DEF Waited
    <3>2. Gaps(Seen(z))' = Gaps(Seen(z))
      BY <1>10, <2>2 DEF Gaps
    <3> QED
      BY <1>3, <1>13, <3>1, <3>2
  <2> QED
    BY <2>1, <2>2
<1>14. ASSUME OneByOne(all)
       PROVE  \A m \in part \cup {k} : End(m) <= End(k)
  <2> TAKE m \in part \cup {k}
  <2>1. CASE m = k
    BY <1>8, <2>1
  <2>2. CASE m \in part
    <3>1. now # None
      BY <1>3, <2>2
    <3>2. Before(m, k)
      BY <1>11, <1>14, <2>2, <3>1
    <3> QED
      BY <1>4, <1>5, <2>2, <3>2 DEF Before
  <2> QED
    BY <2>1, <2>2
<1>15. \A m \in part \cup {k}, l \in left' : m.ts <= l.ts
  <2>1. \A l \in left : k.ts <= l.ts
    BY <1>1 DEF First
  <2> QED
    BY <1>1, <1>3, <2>1
<1>16. all' \ left' = part \cup {k} /\ all' = all /\ left' \subseteq all
  BY <1>1, <1>2, <1>3, <1>6, <1>9
<1>17. now' # None /\ now' = End(k)
  BY <1>1, <1>8
<1>18. \A z \in DOMAIN idle' : OneByOne(StreamKernels(z))' => Waited(z)' = Cardinality(Gaps(Seen(z))')
  BY <1>6, <1>7, <1>13 DEF OneByOne
<1>19. OneByOne(all)' => OneByOne(all)
  BY <1>16 DEF OneByOne
<1>20. now' # None /\ OneByOne(all)' =>
         \E l \in all' \ left' : now' = End(l) /\ \A m \in all' \ left' : End(m) <= now'
  BY <1>14, <1>16, <1>17, <1>19
<1>21. \A m \in all' \ left', l \in left' : m.ts <= l.ts
  BY <1>15, <1>16
<1>22. /\ stream' \in DOMAIN idle' /\ stream' \notin streams' /\ left' \subseteq all'
       /\ streams' \subseteq DOMAIN idle' /\ -1 \notin streams'
  BY <1>2, <1>3, <1>7, <1>16
<1> QED
  BY <1>2, <1>17, <1>18, <1>20, <1>21, <1>22 DEF IdleInv, End

LEMMA IdleNext ==
  ASSUME Lasting, IInv, SweepInv, KindInv, IdleInv, IdleIsGaps, [Next]_vars
  PROVE  IdleInv' /\ IdleIsGaps'
<1>1. CASE StartIdle
  BY <1>1, StartIdleStep DEF StartIdle, IdleIsGaps
<1>2. CASE NextStream
  BY <1>2, NextStreamStep DEF NextStream, IdleIsGaps
<1>3. CASE PassKernel
  <2>1. pc' = "stream"
    BY <1>3 DEF PassKernel
  <2> QED
    BY <1>3, <2>1, PassKernelStep DEF IdleIsGaps
<1>4. CASE FinishStream
  BY <1>4, FinishStreamStep
<1>5. CASE Temporal \/ FinishSweep
  <2>1. request' # "idle" /\ pc' \notin {"streams", "stream"}
    BY <1>5 DEF Temporal, FinishSweep, SweepInv, input
  <2> QED
    BY <2>1 DEF IdleInv, IdleIsGaps
<1>6. CASE NextFrame \/ MergeRow \/ FinishFrame \/ StartSweep \/ PassBoundary
  <2>1. pc' \in {"frames", "merge", "sweep"}
    BY <1>6 DEF NextFrame, MergeRow, FinishFrame, StartSweep, PassBoundary
  <2> QED
    BY <2>1 DEF IdleInv, IdleIsGaps
<1>7. CASE UNCHANGED vars
  <2>1. UNCHANGED <<trace, request, pc, left, now, streams, stream, idle, report>>
    BY <1>7 DEF vars, input, waiting
  <2>2. \A s : StreamKernels(s)' = StreamKernels(s)
    BY <2>1, StreamsStay
  <2>3. \A s : Seen(s)' = Seen(s)
    BY <2>1, <2>2 DEF Seen
  <2>4. \A s : Waited(s)' = Waited(s) /\ Gaps(Seen(s))' = Gaps(Seen(s))
    BY <2>1, <2>3 DEF Waited, Gaps
  <2>5. \A s : OneByOne(StreamKernels(s))' <=> OneByOne(StreamKernels(s))
    BY <2>2 DEF OneByOne
  <2>6. IdleInv'
    BY <2>1, <2>2, <2>4, <2>5 DEF IdleInv
  <2>7. IdleIsGaps'
    BY <2>1 DEF IdleIsGaps, OneByOne, Gaps
  <2> QED
    BY <2>6, <2>7
<1> QED
  BY <1>1, <1>2, <1>3, <1>4, <1>5, <1>6, <1>7 DEF Next

-----------------------------------------------------------------------------
(* The theorems                                                            *)

(* What is reported of a temporal breakdown. *)
IdleTimeFits ==
  request = "temporal" /\ pc = "returned" => report.idle_time \in 0 .. report.kernel_time

LEMMA IdleTimeNext ==
  ASSUME Lasting, IInv, SpanInv, SweepInv, KindInv, IdleTimeFits, [Next]_vars
  PROVE  IdleTimeFits'
<1>1. CASE Temporal
  BY <1>1, TemporalReports DEF IdleTimeFits
<1>2. CASE FinishSweep \/ FinishStream
  <2>1. request' # "temporal"
    BY <1>2 DEF FinishSweep, FinishStream, SweepInv, KindInv, input
  <2> QED
    BY <2>1 DEF IdleTimeFits
<1>3. CASE NextFrame \/ MergeRow \/ FinishFrame \/ StartSweep \/ PassBoundary \/ StartIdle \/ NextStream \/ PassKernel
  <2>1. pc' # "returned"
    BY <1>3 DEF NextFrame, MergeRow, FinishFrame, StartSweep, PassBoundary, StartIdle, NextStream, PassKernel
  <2> QED
    BY <2>1 DEF IdleTimeFits
<1>4. CASE UNCHANGED vars
  BY <1>4 DEF IdleTimeFits, vars, input
<1> QED
  BY <1>1, <1>2, <1>3, <1>4 DEF Next

(* All that is invariant of a breakdown. *)
Invariants ==
  /\ IInv /\ SpanInv /\ SweepInv /\ KindInv /\ IdleInv
  /\ ReportsExact /\ IdleTimeFits /\ IdleIsGaps /\ AssertionsHold

LEMMA AlwaysInvariants ==
  ASSUME Lasting
  PROVE  Spec => []Invariants
<1>1. Init => Invariants
  <2> SUFFICES ASSUME Init PROVE Invariants
    OBVIOUS
  <2>1. IInv /\ SpanInv /\ SweepInv /\ KindInv
    BY InitIInv, SpanInit, SweepInit, KindInit
  <2>2. pc = "frames"
    BY DEF Init
  <2>3. IdleInv /\ ReportsExact /\ IdleTimeFits /\ IdleIsGaps /\ AssertionsHold
    BY <2>2 DEF IdleInv, ReportsExact, IdleTimeFits, IdleIsGaps, AssertionsHold
  <2> QED
    BY <2>1, <2>3 DEF Invariants
<1>2. Invariants /\ [Next]_vars => Invariants'
  <2> SUFFICES ASSUME Invariants, [Next]_vars PROVE Invariants'
    OBVIOUS
  <2>1. /\ IInv /\ SpanInv /\ SweepInv /\ KindInv /\ IdleInv
        /\ ReportsExact /\ IdleTimeFits /\ IdleIsGaps /\ AssertionsHold
    BY DEF Invariants
  <2>2. IInv' /\ SpanInv' /\ SweepInv'
    BY <2>1, NextIInv, SpanStep, SweepNext
  <2>3. KindInv' /\ IdleTimeFits'
    BY <2>1, KindNext, IdleTimeNext
  <2>4. ReportsExact' /\ AssertionsHold'
    BY <2>1, ReportsNext DEF AssertionsHold
  <2>5. IdleInv' /\ IdleIsGaps'
    BY <2>1, IdleNext
  <2> QED
    BY <2>2, <2>3, <2>4, <2>5 DEF Invariants
<1> QED
  BY <1>1, <1>2, PTL DEF Spec

(* Of such traces the variables hold values of their kinds, the sum of the *)
(* open intervals stays within the types that are asked for, and an idle   *)
(* time is neither negative nor longer than the time it is part of.        *)
THEOREM TypeCorrect ==
  ASSUME Lasting
  PROVE  Spec => []TypeOK
<1>1. Invariants => TypeOK
  <2> SUFFICES ASSUME Invariants PROVE TypeOK
    OBVIOUS
  <2>1. /\ request \in Requests
        /\ \A t \in DOMAIN merged : \A i \in DOMAIN merged[t] : merged[t][i] \in [ts : Int, end : Int]
    <3>1. request \in Requests /\ merged \in [TypeNames -> Intervals]
      BY DEF Invariants, IInv, Rows
    <3>2. ASSUME NEW t \in DOMAIN merged, NEW i \in DOMAIN merged[t]
          PROVE  merged[t][i] \in [ts : Int, end : Int]
      <4>1. merged[t] \in Seq([ts : Int, end : Int]) /\ i \in 1 .. Len(merged[t])
        BY <3>1 DEF Intervals
      <4> QED
        BY <4>1, ElementOfSeq
    <3> QED
      BY <3>1, <3>2
  <2>2. pc = "sweep" => left \subseteq Boundaries /\ running \in -7 .. 7 /\ spent \in [1 .. 7 -> Nat]
    BY SweepKinds DEF Invariants
  <2>3. KindInv /\ IdleTimeFits
    BY DEF Invariants
  <2> QED
    BY <2>1, <2>2, <2>3 DEF TypeOK, KindInv, StreamNames, IdleTimeFits
<1> QED
  BY <1>1, AlwaysInvariants, PTL

(* Of such traces, whatever order the rows and the boundaries of one time  *)
(* come in, what is reported for the temporal breakdown, the breakdown by  *)
(* types and the overlap is the number of microseconds in which just these *)
(* types run (get_temporal_breakdown, _get_gpu_kernel_type_time,           *)
(* get_comm_comp_overlap_value).                                           *)
THEOREM AlwaysReportsExact ==
  ASSUME Lasting
  PROVE  Spec => []ReportsExact
<1>1. Invariants => ReportsExact
  BY DEF Invariants
<1> QED
  BY <1>1, AlwaysInvariants, PTL

(* Of such traces the three categories of idle time of a stream add up to  *)
(* the time between its first and its last kernel in which none runs       *)
(* (_analyze_idle_time_for_stream).                                        *)
THEOREM AlwaysIdleIsGaps ==
  ASSUME Lasting
  PROVE  Spec => []IdleIsGaps
<1>1. Invariants => IdleIsGaps
  BY DEF Invariants
<1> QED
  BY <1>1, AlwaysInvariants, PTL

(* The assertions of idle_time_per_rank fail of no trace whose kernels do  *)
(* not end before they start: what a trace needs for the finding is a      *)
(* negative duration.                                                      *)
THEOREM AlwaysAssertionsHold ==
  ASSUME Lasting
  PROVE  Spec => []AssertionsHold
<1>1. Invariants => AssertionsHold
  BY DEF Invariants
<1> QED
  BY <1>1, AlwaysInvariants, PTL
=============================================================================
