----------------------------- MODULE EventOrder -----------------------------
(***************************************************************************)
(* The order of the two ends of the events of one thread, by which         *)
(* hta/common/trace_call_stack.py replays the thread's call stack, and the *)
(* sort that uses it.                                                      *)
(*                                                                         *)
(* An end is a row of the events array: [index, dur, kind, time].          *)
(***************************************************************************)
EXTENDS Integers, Sequences, SequencesExt

Open == -1
Close == 1

(* Two ends of which at least one belongs to an event of no duration. *)
LessThanWithZeroDuration(x, y) ==
  \/ x.dur = 0 /\ y.dur > 0 /\ y.kind = Close
  \/ x.dur > 0 /\ y.dur = 0 /\ x.kind = Open
  \/ /\ x.dur = 0 /\ y.dur = 0
     /\ \/ x.kind = Open /\ y.kind = Open /\ x.index < y.index
        \/ x.kind = Close /\ y.kind = Close /\ x.index > y.index
        \/ x.kind = Open /\ y.kind = Close

(* Mutant of LessThanAtSameTime: the shorter event opens first. *)
LessThanShorterOpens(x, y) ==
  \/ x.kind = Close /\ y.kind = Open
  \/ /\ x.kind = Open /\ y.kind = Open
     /\ x.dur < y.dur \/ (x.dur = y.dur /\ x.index < y.index)
  \/ /\ x.kind = Close /\ y.kind = Close
     /\ x.dur < y.dur \/ (x.dur = y.dur /\ x.index > y.index)

(* Ends of different events at the same time, neither of no duration: what *)
(* closes goes first, then the longer opens and the shorter closes first.  *)
LessThanAtSameTime(x, y) ==
  \/ x.kind = Close /\ y.kind = Open
  \/ /\ x.kind = Open /\ y.kind = Open
     /\ x.dur > y.dur \/ (x.dur = y.dur /\ x.index < y.index)
  \/ /\ x.kind = Close /\ y.kind = Close
     /\ x.dur < y.dur \/ (x.dur = y.dur /\ x.index > y.index)

(* _less_than *)
LessThan(x, y) ==
  \/ x.time < y.time
  \/ /\ x.time = y.time
     /\ IF x.index = y.index THEN x.kind = Open
        ELSE IF x.dur = 0 \/ y.dur = 0 THEN LessThanWithZeroDuration(x, y)
        ELSE LessThanAtSameTime(x, y)

IsEventsSorted(s) == \A i \in 1 .. (Len(s) - 1) : LessThan(s[i], s[i + 1])

-----------------------------------------------------------------------------
(* The elements of a finite set in the order of a strict total order. *)
InOrder(S, Before(_, _)) ==
  [i \in 1 .. Cardinality(S) |->
     CHOOSE x \in S : Cardinality({y \in S : Before(y, x)}) = i - 1]

(* The rows in the order that melt and sort_values("time") give them: by   *)
(* time, the opening ends of one time first, each kind in file order.      *)
OpenEnd(e) == [index |-> e.index, dur |-> e.dur, kind |-> Open, time |-> e.ts]
CloseEnd(e) == [index |-> e.index, dur |-> e.dur, kind |-> Close, time |-> e.ts + e.dur]
EndsOf(events) == {OpenEnd(e) : e \in events} \cup {CloseEnd(e) : e \in events}
MeltedBefore(x, y) ==
  \/ x.time < y.time
  \/ x.time = y.time /\ (x.kind < y.kind \/ (x.kind = y.kind /\ x.index < y.index))
Melted(events) == InOrder(EndsOf(events), MeltedBefore)

(* sorted(), for so few rows: the run the rows begin with is kept, or      *)
(* reversed, and every other row is inserted by binary search.             *)
RunLength(s, descending) ==
  LET breaks == {i \in 2 .. Len(s) : LessThan(s[i], s[i - 1]) # descending}
  IN IF breaks = {} THEN Len(s) ELSE (CHOOSE i \in breaks : \A j \in breaks : i <= j) - 1

(* Mutant of Insert: at the end. *)
InsertLast(s, x) == Append(s, x)

Insert(s, x) ==
  LET place[l \in 0 .. Len(s), r \in 0 .. Len(s)] ==
        LET p == (l + r) \div 2
        IN IF l >= r THEN l
           ELSE IF LessThan(x, s[p + 1]) THEN place[l, p] ELSE place[p + 1, r]
      at == place[0, Len(s)]
  IN SubSeq(s, 1, at) \o <<x>> \o SubSeq(s, at + 1, Len(s))

SortEvents(s) ==
  IF Len(s) < 2 THEN s
  ELSE LET descending == LessThan(s[2], s[1])
           run == RunLength(s, descending)
           head == SubSeq(s, 1, run)
       IN FoldLeft(Insert, IF descending THEN Reverse(head) ELSE head,
                   SubSeq(s, run + 1, Len(s)))

=============================================================================
