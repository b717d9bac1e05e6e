------------------------------ MODULE WorkQueue -----------------------------
(***************************************************************************)
(* What the queue length of a CUDA stream promises to be: the number of    *)
(* the operations that were enqueued and did not start yet.  One queue is  *)
(* looked at after the other, and each starts empty.                       *)
(***************************************************************************)
EXTENDS Integers, FiniteSets

CONSTANT Work   \* the operations

VARIABLES
  outstanding,  \* those in the queue
  length        \* the length that is reported

Init == outstanding = {} /\ length = 0

Enqueue(w) ==
  /\ w \notin outstanding
  /\ outstanding' = outstanding \cup {w}
  /\ length' = length + 1

Start(w) ==
  /\ w \in outstanding
  /\ outstanding' = outstanding \ {w}
  /\ length' = length - 1

Reset == outstanding' = {} /\ length' = 0

Next == Reset \/ \E w \in Work : Enqueue(w) \/ Start(w)

Spec == Init /\ [][Next]_<<outstanding, length>>
=============================================================================
