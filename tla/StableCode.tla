----------------------------- MODULE StableCode -----------------------------
(***************************************************************************)
(* What a symbol table promises: a numbering of names that starts empty,   *)
(* gives every name at most one number and every number at most one name,  *)
(* uses the numbers from 0 up without a gap, and never takes one back.     *)
(* Coder is a set of such numberings, which grow independently.            *)
(***************************************************************************)
EXTENDS Integers

CONSTANTS Coder, Name

VARIABLE code   \* code[o] maps the names that o has numbered to their numbers

Numbering(c) ==
  /\ DOMAIN c \subseteq Name
  /\ \A s, t \in DOMAIN c : c[s] = c[t] => s = t
  /\ \A s \in DOMAIN c :
       c[s] \in Nat /\ \A n \in 0 .. c[s] : \E t \in DOMAIN c : c[t] = n

Init == code = [o \in Coder |-> [s \in {} |-> 0]]

(* o numbers names that it has not numbered yet. *)
Grow(o) ==
  /\ \A other \in Coder \ {o} : code'[other] = code[other]
  /\ Numbering(code'[o])
  /\ DOMAIN code[o] \subseteq DOMAIN code'[o]
  /\ \A s \in DOMAIN code[o] : code'[o][s] = code[o][s]

Next == \E o \in Coder : Grow(o)

Spec == Init /\ [][Next]_code
=============================================================================
