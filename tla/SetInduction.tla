---------------------------- MODULE SetInduction ----------------------------
(***************************************************************************)
(* Induction, stated with sets in the place of predicates, and what it     *)
(* shows of the functions that are defined by recursion in the other       *)
(* modules: the smallest and the greatest element of a set, sums over      *)
(* finite sets, and loops.                                                 *)
(***************************************************************************)
EXTENDS Sequences, FiniteSetsExt, FunctionTheorems, FiniteSetTheorems, TLAPS

(* A set of natural numbers has a least element. *)
LEMMA Least ==
  ASSUME NEW T, T \subseteq Nat, T # {}
  PROVE  Min(T) \in T /\ \A t \in T : Min(T) <= t
<1>1. PICK m \in T : \A t \in T : ~ (<<t, m>> \in OpToRel(<, Nat))
  BY NatLessThanWellFounded, WFMin
<1>2. \A t \in T : m <= t
  <2> SUFFICES ASSUME NEW t \in T, t < m PROVE FALSE
    OBVIOUS
  <2>1. <<t, m>> \in OpToRel(<, Nat)
    BY DEF OpToRel
  <2> QED
    BY <2>1, <1>1
<1> QED
  BY <1>2 DEF Min

(* The positions of a sequence. *)
LEMMA Positions ==
  ASSUME NEW n \in Nat
  PROVE  IsFiniteSet(1 .. n) /\ Cardinality(1 .. n) = n
<1>1. 1 \in Int /\ n \in Int
  OBVIOUS
<1>2. IsFiniteSet(1 .. n)
  BY <1>1, FS_Interval
<1>3. Cardinality(1 .. n) = IF 1 > n THEN 0 ELSE n - 1 + 1
  BY <1>1, FS_Interval
<1> QED
  BY <1>2, <1>3

(* Induction over the natural numbers. *)
LEMMA Naturals ==
  ASSUME NEW S, 0 \in S, \A n \in Nat : n \in S => n + 1 \in S
  PROVE  Nat \subseteq S
<1> DEFINE T == Nat \ S
<1>1. SUFFICES ASSUME T # {} PROVE FALSE
  OBVIOUS
<1>2. PICK m \in T : \A t \in T : m <= t
  <2> HIDE DEF T
  <2>1. T \subseteq Nat
    BY DEF T
  <2> QED
    BY <1>1, <2>1, Least
<1>3. m - 1 \in Nat /\ m - 1 \notin T /\ (m - 1) + 1 = m
  BY <1>2
<1> QED
  BY <1>2, <1>3

(* Induction over the subsets of a finite set. *)
LEMMA FiniteSubsets ==
  ASSUME NEW T, IsFiniteSet(T), NEW C, {} \in C,
         \A S \in SUBSET T : \A x \in T \ S : S \in C => S \cup {x} \in C
  PROVE  T \in C
<1> DEFINE N == {n \in Nat : \A S \in SUBSET T : Cardinality(S) = n => S \in C}
<1>1. \A S \in SUBSET T : IsFiniteSet(S) /\ Cardinality(S) \in Nat
  BY FS_Subset, FS_CardinalityType
<1>2. 0 \in N
  BY <1>1, FS_EmptySet
<1>3. ASSUME NEW n \in Nat, n \in N PROVE n + 1 \in N
  <2> SUFFICES ASSUME NEW S \in SUBSET T, Cardinality(S) = n + 1 PROVE S \in C
    OBVIOUS
  <2>1. S # {}
    BY FS_EmptySet
  <2>2. PICK x \in S : TRUE
    BY <2>1
  <2>3. IsFiniteSet(S \ {x}) /\ Cardinality(S \ {x}) = (n + 1) - 1
    <3>1. IsFiniteSet(S)
      BY <1>1
    <3> QED
      BY <2>2, <3>1, FS_RemoveElement
  <2>4. S \ {x} \in C
    BY <1>3, <2>3
  <2>5. x \in T \ (S \ {x}) /\ S = (S \ {x}) \cup {x} /\ S \ {x} \in SUBSET T
    BY <2>2
  <2> QED
    BY <2>4, <2>5
<1>4. Nat \subseteq N
  <2> HIDE DEF N
  <2> QED
    BY <1>2, <1>3, Naturals
<1> QED
  BY <1>1, <1>4

(* A finite set of integers has a greatest element, and a least one. *)
LEMMA Greatest ==
  ASSUME NEW T, IsFiniteSet(T), T \subseteq Int, T # {}
  PROVE  Max(T) \in T /\ \A t \in T : t <= Max(T)
<1> DEFINE C == {S \in SUBSET T : S = {} \/ \E m \in S : \A y \in S : m >= y}
<1>1. ASSUME NEW S \in SUBSET T, NEW x \in T \ S, S \in C PROVE S \cup {x} \in C
  <2>1. CASE S = {}
    <3>1. x >= x
      BY <1>1
    <3> QED
      BY <2>1, <3>1
  <2>2. CASE S # {}
    <3>1. PICK m \in S : \A y \in S : m >= y
      BY <1>1, <2>2
    <3>2. CASE m >= x
      BY <3>1, <3>2
    <3>3. CASE ~(m >= x)
      <4>1. \A y \in S \cup {x} : x >= y
        BY <3>1, <3>3
      <4> QED
        BY <4>1
    <3> QED
      BY <3>2, <3>3
  <2> QED
    BY <2>1, <2>2
<1>2. T \in C
  <2>1. {} \in C
    OBVIOUS
  <2> HIDE DEF C
  <2> QED
    BY <1>1, <2>1, FiniteSubsets
<1>3. PICK m \in T : \A y \in T : m >= y
  BY <1>2
<1>4. Max(T) \in T /\ \A y \in T : Max(T) >= y
  BY <1>3 DEF Max
<1> QED
  BY <1>4

LEMMA LeastInteger ==
  ASSUME NEW T, IsFiniteSet(T), T \subseteq Int, T # {}
  PROVE  Min(T) \in T /\ \A t \in T : Min(T) <= t
<1> DEFINE C == {S \in SUBSET T : S = {} \/ \E m \in S : \A y \in S : m <= y}
<1>1. ASSUME NEW S \in SUBSET T, NEW x \in T \ S, S \in C PROVE S \cup {x} \in C
  <2>1. CASE S = {}
    <3>1. x <= x
      BY <1>1
    <3> QED
      BY <2>1, <3>1
  <2>2. CASE S # {}
    <3>1. PICK m \in S : \A y \in S : m <= y
      BY <1>1, <2>2
    <3>2. CASE m <= x
      BY <3>1, <3>2
    <3>3. CASE ~(m <= x)
      <4>1. \A y \in S \cup {x} : x <= y
        BY <3>1, <3>3
      <4> QED
        BY <4>1
    <3> QED
      BY <3>2, <3>3
  <2> QED
    BY <2>1, <2>2
<1>2. T \in C
  <2>1. {} \in C
    OBVIOUS
  <2> HIDE DEF C
  <2> QED
    BY <1>1, <2>1, FiniteSubsets
<1>3. PICK m \in T : \A y \in T : m <= y
  BY <1>2
<1> QED
  BY <1>3 DEF Min

-----------------------------------------------------------------------------
(* Sums: SumFunctionOnSet is defined by recursion on the subsets of a set, *)
(* and takes the chosen element of each first.                             *)

Chosen(s) == CHOOSE x \in s : TRUE

(* g adds up f over every set of D, a set of sets that has with a set the  *)
(* one without its chosen element.                                         *)
Sums(g, f, D) ==
  g = [s \in D |-> IF s = {} THEN 0 ELSE f[Chosen(s)] + g[s \ {Chosen(s)}]]

SubsetsUpTo(T, n) == {s \in SUBSET T : Cardinality(s) <= n}

LEMMA ChosenIsElement ==
  ASSUME NEW T, IsFiniteSet(T), NEW s \in SUBSET T, s # {}
  PROVE  /\ Chosen(s) \in s /\ s \ {Chosen(s)} \in SUBSET T
         /\ Cardinality(s) \in Nat \ {0}
         /\ Cardinality(s \ {Chosen(s)}) = Cardinality(s) - 1
<1>1. Chosen(s) \in s
  BY DEF Chosen
<1>2. IsFiniteSet(s)
  BY FS_Subset
<1>3. Cardinality(s) \in Nat /\ Cardinality(s) # 0
  BY <1>2, FS_CardinalityType, FS_EmptySet
<1>4. Cardinality(s \ {Chosen(s)}) = Cardinality(s) - 1
  BY <1>1, <1>2, FS_RemoveElement
<1> QED
  BY <1>1, <1>3, <1>4

(* The recursion has a solution. *)
LEMMA SumsExist ==
  ASSUME NEW T, IsFiniteSet(T), NEW f
  PROVE  \E g : Sums(g, f, SUBSET T)
<1> DEFINE N == {n \in Nat : \E g : Sums(g, f, SubsetsUpTo(T, n))}
<1>1. \A s \in SUBSET T : IsFiniteSet(s) /\ Cardinality(s) \in Nat
  BY FS_Subset, FS_CardinalityType
<1>2. 0 \in N
  <2> DEFINE g == [s \in SubsetsUpTo(T, 0) |-> 0]
  <2>1. \A s \in SubsetsUpTo(T, 0) : s = {}
    BY <1>1, FS_EmptySet DEF SubsetsUpTo
  <2>2. Sums(g, f, SubsetsUpTo(T, 0))
    BY <2>1 DEF Sums
  <2> QED
    BY <2>2
<1>3. ASSUME NEW n \in Nat, n \in N PROVE n + 1 \in N
  <2>1. PICK g : Sums(g, f, SubsetsUpTo(T, n))
    BY <1>3
  <2> DEFINE h == [s \in SubsetsUpTo(T, n + 1) |->
                     IF s = {} THEN 0 ELSE f[Chosen(s)] + g[s \ {Chosen(s)}]]
  <2>2. ASSUME NEW s \in SubsetsUpTo(T, n) PROVE s \in SubsetsUpTo(T, n + 1) /\ h[s] = g[s]
    <3>1. s \in SubsetsUpTo(T, n + 1)
      BY <1>1 DEF SubsetsUpTo
    <3>2. g[s] = IF s = {} THEN 0 ELSE f[Chosen(s)] + g[s \ {Chosen(s)}]
      BY <2>1 DEF Sums
    <3> QED
      BY <3>1, <3>2
  <2>3. ASSUME NEW s \in SubsetsUpTo(T, n + 1), s # {}
        PROVE  s \ {Chosen(s)} \in SubsetsUpTo(T, n)
    <3>1. s \in SUBSET T /\ Cardinality(s) <= n + 1
      BY DEF SubsetsUpTo
    <3>2. /\ s \ {Chosen(s)} \in SUBSET T /\ Cardinality(s) \in Nat
          /\ Cardinality(s \ {Chosen(s)}) = Cardinality(s) - 1
      BY <2>3, <3>1, ChosenIsElement
    <3> QED
      BY <3>1, <3>2 DEF SubsetsUpTo
  <2>4. h = [s \in SubsetsUpTo(T, n + 1) |->
               IF s = {} THEN 0 ELSE f[Chosen(s)] + h[s \ {Chosen(s)}]]
    BY <2>2, <2>3
  <2>5. Sums(h, f, SubsetsUpTo(T, n + 1))
    BY <2>4 DEF Sums
  <2> QED
    BY <2>5
<1>4. Nat \subseteq N
  <2> HIDE DEF N
  <2> QED
    BY <1>2, <1>3, Naturals
<1>5. SubsetsUpTo(T, Cardinality(T)) = SUBSET T
  BY FS_Subset DEF SubsetsUpTo
<1>6. Cardinality(T) \in Nat
  BY FS_CardinalityType
<1> QED
  BY <1>4, <1>5, <1>6

(* Two solutions agree where both are defined. *)
LEMMA SumsAgree ==
  ASSUME NEW T, IsFiniteSet(T), NEW S \in SUBSET T, NEW f, NEW g, NEW h,
         Sums(g, f, SUBSET T), Sums(h, f, SUBSET S)
  PROVE  g[S] = h[S]
<1> DEFINE N == {n \in Nat : \A s \in SUBSET S : Cardinality(s) = n => g[s] = h[s]}
<1>1. IsFiniteSet(S)
  BY FS_Subset
<1>2. ASSUME NEW s \in SUBSET S
      PROVE  /\ g[s] = IF s = {} THEN 0 ELSE f[Chosen(s)] + g[s \ {Chosen(s)}]
             /\ h[s] = IF s = {} THEN 0 ELSE f[Chosen(s)] + h[s \ {Chosen(s)}]
  <2>1. s \in SUBSET T
    OBVIOUS
  <2> QED
    BY <2>1 DEF Sums
<1>3. 0 \in N
  <2> SUFFICES ASSUME NEW s \in SUBSET S, Cardinality(s) = 0 PROVE g[s] = h[s]
    OBVIOUS
  <2>1. s = {}
    BY <1>1, FS_Subset, FS_EmptySet
  <2> QED
    BY <1>2, <2>1
<1>4. ASSUME NEW n \in Nat, n \in N PROVE n + 1 \in N
  <2> SUFFICES ASSUME NEW s \in SUBSET S, Cardinality(s) = n + 1 PROVE g[s] = h[s]
    OBVIOUS
  <2>1. s # {}
    BY FS_EmptySet
  <2>2. s \ {Chosen(s)} \in SUBSET S /\ Cardinality(s \ {Chosen(s)}) = (n + 1) - 1
    BY <1>1, <2>1, ChosenIsElement
  <2>3. g[s \ {Chosen(s)}] = h[s \ {Chosen(s)}]
    BY <1>4, <2>2
  <2> QED
    BY <1>2, <2>1, <2>3
<1>5. Nat \subseteq N
  <2> HIDE DEF N
  <2> QED
    BY <1>3, <1>4, Naturals
<1>6. Cardinality(S) \in Nat
  BY <1>1, FS_CardinalityType
<1> QED
  BY <1>5, <1>6

LEMMA SumIsSums ==
  ASSUME NEW T, IsFiniteSet(T), NEW f
  PROVE  \E g : Sums(g, f, SUBSET T) /\ SumFunctionOnSet(f, T) = g[T]
<1> DEFINE g == CHOOSE h : h = [s \in SUBSET T |-> IF s = {} THEN 0
                                 ELSE f[CHOOSE x \in s : TRUE] + h[s \ {CHOOSE x \in s : TRUE}]]
<1>1. SumFunctionOnSet(f, T) = g[T]
  BY DEF SumFunctionOnSet, FoldFunctionOnSet, MapThenFoldSet
<1>2. g = [s \in SUBSET T |-> IF s = {} THEN 0
                     ELSE f[CHOOSE x \in s : TRUE] + g[s \ {CHOOSE x \in s : TRUE}]]
  <2>1. PICK h : Sums(h, f, SUBSET T)
    BY SumsExist
  <2>2. h = [s \in SUBSET T |-> IF s = {} THEN 0
               ELSE f[CHOOSE x \in s : TRUE] + h[s \ {CHOOSE x \in s : TRUE}]]
    BY <2>1 DEF Sums, Chosen
  <2> QED
    BY <2>2
<1>3. Sums(g, f, SUBSET T)
  BY <1>2 DEF Sums, Chosen
<1> QED
  BY <1>1, <1>3

LEMMA SumRecursion ==
  ASSUME NEW T, IsFiniteSet(T), NEW f
  PROVE  /\ SumFunctionOnSet(f, {}) = 0
         /\ T # {} => SumFunctionOnSet(f, T) = f[Chosen(T)] + SumFunctionOnSet(f, T \ {Chosen(T)})
<1>1. SumFunctionOnSet(f, {}) = 0
  <2>1. PICK g : Sums(g, f, SUBSET {}) /\ SumFunctionOnSet(f, {}) = g[{}]
    BY FS_EmptySet, SumIsSums
  <2>2. {} \in SUBSET {}
    OBVIOUS
  <2> QED
    BY <2>1, <2>2 DEF Sums
<1>2. ASSUME T # {}
      PROVE  SumFunctionOnSet(f, T) = f[Chosen(T)] + SumFunctionOnSet(f, T \ {Chosen(T)})
  <2> DEFINE S == T \ {Chosen(T)}
  <2>1. IsFiniteSet(S) /\ S \in SUBSET T
    BY FS_Subset
  <2>2. PICK g : Sums(g, f, SUBSET T) /\ SumFunctionOnSet(f, T) = g[T]
    BY SumIsSums
  <2>3. PICK h : Sums(h, f, SUBSET S) /\ SumFunctionOnSet(f, S) = h[S]
    BY <2>1, SumIsSums
  <2>4. g[S] = h[S]
    BY <2>1, <2>2, <2>3, SumsAgree
  <2>5. g[T] = f[Chosen(T)] + g[S]
    BY <1>2, <2>2 DEF Sums
  <2> QED
    BY <2>2, <2>3, <2>4, <2>5
<1> QED
  BY <1>1, <1>2

LEMMA RemovedSize ==
  ASSUME NEW T, IsFiniteSet(T), NEW s \in SUBSET T, NEW x \in s
  PROVE  /\ s \ {x} \in SUBSET T /\ Cardinality(s) \in Nat \ {0}
         /\ Cardinality(s \ {x}) = Cardinality(s) - 1
<1>1. IsFiniteSet(s)
  BY FS_Subset
<1>2. Cardinality(s) \in Nat /\ Cardinality(s) # 0
  BY <1>1, FS_CardinalityType, FS_EmptySet
<1>3. Cardinality(s \ {x}) = Cardinality(s) - 1
  BY <1>1, FS_RemoveElement
<1> QED
  BY <1>2, <1>3

LEMMA SumType ==
  ASSUME NEW T, IsFiniteSet(T), NEW f, \A x \in T : f[x] \in Int
  PROVE  SumFunctionOnSet(f, T) \in Int
<1> DEFINE N == {n \in Nat : \A S \in SUBSET T : Cardinality(S) = n => SumFunctionOnSet(f, S) \in Int}
<1>1. \A S \in SUBSET T : IsFiniteSet(S) /\ Cardinality(S) \in Nat
  BY FS_Subset, FS_CardinalityType
<1>2. 0 \in N
  BY <1>1, FS_EmptySet, SumRecursion
<1>3. ASSUME NEW n \in Nat, n \in N PROVE n + 1 \in N
  <2> SUFFICES ASSUME NEW S \in SUBSET T, Cardinality(S) = n + 1 PROVE SumFunctionOnSet(f, S) \in Int
    OBVIOUS
  <2>1. S # {} /\ IsFiniteSet(S)
    BY <1>1, FS_EmptySet
  <2>2. Chosen(S) \in S
    BY <2>1 DEF Chosen
  <2>3. SumFunctionOnSet(f, S) = f[Chosen(S)] + SumFunctionOnSet(f, S \ {Chosen(S)})
    BY <2>1, SumRecursion
  <2>4. S \ {Chosen(S)} \in SUBSET T /\ Cardinality(S \ {Chosen(S)}) = n
    BY <2>2, RemovedSize
  <2>5. SumFunctionOnSet(f, S \ {Chosen(S)}) \in Int
    BY <1>3, <2>4
  <2> QED
    BY <2>2, <2>3, <2>5
<1>4. Nat \subseteq N
  <2> HIDE DEF N
  <2> QED
    BY <1>2, <1>3, Naturals
<1> QED
  BY <1>1, <1>4

(* Any element of the set may be taken first. *)
LEMMA SumWithout ==
  ASSUME NEW T, IsFiniteSet(T), NEW f, \A x \in T : f[x] \in Int, NEW x \in T
  PROVE  SumFunctionOnSet(f, T) = f[x] + SumFunctionOnSet(f, T \ {x})
<1> DEFINE Sum(S) == SumFunctionOnSet(f, S)
           Good(S) == \A y \in S : Sum(S) = f[y] + Sum(S \ {y})
           N == {n \in Nat : \A S \in SUBSET T : Cardinality(S) = n => Good(S)}
<1>1. \A S \in SUBSET T : IsFiniteSet(S) /\ Cardinality(S) \in Nat /\ Sum(S) \in Int
  BY FS_Subset, FS_CardinalityType, SumType
<1>2. 0 \in N
  BY <1>1, FS_EmptySet
<1>3. ASSUME NEW n \in Nat, n \in N PROVE n + 1 \in N
  <2> SUFFICES ASSUME NEW S \in SUBSET T, Cardinality(S) = n + 1, NEW y \in S
               PROVE  Sum(S) = f[y] + Sum(S \ {y})
    OBVIOUS
  <2>1. PICK c \in S : Sum(S) = f[c] + Sum(S \ {c})
    <3>1. IsFiniteSet(S) /\ S # {}
      BY <1>1
    <3>2. Chosen(S) \in S
      BY DEF Chosen
    <3> QED
      BY <3>1, <3>2, SumRecursion
  <2>2. CASE y = c
    BY <2>1, <2>2
  <2>3. CASE y # c
    <3>1. /\ S \ {c} \in SUBSET T /\ Cardinality(S \ {c}) = n
          /\ S \ {y} \in SUBSET T /\ Cardinality(S \ {y}) = n
      BY RemovedSize
    <3>2. Good(S \ {c}) /\ Good(S \ {y})
      BY <1>3, <3>1
    <3>3. /\ Sum(S \ {c}) = f[y] + Sum((S \ {c}) \ {y})
          /\ Sum(S \ {y}) = f[c] + Sum((S \ {y}) \ {c})
      BY <2>3, <3>2
    <3>4. (S \ {c}) \ {y} = (S \ {y}) \ {c} /\ (S \ {y}) \ {c} \in SUBSET T
      OBVIOUS
    <3>5. f[y] \in Int /\ f[c] \in Int
      OBVIOUS
    <3> DEFINE rest == Sum((S \ {y}) \ {c})
    <3>6. rest \in Int
      BY <1>1, <3>4
    <3>7. Sum(S \ {c}) = f[y] + rest /\ Sum(S \ {y}) = f[c] + rest
      BY <3>3, <3>4
    <3>8. f[c] + (f[y] + rest) = f[y] + (f[c] + rest)
      <4> HIDE DEF rest
      <4> QED
        BY <3>5, <3>6
    <3> QED
      BY <2>1, <3>7, <3>8
  <2> QED
    BY <2>2, <2>3
<1>4. Nat \subseteq N
  <2> HIDE DEF N
  <2> QED
    BY <1>2, <1>3, Naturals
<1>5. Good(T)
  <2> HIDE DEF Good
  <2> QED
    BY <1>1, <1>4
<1> QED
  BY <1>5

LEMMA SumWith ==
  ASSUME NEW T, IsFiniteSet(T), NEW f, NEW x, x \notin T, \A y \in T \cup {x} : f[y] \in Int
  PROVE  SumFunctionOnSet(f, T \cup {x}) = f[x] + SumFunctionOnSet(f, T)
<1>1. IsFiniteSet(T \cup {x}) /\ (T \cup {x}) \ {x} = T
  BY FS_AddElement
<1> QED
  BY <1>1, SumWithout

(* Functions that are equal on a set have one sum, and one that is nowhere *)
(* greater has no greater sum.                                             *)
LEMMA SumAtMost ==
  ASSUME NEW T, IsFiniteSet(T), NEW f, NEW g,
         \A x \in T : f[x] \in Int /\ g[x] \in Int /\ f[x] <= g[x]
  PROVE  SumFunctionOnSet(f, T) <= SumFunctionOnSet(g, T)
<1> DEFINE C == {S \in SUBSET T : SumFunctionOnSet(f, S) <= SumFunctionOnSet(g, S)}
<1>1. {} \in C
  BY FS_EmptySet, SumRecursion
<1>2. ASSUME NEW S \in SUBSET T, NEW x \in T \ S, S \in C PROVE S \cup {x} \in C
  <2>1. IsFiniteSet(S)
    BY FS_Subset
  <2>2. SumFunctionOnSet(f, S) \in Int /\ SumFunctionOnSet(g, S) \in Int
    BY <2>1, SumType
  <2>3. SumFunctionOnSet(f, S \cup {x}) = f[x] + SumFunctionOnSet(f, S)
    BY <2>1, SumWith
  <2>4. SumFunctionOnSet(g, S \cup {x}) = g[x] + SumFunctionOnSet(g, S)
    BY <2>1, SumWith
  <2> QED
    BY <1>2, <2>2, <2>3, <2>4
<1>3. T \in C
  <2> HIDE DEF C
  <2> QED
    BY <1>1, <1>2, FiniteSubsets
<1> QED
  BY <1>3

LEMMA SumEqual ==
  ASSUME NEW T, IsFiniteSet(T), NEW f, NEW g, \A x \in T : f[x] \in Int /\ f[x] = g[x]
  PROVE  SumFunctionOnSet(f, T) = SumFunctionOnSet(g, T)
<1>1. SumFunctionOnSet(f, T) <= SumFunctionOnSet(g, T)
  BY SumAtMost
<1>2. SumFunctionOnSet(g, T) <= SumFunctionOnSet(f, T)
  BY SumAtMost
<1>3. SumFunctionOnSet(f, T) \in Int /\ SumFunctionOnSet(g, T) \in Int
  BY SumType
<1> QED
  BY <1>1, <1>2, <1>3

(* A sum without negative summands is none, and is no less than one of a   *)
(* part of its set.                                                        *)
LEMMA SumOfPart ==
  ASSUME NEW T, IsFiniteSet(T), NEW f, \A x \in T : f[x] \in Nat, NEW U \in SUBSET T
  PROVE  /\ SumFunctionOnSet(f, U) \in Nat
         /\ SumFunctionOnSet(f, U) <= SumFunctionOnSet(f, T)
<1> DEFINE Sum(S) == SumFunctionOnSet(f, S)
           C == {S \in SUBSET T : Sum(S) \in Nat /\ Sum(S \cap U) \in Nat /\ Sum(S \cap U) <= Sum(S)}
<1>1. {} \in C
  <2>1. Sum({}) = 0 /\ {} \cap U = {}
    BY FS_EmptySet, SumRecursion
  <2> QED
    BY <2>1
<1>2. ASSUME NEW S \in SUBSET T, NEW x \in T \ S, S \in C PROVE S \cup {x} \in C
  <2>1. IsFiniteSet(S) /\ IsFiniteSet(S \cap U)
    BY FS_Subset
  <2>2. Sum(S \cup {x}) = f[x] + Sum(S)
    <3>1. x \notin S /\ \A y \in S \cup {x} : f[y] \in Int
      OBVIOUS
    <3> QED
      BY <2>1, <3>1, SumWith
  <2>3. x \in U => (S \cup {x}) \cap U = (S \cap U) \cup {x}
    OBVIOUS
  <2>4. Sum((S \cap U) \cup {x}) = f[x] + Sum(S \cap U)
    <3>1. x \notin S \cap U /\ \A y \in (S \cap U) \cup {x} : f[y] \in Int
      OBVIOUS
    <3> QED
      BY <2>1, <3>1, SumWith
  <2>5. x \notin U => (S \cup {x}) \cap U = S \cap U
    OBVIOUS
  <2>6. f[x] \in Nat /\ Sum(S) \in Nat /\ Sum(S \cap U) \in Nat /\ Sum(S \cap U) <= Sum(S)
    BY <1>2
  <2>7. /\ Sum(S \cup {x}) \in Nat /\ Sum((S \cup {x}) \cap U) \in Nat
        /\ Sum((S \cup {x}) \cap U) <= Sum(S \cup {x})
    <3> HIDE DEF Sum
    <3> QED
      BY <2>2, <2>3, <2>4, <2>5, <2>6
  <2> QED
    BY <2>7
<1>3. T \in C
  <2> HIDE DEF C
  <2> QED
    BY <1>1, <1>2, FiniteSubsets
<1>4. T \cap U = U
  OBVIOUS
<1> QED
  BY <1>3, <1>4

(* What a function makes of a finite set is finite. *)
LEMMA Image ==
  ASSUME NEW S, IsFiniteSet(S), NEW f
  PROVE  /\ IsFiniteSet({f[x] : x \in S})
         /\ (\A x, y \in S : f[x] = f[y] => x = y) =>
               Cardinality({f[x] : x \in S}) = Cardinality(S)
<1> DEFINE T == {f[x] : x \in S}
           g == [x \in S |-> f[x]]
<1>1. g \in [S -> T] /\ \A t \in T : \E x \in S : g[x] = t
  OBVIOUS
<1>2. g \in Surjection(S, T)
  <2> HIDE DEF g, T
  <2> QED
    BY <1>1, Fun_IsSurj
<1>3. (\A x, y \in S : f[x] = f[y] => x = y) => g \in Injection(S, T)
  <2> SUFFICES ASSUME \A x, y \in S : f[x] = f[y] => x = y PROVE g \in Injection(S, T)
    OBVIOUS
  <2>1. \A x, y \in S : g[x] = g[y] => x = y
    OBVIOUS
  <2> HIDE DEF g, T
  <2> QED
    BY <1>1, <2>1, Fun_IsInj
<1> HIDE DEF g, T
<1>4. IsFiniteSet(T) /\ (g \in Injection(S, T) => Cardinality(T) = Cardinality(S))
  BY <1>2, FS_Surjection
<1>5. T = {f[x] : x \in S}
  BY DEF T
<1> QED
  BY <1>3, <1>4, <1>5

(* The parts that a finite set is cut into have its size together. *)
LEMMA SizeOfParts ==
  ASSUME NEW T, IsFiniteSet(T), NEW f, \A x \in T : IsFiniteSet(f[x]),
         \A x, y \in T : x # y => f[x] \cap f[y] = {}
  PROVE  /\ IsFiniteSet(UNION {f[x] : x \in T})
         /\ Cardinality(UNION {f[x] : x \in T}) = SumFunctionOnSet([x \in T |-> Cardinality(f[x])], T)
<1> DEFINE size == [x \in T |-> Cardinality(f[x])]
           Parts(S) == UNION {f[x] : x \in S}
           C == {S \in SUBSET T : /\ IsFiniteSet(Parts(S))
                                  /\ Cardinality(Parts(S)) = SumFunctionOnSet(size, S)}
<1>1. \A x \in T : size[x] = Cardinality(f[x]) /\ size[x] \in Int
  BY FS_CardinalityType
<1>2. {} \in C
  <2>1. Parts({}) = {}
    OBVIOUS
  <2>2. SumFunctionOnSet(size, {}) = 0
    BY FS_EmptySet, SumRecursion
  <2> HIDE DEF Parts, size
  <2> QED
    BY <2>1, <2>2, FS_EmptySet
<1>3. ASSUME NEW S \in SUBSET T, NEW x \in T \ S, S \in C PROVE S \cup {x} \in C
  <2>1. Parts(S \cup {x}) = Parts(S) \cup f[x] /\ Parts(S) \cap f[x] = {}
    OBVIOUS
  <2>2. /\ IsFiniteSet(Parts(S)) /\ Cardinality(Parts(S)) = SumFunctionOnSet(size, S)
        /\ IsFiniteSet(f[x])
    BY <1>3
  <2>3. SumFunctionOnSet(size, S \cup {x}) = size[x] + SumFunctionOnSet(size, S)
    <3> HIDE DEF size
    <3>1. IsFiniteSet(S) /\ x \notin S /\ \A y \in S \cup {x} : size[y] \in Int
      BY <1>1, FS_Subset
    <3> QED
      BY <3>1, SumWith
  <2>4. /\ IsFiniteSet(Parts(S \cup {x}))
        /\ Cardinality(Parts(S \cup {x})) = Cardinality(Parts(S)) + Cardinality(f[x])
    <3> HIDE DEF Parts
    <3>1. /\ IsFiniteSet(Parts(S) \cup f[x])
          /\ Cardinality(Parts(S) \cup f[x])
               = Cardinality(Parts(S)) + Cardinality(f[x]) - Cardinality(Parts(S) \cap f[x])
      BY <2>2, FS_Union
    <3>2. Cardinality(Parts(S)) \in Nat /\ Cardinality(f[x]) \in Nat
      BY <2>2, FS_CardinalityType
    <3>3. Cardinality(Parts(S) \cap f[x]) = 0
      BY <2>1, FS_EmptySet
    <3>4. Cardinality(Parts(S)) + Cardinality(f[x]) - 0 = Cardinality(Parts(S)) + Cardinality(f[x])
      BY <3>2
    <3>5. Cardinality(Parts(S) \cup f[x]) = Cardinality(Parts(S)) + Cardinality(f[x])
      BY <3>1, <3>3, <3>4
    <3> QED
      BY <2>1, <3>1, <3>5
  <2>5. Cardinality(Parts(S)) \in Nat /\ size[x] = Cardinality(f[x]) /\ size[x] \in Int
    BY <1>1, <2>2, FS_CardinalityType
  <2> HIDE DEF Parts, size
  <2> QED
    BY <2>2, <2>3, <2>4, <2>5
<1>4. T \in C
  <2> HIDE DEF C
  <2> QED
    BY <1>2, <1>3, FiniteSubsets
<1> QED
  BY <1>4

-----------------------------------------------------------------------------
(* A sequence with one element more has that element and the others. *)
LEMMA Appended ==
  ASSUME NEW s, s \in Seq(Range(s)), NEW x
  PROVE  /\ Append(s, x) \in Seq(Range(Append(s, x)))
         /\ Len(s) \in Nat /\ DOMAIN s = 1 .. Len(s)
         /\ DOMAIN Append(s, x) = 1 .. (Len(s) + 1)
         /\ \A i \in DOMAIN s : Append(s, x)[i] = s[i]
         /\ Append(s, x)[Len(s) + 1] = x
<1> DEFINE S == Range(s) \cup {x}
<1>1. s \in Seq(S) /\ x \in S
  OBVIOUS
<1> HIDE DEF S
<1>2. /\ Append(s, x) \in Seq(S) /\ Len(Append(s, x)) = Len(s) + 1
      /\ \A i \in 1 .. Len(s) : Append(s, x)[i] = s[i]
      /\ Append(s, x)[Len(s) + 1] = x
  BY <1>1
<1>3. /\ Len(s) \in Nat /\ DOMAIN s = 1 .. Len(s)
      /\ DOMAIN Append(s, x) = 1 .. (Len(s) + 1)
  BY <1>1, <1>2
<1>4. \A i \in 1 .. Len(Append(s, x)) : Append(s, x)[i] \in Range(Append(s, x))
  BY <1>2 DEF Range
<1> QED
  BY <1>2, <1>3, <1>4

-----------------------------------------------------------------------------
(* What is defined by recursion on the natural numbers exists: the step    *)
(* taken again and again, from a first value.                              *)
LEMMA Iterates ==
  ASSUME NEW D, NEW base \in D, NEW step \in [D -> D]
  PROVE  \E f \in [Nat -> D] : f[0] = base /\ \A k \in Nat : f[k + 1] = step[f[k]]
<1> DEFINE UpTo(n) == {g \in [0 .. n -> D] : g[0] = base /\ \A k \in 0 .. n - 1 : g[k + 1] = step[g[k]]}
           N == {n \in Nat : UpTo(n) # {}}
           Same == {k \in Nat : \A m, n \in Nat : \A g \in UpTo(m), h \in UpTo(n) :
                                  k <= m /\ k <= n => g[k] = h[k]}
           Some(k) == CHOOSE g \in UpTo(k) : TRUE
           f == [k \in Nat |-> Some(k)[k]]
<1>1. 0 \in N
  <2>1. [k \in 0 .. 0 |-> base] \in UpTo(0)
    OBVIOUS
  <2> QED
    BY <2>1
<1>2. ASSUME NEW n \in Nat, n \in N PROVE n + 1 \in N
  <2>1. PICK g \in UpTo(n) : TRUE
    BY <1>2
  <2> DEFINE h == [k \in 0 .. n + 1 |-> IF k = n + 1 THEN step[g[n]] ELSE g[k]]
  <2>2. n \in 0 .. n /\ g[n] \in D /\ step[g[n]] \in D
    BY <2>1
  <2>3. h \in [0 .. n + 1 -> D] /\ h[0] = base
    BY <2>1, <2>2
  <2>4. \A k \in 0 .. n : h[k + 1] = step[h[k]]
    <3> SUFFICES ASSUME NEW k \in 0 .. n PROVE h[k + 1] = step[h[k]]
      OBVIOUS
    <3>1. CASE k = n
      BY <3>1
    <3>2. CASE k # n
      <4>1. k \in 0 .. n - 1 /\ k + 1 # n + 1 /\ k # n + 1
        BY <3>2
      <4> QED
        BY <2>1, <4>1
    <3> QED
      BY <3>1, <3>2
  <2>5. 0 .. (n + 1) - 1 = 0 .. n
    OBVIOUS
  <2> QED
    BY <2>3, <2>4, <2>5
<1>3. Nat \subseteq N
  <2> HIDE DEF N
  <2> QED
    BY <1>1, <1>2, Naturals
<1>4. Nat \subseteq Same
  <2>1. 0 \in Same
    OBVIOUS
  <2>2. ASSUME NEW k \in Nat, k \in Same PROVE k + 1 \in Same
    <3> SUFFICES ASSUME NEW m \in Nat, NEW n \in Nat, NEW g \in UpTo(m), NEW h \in UpTo(n),
                        k + 1 <= m, k + 1 <= n
                 PROVE  g[k + 1] = h[k + 1]
      OBVIOUS
    <3>1. k \in 0 .. m - 1 /\ k \in 0 .. n - 1 /\ k <= m /\ k <= n
      OBVIOUS
    <3>2. g[k] = h[k]
      BY <2>2, <3>1
    <3> QED
      BY <3>1, <3>2
  <2> HIDE DEF Same
  <2> QED
    BY <2>1, <2>2, Naturals
<1>5. ASSUME NEW k \in Nat PROVE Some(k) \in UpTo(k)
  BY <1>3
<1>6. f \in [Nat -> D] /\ f[0] = base
  <2>1. ASSUME NEW k \in Nat PROVE f[k] \in D
    <3>1. k \in 0 .. k
      OBVIOUS
    <3> QED
      BY <1>5, <3>1
  <2>2. f[0] = base
    BY <1>5
  <2> QED
    BY <2>1, <2>2
<1>7. ASSUME NEW k \in Nat PROVE f[k + 1] = step[f[k]]
  <2>1. Some(k) \in UpTo(k) /\ Some(k + 1) \in UpTo(k + 1) /\ k + 1 \in Nat
    <3> HIDE DEF UpTo, Some
    <3> QED
      BY <1>5
  <2>2. Some(k)[k] = Some(k + 1)[k]
    <3>1. k \in Same
      <4> HIDE DEF Same
      <4> QED
        BY <1>4
    <3>2. k <= k /\ k <= k + 1
      OBVIOUS
    <3> HIDE DEF UpTo, Some
    <3> QED
      BY <2>1, <3>1, <3>2
  <2>3. Some(k + 1)[k + 1] = step[Some(k + 1)[k]]
    <3>1. k \in 0 .. (k + 1) - 1
      OBVIOUS
    <3> HIDE DEF Some
    <3> QED
      BY <2>1, <3>1
  <2> QED
    BY <2>2, <2>3
<1> QED
  BY <1>6, <1>7

=============================================================================
