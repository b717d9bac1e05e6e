----------------------- MODULE TraceSymbolTableProofs -----------------------
(***************************************************************************)
(* Theorems about TraceSymbolTable for any objects, strings, pool size and *)
(* arguments that satisfy its assumptions.                                 *)
(***************************************************************************)
EXTENDS TraceSymbolTable, FunctionTheorems, FiniteSetTheorems,
        SequenceTheorems, TLAPS

(* What the loop of add_symbols appends: exactly the symbols that are not  *)
(* known, each once (trace_symbol_table.py:76-80).                         *)
LEMMA ArrivalsAreFresh ==
  ASSUME NEW S, NEW symbols \in Seq(S), NEW known,
         NEW new \in Arrivals(symbols, known)
  PROVE  /\ new \in Seq(S)
         /\ Range(new) = Range(symbols) \ known
         /\ \A i, j \in DOMAIN new : new[i] = new[j] => i = j
<1> DEFINE fresh == Range(symbols) \ known
<1>1. IsFiniteSet(fresh)
  <2>1. symbols \in Surjection(1 .. Len(symbols), Range(symbols))
    BY Fun_RangeProperties
  <2>2. IsFiniteSet(1 .. Len(symbols))
    BY FS_Interval
  <2>3. IsFiniteSet(Range(symbols))
    BY <2>1, <2>2, FS_Surjection
  <2> QED
    BY <2>3, FS_Subset
<1>2. Cardinality(fresh) \in Nat
  BY <1>1, FS_CardinalityType
<1>3. /\ new \in [1 .. Cardinality(fresh) -> fresh]
      /\ Range(new) = fresh
      /\ \A i, j \in DOMAIN new : i < j => Precedes(symbols, new[i], new[j])
  BY DEF Arrivals
<1>4. fresh \subseteq S
  BY DEF Range
<1>5. new \in Seq(S)
  <2>1. new \in [1 .. Cardinality(fresh) -> S]
    BY <1>3, <1>4
  <2> QED
    BY <1>2, <2>1, SeqDef
<1>6. ASSUME NEW i \in DOMAIN new, NEW j \in DOMAIN new, i < j
      PROVE  new[i] # new[j]
  <2>1. PICK p \in DOMAIN symbols : 
          symbols[p] = new[i] /\ \A q \in 1 .. p : symbols[q] # new[j]
    BY <1>3, <1>6 DEF Precedes
  <2>2. p \in 1 .. p
    OBVIOUS
  <2> QED
    BY <2>1, <2>2
<1>7. \A i, j \in DOMAIN new : i \in Int /\ j \in Int
  BY <1>2, <1>3
<1>8. \A i, j \in DOMAIN new : new[i] = new[j] => i = j
  BY <1>6, <1>7
<1> QED
  BY <1>3, <1>5, <1>8

(* Appending fresh symbols keeps a table's type and its two directions in  *)
(* agreement, and leaves what it already held alone                        *)
(* (trace_symbol_table.py:78-80).                                          *)
LEMMA ExtendedKeeps ==
  ASSUME NEW t, TableType(t), TwoWay(t), NEW new \in Seq(Names),
         Range(new) \cap Known(t) = {},
         \A i, j \in DOMAIN new : new[i] = new[j] => i = j
  PROVE  /\ TableType(Extended(t, new))
         /\ TwoWay(Extended(t, new))
         /\ Extended(t, new).sym_table = t.sym_table \o new
         /\ Range(t.sym_table \o new) = Range(t.sym_table) \cup Range(new)
         /\ Extended(t, new).table_series = t.table_series
         /\ Extended(t, new).index_series = t.index_series
         /\ \A s \in Known(t) : Extended(t, new).sym_index[s] = t.sym_index[s]
<1> DEFINE e == Extended(t, new)
<1>1. /\ e.sym_table = t.sym_table \o new
      /\ e.sym_index = [s \in Known(t) \cup Range(new) |->
                          IF s \in Known(t) THEN t.sym_index[s] ELSE NewId(t, new, s)]
      /\ e.table_series = t.table_series
      /\ e.index_series = t.index_series
      /\ e = [sym_table |-> e.sym_table, sym_index |-> e.sym_index,
              table_series |-> e.table_series, index_series |-> e.index_series]
  BY DEF Extended
<1>2. /\ t.sym_table \in Seq(Names) /\ t.sym_index \in [Known(t) -> Nat]
      /\ t.table_series \in Seq(Names)
      /\ t.index_series \in [DOMAIN t.index_series -> Nat]
      /\ Known(t) \subseteq Names /\ DOMAIN t.index_series \subseteq Names
      /\ Known(t) = Range(t.sym_table)
      /\ \A p \in DOMAIN t.sym_table : t.sym_index[t.sym_table[p]] = p - 1
  BY DEF TableType, TwoWay
<1> HIDE DEF e
<1>3. ASSUME NEW i \in DOMAIN new
      PROVE  new[i] \notin Known(t) /\ NewId(t, new, new[i]) = Len(t.sym_table) + i - 1
  BY DEF Range, NewId
<1>4. \A s \in Range(new) : \E i \in DOMAIN new : s = new[i]
  BY DEF Range
<1>5. \A i \in DOMAIN new : Len(t.sym_table) + i - 1 \in Nat
  BY <1>2
<1>6. Known(e) = Known(t) \cup Range(new)
  BY <1>1 DEF Known
<1>7. /\ e.sym_table \in Seq(Names)
      /\ Len(e.sym_table) = Len(t.sym_table) + Len(new)
      /\ \A p \in 1 .. Len(t.sym_table) : e.sym_table[p] = t.sym_table[p]
      /\ \A i \in 1 .. Len(new) : e.sym_table[Len(t.sym_table) + i] = new[i]
  BY <1>1, <1>2
<1>8. Range(e.sym_table) = Range(t.sym_table) \cup Range(new)
  <2>1. ASSUME NEW p \in DOMAIN e.sym_table
        PROVE  e.sym_table[p] \in Range(t.sym_table) \cup Range(new)
    <3>1. CASE p \in 1 .. Len(t.sym_table)
      BY <1>2, <1>7, <3>1 DEF Range
    <3>2. CASE p \notin 1 .. Len(t.sym_table)
      <4>1. p - Len(t.sym_table) \in 1 .. Len(new)
        BY <1>2, <1>7, <3>2
      <4>2. e.sym_table[p] = new[p - Len(t.sym_table)]
        BY <1>2, <1>7, <4>1
      <4> QED
        BY <4>1, <4>2 DEF Range
    <3> QED
      BY <3>1, <3>2
  <2>2. ASSUME NEW p \in DOMAIN t.sym_table
        PROVE  t.sym_table[p] \in Range(e.sym_table)
    <3>1. Len(t.sym_table) \in Nat /\ Len(new) \in Nat /\ p \in 1 .. Len(t.sym_table)
      BY <1>2
    <3>2. p \in DOMAIN e.sym_table
      BY <1>7, <3>1
    <3>3. e.sym_table[p] = t.sym_table[p]
      BY <1>7, <3>1
    <3> QED
      BY <3>2, <3>3 DEF Range
  <2>3. ASSUME NEW i \in DOMAIN new
        PROVE  new[i] \in Range(e.sym_table)
    <3>1. Len(t.sym_table) + i \in DOMAIN e.sym_table
      BY <1>2, <1>7
    <3> QED
      BY <1>7, <3>1 DEF Range
  <2> QED
    BY <2>1, <2>2, <2>3 DEF Range
<1>9. e.sym_index \in [Known(e) -> Nat]
  BY <1>1, <1>2, <1>3, <1>4, <1>5, <1>6
<1>10. Known(e) \subseteq Names
  BY <1>2, <1>6 DEF Range
<1>11. TableType(e)
  BY <1>1, <1>2, <1>7, <1>9, <1>10 DEF TableType
<1>12. ASSUME NEW p \in DOMAIN e.sym_table
       PROVE  e.sym_index[e.sym_table[p]] = p - 1
  <2>1. CASE p \in 1 .. Len(t.sym_table)
    BY <1>1, <1>2, <1>7, <2>1 DEF Range
  <2>2. CASE p \notin 1 .. Len(t.sym_table)
    <3> DEFINE i == p - Len(t.sym_table)
    <3>1. i \in 1 .. Len(new) /\ p = Len(t.sym_table) + i
      BY <1>2, <1>7, <2>2
    <3>2. i \in DOMAIN new /\ e.sym_table[p] = new[i]
      BY <1>7, <3>1
    <3>3. new[i] \in Range(new)
      BY <3>2 DEF Range
    <3> QED
      BY <1>1, <1>3, <3>1, <3>2, <3>3
  <2> QED
    BY <2>1, <2>2
<1>13. TwoWay(e)
  BY <1>2, <1>6, <1>8, <1>12 DEF TwoWay
<1> QED
  BY <1>1, <1>8, <1>11, <1>13 DEF e

(* What every table object is at every moment: its attributes have their   *)
(* types, the two directions agree, and a series is never longer than the  *)
(* table, nor different from it when it is as long.                        *)
SeriesOf(t) ==
  /\ Len(t.table_series) <= Len(t.sym_table)
  /\ Len(t.table_series) = Len(t.sym_table)
       => t.table_series = t.sym_table /\ t.index_series = t.sym_index
Sound(t) == TableType(t) /\ TwoWay(t) /\ SeriesOf(t)

(* A table keeps what it has: later's list begins with earlier's, and the  *)
(* ids of earlier are ids of later.                                        *)
Keeps(earlier, later) ==
  /\ Len(earlier.sym_table) <= Len(later.sym_table)
  /\ \A p \in DOMAIN earlier.sym_table :
       p \in DOMAIN later.sym_table /\ later.sym_table[p] = earlier.sym_table[p]
  /\ Known(earlier) \subseteq Known(later)
  /\ \A s \in Known(earlier) : later.sym_index[s] = earlier.sym_index[s]

(* The table a constructor starts from is sound. *)
LEMMA EmptyTableSound ==
  Sound(EmptyTable)
<1> DEFINE t == EmptyTable
<1>1. /\ t.sym_table = << >> /\ t.sym_index = EmptyMap
      /\ t.table_series = << >> /\ t.index_series = EmptyMap
      /\ t = [sym_table |-> t.sym_table, sym_index |-> t.sym_index,
              table_series |-> t.table_series, index_series |-> t.index_series]
  BY DEF EmptyTable, TableOf
<1> HIDE DEF t
<1>2. DOMAIN EmptyMap = {} /\ EmptyMap \in [{} -> Nat]
  BY DEF EmptyMap
<1>3. << >> \in Seq(Names) /\ Len(<< >>) = 0 /\ DOMAIN << >> = {}
  OBVIOUS
<1>4. Known(t) = {}
  BY <1>1, <1>2 DEF Known
<1>5. TableType(t)
  BY <1>1, <1>2, <1>3, <1>4 DEF TableType
<1>6. TwoWay(t)
  BY <1>1, <1>3, <1>4 DEF TwoWay, Range
<1>7. SeriesOf(t)
  BY <1>1, <1>3 DEF SeriesOf
<1> QED
  BY <1>5, <1>6, <1>7 DEF t, Sound

(* Adding new symbols keeps a table sound. *)
LEMMA ExtendedSound ==
  ASSUME NEW t, Sound(t), NEW symbols \in Seq(Names),
         NEW new \in Arrivals(symbols, Known(t))
  PROVE  /\ Sound(Extended(t, new))
         /\ Keeps(t, Extended(t, new))
         /\ Range(Extended(t, new).sym_table) = Range(t.sym_table) \cup Range(symbols)
<1> DEFINE e == Extended(t, new)
<1>1. /\ new \in Seq(Names)
      /\ Range(new) = Range(symbols) \ Known(t)
      /\ \A i, j \in DOMAIN new : new[i] = new[j] => i = j
  BY ArrivalsAreFresh
<1>2. TableType(t) /\ TwoWay(t) /\ SeriesOf(t)
  BY DEF Sound
<1>3. /\ TableType(e) /\ TwoWay(e)
      /\ e.sym_table = t.sym_table \o new
      /\ Range(e.sym_table) = Range(t.sym_table) \cup Range(new)
      /\ e.table_series = t.table_series /\ e.index_series = t.index_series
      /\ \A s \in Known(t) : e.sym_index[s] = t.sym_index[s]
  BY <1>1, <1>2, ExtendedKeeps
<1> HIDE DEF e
<1>4. /\ t.sym_table \in Seq(Names) /\ t.table_series \in Seq(Names)
      /\ t.sym_index \in [Known(t) -> Nat] /\ Known(t) = Range(t.sym_table)
      /\ e.sym_index \in [Known(e) -> Nat] /\ Known(e) = Range(e.sym_table)
  BY <1>2, <1>3 DEF TableType, TwoWay
<1>5. /\ Len(e.sym_table) = Len(t.sym_table) + Len(new)
      /\ \A p \in 1 .. Len(t.sym_table) : e.sym_table[p] = t.sym_table[p]
      /\ e.sym_table \in Seq(Names)
  BY <1>1, <1>3, <1>4
<1>6. Len(t.sym_table) \in Nat /\ Len(new) \in Nat /\ Len(t.table_series) \in Nat
  BY <1>1, <1>4
<1>7. Keeps(t, e)
  BY <1>3, <1>4, <1>5, <1>6 DEF Keeps
<1>8. ASSUME Len(e.table_series) = Len(e.sym_table)
      PROVE  e.table_series = e.sym_table /\ e.index_series = e.sym_index
  <2>1. Len(new) = 0 /\ Len(t.table_series) = Len(t.sym_table)
    BY <1>2, <1>3, <1>5, <1>6, <1>8 DEF SeriesOf
  <2>2. new = << >>
    BY <1>1, <2>1
  <2>3. e.sym_table = t.sym_table
    BY <1>3, <1>4, <2>2, ConcatEmptySeq
  <2>4. e.sym_index = t.sym_index
    BY <1>3, <1>4, <2>3
  <2> QED
    BY <1>2, <1>3, <2>1, <2>3, <2>4 DEF SeriesOf
<1>9. SeriesOf(e)
  BY <1>2, <1>3, <1>5, <1>6, <1>8 DEF SeriesOf
<1>10. Range(e.sym_table) = Range(t.sym_table) \cup Range(symbols)
  BY <1>1, <1>3, <1>4
<1> QED
  BY <1>3, <1>7, <1>9, <1>10 DEF e, Sound

(* Refreshing the series keeps a table sound. *)
LEMMA RefreshedSound ==
  ASSUME NEW t, Sound(t)
  PROVE  /\ Sound(Refreshed(t))
         /\ Refreshed(t).sym_table = t.sym_table
         /\ Refreshed(t).sym_index = t.sym_index
<1> DEFINE r == [sym_table |-> t.sym_table, sym_index |-> t.sym_index,
                 table_series |-> t.sym_table, index_series |-> t.sym_index]
<1>1. t = [sym_table |-> t.sym_table, sym_index |-> t.sym_index,
           table_series |-> t.table_series, index_series |-> t.index_series]
  BY DEF Sound, TableType
<1>2. /\ r.sym_table = t.sym_table /\ r.sym_index = t.sym_index
      /\ r.table_series = t.sym_table /\ r.index_series = t.sym_index
      /\ r = [sym_table |-> r.sym_table, sym_index |-> r.sym_index,
              table_series |-> r.table_series, index_series |-> r.index_series]
  BY <1>1
<1> HIDE DEF r
<1>3. Known(r) = Known(t) /\ DOMAIN r.index_series = Known(t)
  BY <1>2 DEF Known
<1>4. TableType(r)
  BY <1>2, <1>3 DEF Sound, TableType
<1>5. TwoWay(r) /\ SeriesOf(r)
  BY <1>2, <1>3, <1>4 DEF Sound, TwoWay, SeriesOf, TableType
<1> QED
  BY <1>2, <1>4, <1>5 DEF r, Refreshed, Sound

(* create_from_symbol_id_map fills the holes with names of their own, so   *)
(* that the two directions agree (trace_symbol_table.py:257-264).          *)
LEMMA FromIdMapSound ==
  ASSUME NEW m \in IdMaps
  PROVE  Sound(FromIdMap(m))
<1> DEFINE n == CHOOSE k \in DOMAIN Undefined :
                  k - 1 \in Range(m) /\ Range(m) \subseteq 0 .. (k - 1)
           named == [p \in 1 .. n |->
                       IF \E s \in DOMAIN m : m[s] = p - 1
                       THEN CHOOSE s \in DOMAIN m : m[s] = p - 1
                       ELSE Undefined[p]]
           index == [s \in Range(named) |-> (CHOOSE p \in 1 .. n : named[p] = s) - 1]
           t == FromIdMap(m)
<1>1. t = TableOf(named, index)
  BY DEF FromIdMap
<1>2. n \in Nat /\ 1 .. n \subseteq DOMAIN Undefined
  <2>1. n \in DOMAIN Undefined
    BY IdMapsAssumption
  <2>2. Len(Undefined) \in Nat /\ DOMAIN Undefined = 1 .. Len(Undefined)
    BY NamesAssumption, LenProperties
  <2> HIDE DEF n
  <2> QED
    BY <2>1, <2>2
<1> HIDE DEF n
<1>3. /\ DOMAIN m \subseteq Symbols
      /\ Undefined \in Seq(Range(Undefined))
      /\ Range(Undefined) \cap Symbols = {}
      /\ \A i, j \in DOMAIN Undefined : Undefined[i] = Undefined[j] => i = j
  BY IdMapsAssumption, NamesAssumption DEF IsInjective
<1>4. ASSUME NEW p \in 1 .. n
      PROVE  \/ named[p] \in DOMAIN m /\ m[named[p]] = p - 1
             \/ named[p] = Undefined[p] /\ named[p] \in Range(Undefined)
  BY <1>2 DEF Range
<1>5. named \in Seq(Names)
  <2>1. \A p \in 1 .. n : named[p] \in Names
    BY <1>3, <1>4 DEF Names
  <2> HIDE DEF named
  <2>2. named \in [1 .. n -> Names]
    BY <2>1 DEF named
  <2> QED
    BY <1>2, <2>2, SeqDef
<1>6. DOMAIN named = 1 .. n
  OBVIOUS
<1>7. ASSUME NEW p \in 1 .. n, NEW q \in 1 .. n, named[p] = named[q]
      PROVE  p = q
  <2> HIDE DEF named
  <2>1. CASE named[p] \in DOMAIN m
    <3>1. named[p] \notin Range(Undefined)
      BY <1>3, <2>1
    <3>2. m[named[p]] = p - 1 /\ m[named[p]] = q - 1
      BY <1>4, <1>7, <3>1
    <3> QED
      BY <1>2, <3>2
  <2>2. CASE named[p] \notin DOMAIN m
    <3>1. named[p] = Undefined[p] /\ named[q] = Undefined[q]
      BY <1>4, <1>7, <2>2
    <3> QED
      BY <1>2, <1>3, <1>7, <3>1
  <2> QED
    BY <2>1, <2>2
<1> HIDE DEF named
<1>8. ASSUME NEW p \in 1 .. n
      PROVE  named[p] \in Range(named) /\ index[named[p]] = p - 1
  BY <1>6, <1>7 DEF Range
<1>9. \A s \in Range(named) : \E p \in 1 .. n : s = named[p]
  BY <1>6 DEF Range
<1>10. index \in [Range(named) -> Nat]
  <2>1. \A p \in 1 .. n : p - 1 \in Nat
    BY <1>2
  <2> QED
    BY <1>8, <1>9, <2>1
<1>11. Range(named) \subseteq Names
  BY <1>5 DEF Range
<1> HIDE DEF index
<1>12. /\ t.sym_table = named /\ t.sym_index = index
       /\ t.table_series = << >> /\ t.index_series = EmptyMap
       /\ t = [sym_table |-> t.sym_table, sym_index |-> t.sym_index,
               table_series |-> t.table_series, index_series |-> t.index_series]
  BY <1>1 DEF TableOf
<1> HIDE DEF t
<1>13. Known(t) = Range(named) /\ DOMAIN EmptyMap = {} /\ EmptyMap \in [{} -> Nat]
  BY <1>10, <1>12 DEF Known, EmptyMap
<1>14. TableType(t)
  <2>1. << >> \in Seq(Names)
    OBVIOUS
  <2>2. /\ t.sym_table \in Seq(Names) /\ t.sym_index \in [Known(t) -> Nat]
        /\ t.table_series \in Seq(Names)
        /\ t.index_series \in [DOMAIN t.index_series -> Nat]
    BY <1>5, <1>10, <1>12, <1>13, <2>1
  <2>3. Known(t) \cup DOMAIN t.index_series \subseteq Names
    BY <1>11, <1>12, <1>13
  <2> QED
    BY <1>12, <2>2, <2>3 DEF TableType
<1>15. TwoWay(t)
  BY <1>6, <1>8, <1>12, <1>13 DEF TwoWay
<1>16. SeriesOf(t)
  <2>1. Len(named) = n
    BY <1>2, <1>5, <1>6
  <2>2. n # 0
    BY IdMapsAssumption, NamesAssumption DEF n
  <2> QED
    BY <1>2, <1>12, <2>1, <2>2 DEF SeriesOf
<1> QED
  BY <1>14, <1>15, <1>16 DEF t, Sound

-----------------------------------------------------------------------------
(* The heap: every object is a sound table; one that is not live is empty. *)

HeapOK ==
  /\ live \subseteq Tables
  /\ DOMAIN tables = Tables
  /\ \A o \in Tables : Sound(tables[o])
  /\ \A o \in Tables \ live : tables[o] = EmptyTable

FrameType ==
  /\ frame \in [{"name", "cat"} -> [dtype : {"string"}, val : Names]
                                     \cup [dtype : {"int"}, val : Nat]]
  /\ codedBy \in [{"name", "cat"} -> Tables \cup {None}]

PoolType ==
  /\ call \in [table : Tables \cup {None}, lists : Seq(Seq(Symbols))]
  /\ taken \in 0 .. Len(call.lists)
  /\ put \in [DOMAIN call.lists -> Nat]
  /\ queue \in Seq(Symbols)

(* The queue holds what the workers have put so far, and nothing else. *)
PoolOK ==
  /\ PoolType
  /\ call.table # None => call.table \in live
  /\ \A t \in DOMAIN call.lists : put[t] <= Len(call.lists[t])
  /\ \A t \in DOMAIN call.lists :
       \A i \in 1 .. put[t] : call.lists[t][i] \in Range(queue)
  /\ Range(queue) \subseteq AllOf(call.lists)

(* The inductive invariant. *)
IInv == HeapOK /\ FrameType /\ FrameDecodes /\ PoolOK

(* What a step does to the heap: one object changes, to a sound table that *)
(* keeps what it had; objects stay live.                                   *)
HeapStep ==
  \/ UNCHANGED tableVars
  \/ \E o \in Tables : \E t :
       /\ tables' = [tables EXCEPT ![o] = t]
       /\ Sound(t)
       /\ Keeps(tables[o], t)
       /\ live' = live \cup {o}

(* A step that replaces one object by a sound one keeps the heap sound. *)
LEMMA HeapStepKeeps ==
  ASSUME HeapOK, HeapStep
  PROVE  /\ HeapOK'
         /\ live \subseteq live'
         /\ \A o \in Tables : Keeps(tables[o], tables'[o])
<1>1. ASSUME NEW o \in Tables PROVE Keeps(tables[o], tables[o])
  <2>1. /\ DOMAIN tables[o].sym_table = 1 .. Len(tables[o].sym_table)
        /\ Len(tables[o].sym_table) \in Nat
    BY LenProperties DEF HeapOK, Sound, TableType
  <2> QED
    BY <2>1 DEF Keeps
<1>2. CASE UNCHANGED tableVars
  BY <1>1, <1>2 DEF tableVars, HeapOK
<1>3. ASSUME NEW o \in Tables, NEW t,
             tables' = [tables EXCEPT ![o] = t], Sound(t), Keeps(tables[o], t),
             live' = live \cup {o}
      PROVE  /\ HeapOK'
             /\ live \subseteq live'
             /\ \A x \in Tables : Keeps(tables[x], tables'[x])
  <2>1. /\ DOMAIN tables' = Tables
        /\ \A x \in Tables : tables'[x] = IF x = o THEN t ELSE tables[x]
    BY <1>3 DEF HeapOK
  <2> QED
    BY <1>1, <1>3, <2>1 DEF HeapOK
<1> QED
  BY <1>2, <1>3 DEF HeapStep

(* A constructor adds one sound object and touches no other. *)
LEMMA ConstructStep ==
  ASSUME HeapOK, NEW o \in Tables, NEW t, Sound(t), Construct(o, t)
  PROVE  HeapStep
<1>1. tables[o] = EmptyTable
  BY DEF HeapOK, Construct
<1>2. EmptyTable.sym_table = << >> /\ Known(EmptyTable) = {}
  BY DEF EmptyTable, TableOf, Known, EmptyMap
<1>3. Len(t.sym_table) \in Nat
  BY LenProperties DEF Sound, TableType
<1>4. Keeps(tables[o], t)
  BY <1>1, <1>2, <1>3 DEF Keeps
<1> QED
  BY <1>4 DEF HeapStep, Construct

(* A constructor that adds symbols to an empty table makes a sound one. *)
LEMMA NewFromSymbols ==
  ASSUME HeapOK, NEW o \in Tables, NEW symbols \in Seq(Names),
         NEW new \in Arrivals(symbols, {}),
         Construct(o, Extended(EmptyTable, new))
  PROVE  HeapStep
<1>1. Known(EmptyTable) = {}
  BY DEF EmptyTable, TableOf, Known, EmptyMap
<1>2. Sound(Extended(EmptyTable, new))
  BY <1>1, EmptyTableSound, ExtendedSound
<1> QED
  BY <1>2, ConstructStep

(* Merging symbols into a live table. *)
LEMMA MergeStep ==
  ASSUME HeapOK, NEW o \in live, NEW symbols \in Seq(Names),
         NEW new \in Arrivals(symbols, Known(tables[o])),
         tables' = [tables EXCEPT ![o] = Extended(@, new)], UNCHANGED live
  PROVE  /\ HeapStep
         /\ Range(tables'[o].sym_table) = Range(tables[o].sym_table) \cup Range(symbols)
<1>1. o \in Tables /\ Sound(tables[o]) /\ live' = live \cup {o}
  BY DEF HeapOK
<1>2. /\ Sound(Extended(tables[o], new))
      /\ Keeps(tables[o], Extended(tables[o], new))
      /\ Range(Extended(tables[o], new).sym_table)
           = Range(tables[o].sym_table) \cup Range(symbols)
  BY <1>1, ExtendedSound
<1>3. tables'[o] = Extended(tables[o], new)
  BY <1>1 DEF HeapOK
<1> QED
  BY <1>1, <1>2, <1>3 DEF HeapStep

(* A clone shares no series with the original and is as sound. *)
LEMMA CopySound ==
  ASSUME NEW t, Sound(t)
  PROVE  Sound(TableOf(t.sym_table, t.sym_index))
<1> DEFINE r == TableOf(t.sym_table, t.sym_index)
<1>1. /\ r.sym_table = t.sym_table /\ r.sym_index = t.sym_index
      /\ r.table_series = << >> /\ r.index_series = EmptyMap
      /\ r = [sym_table |-> r.sym_table, sym_index |-> r.sym_index,
              table_series |-> r.table_series, index_series |-> r.index_series]
  BY DEF TableOf
<1> HIDE DEF r
<1>2. /\ t.sym_table \in Seq(Names) /\ t.sym_index \in [Known(t) -> Nat]
      /\ Known(t) \subseteq Names /\ Known(t) = Range(t.sym_table)
  BY DEF Sound, TableType, TwoWay
<1>3. /\ << >> \in Seq(Names) /\ Len(<< >>) = 0
      /\ DOMAIN EmptyMap = {} /\ EmptyMap \in [{} -> Nat]
  BY DEF EmptyMap
<1>4. Known(r) = Known(t)
  BY <1>1 DEF Known
<1>5. TableType(r)
  BY <1>1, <1>2, <1>3, <1>4 DEF TableType
<1>6. TwoWay(r)
  BY <1>1, <1>4 DEF Sound, TwoWay
<1>7. SeriesOf(r)
  <2>1. Len(t.sym_table) \in Nat
    BY <1>2
  <2>2. ASSUME Len(t.sym_table) = 0
        PROVE  t.sym_table = << >> /\ t.sym_index = EmptyMap
    <3>1. t.sym_table = << >>
      BY <1>2, <2>2
    <3>2. Known(t) = {}
      BY <1>2, <3>1 DEF Range
    <3> QED
      BY <1>2, <3>1, <3>2 DEF EmptyMap
  <2> QED
    BY <1>1, <1>3, <2>1, <2>2 DEF SeriesOf
<1> QED
  BY <1>5, <1>6, <1>7 DEF r, Sound

(* Every step is a heap step: no operation breaks a table or takes an id   *)
(* back.                                                                   *)
LEMMA NextHeap ==
  ASSUME IInv, [Next]_vars
  PROVE  HeapStep
<1> USE DEF IInv
<1>1. ASSUME NEW o \in Tables, NewTable(o) PROVE HeapStep
  BY <1>1, EmptyTableSound, ConstructStep DEF NewTable
<1>2. ASSUME NEW o \in Tables, CreateFromDf(o) PROVE HeapStep
  <2> DEFINE catFirst == <<frame["cat"].val, frame["name"].val>>
             nameFirst == <<frame["name"].val, frame["cat"].val>>
  <2>1. frame["cat"].val \in Names /\ frame["name"].val \in Names
    BY <1>2 DEF CreateFromDf, FrameType
  <2>2. catFirst \in Seq(Names) /\ nameFirst \in Seq(Names)
    BY <2>1
  <2>3. PICK symbols \in {catFirst, nameFirst} :
          \E new \in Arrivals(symbols, {}) :
            Construct(o, Extended(EmptyTable, new))
    BY <1>2 DEF CreateFromDf
  <2> HIDE DEF catFirst, nameFirst
  <2> QED
    BY <2>2, <2>3, NewFromSymbols
<1>3. ASSUME NEW o \in Tables, CreateFromSymbolIdMap(o) PROVE HeapStep
  BY <1>3, FromIdMapSound, ConstructStep DEF CreateFromSymbolIdMap
<1>4. ASSUME NEW o \in Tables, AddSymbols(o) PROVE HeapStep
  <2>1. PICK symbols \in Iterables :
          \E new \in Arrivals(symbols, Known(tables[o])) :
            tables' = [tables EXCEPT ![o] = Extended(@, new)]
    BY <1>4 DEF AddSymbols
  <2>2. symbols \in Seq(Names)
    BY CallersAssumption, SeqMonotonic DEF Names
  <2>3. o \in live /\ UNCHANGED live
    BY <1>4 DEF AddSymbols
  <2> QED
    BY <2>1, <2>2, <2>3, MergeStep
<1>5. ASSUME NEW o \in Tables, GetSeries(o) PROVE HeapStep
  <2>1. Sound(tables[o])
    BY DEF HeapOK
  <2>2. /\ Sound(Refreshed(tables[o]))
        /\ Refreshed(tables[o]).sym_table = tables[o].sym_table
        /\ Refreshed(tables[o]).sym_index = tables[o].sym_index
    BY <2>1, RefreshedSound
  <2>3. Len(tables[o].sym_table) \in Nat
    BY <2>1, LenProperties DEF Sound, TableType
  <2>4. Keeps(tables[o], Refreshed(tables[o]))
    BY <2>2, <2>3 DEF Keeps, Known
  <2>5. /\ tables' = [tables EXCEPT ![o] = Refreshed(tables[o])]
        /\ live' = live \cup {o}
    BY <1>5 DEF GetSeries
  <2> QED
    BY <2>2, <2>4, <2>5 DEF HeapStep
<1>6. ASSUME NEW o \in Tables, NEW p \in Tables, Clone(o, p) PROVE HeapStep
  BY <1>6, CopySound, ConstructStep DEF Clone, HeapOK
<1>7. ASSUME NEW o \in Tables, NEW p \in Tables, FromCsvFile(o, p) PROVE HeapStep
  <2> DEFINE symbols == [i \in DOMAIN tables[p].sym_table |->
                           CsvCell(tables[p].sym_table[i])]
  <2>1. tables[p].sym_table \in Seq(Names)
    BY DEF HeapOK, Sound, TableType
  <2>2. \A i \in DOMAIN tables[p].sym_table : CsvCell(tables[p].sym_table[i]) \in Names
    BY <2>1 DEF CsvCell, Names
  <2>3. symbols \in Seq(Names)
    <3>1. Len(tables[p].sym_table) \in Nat /\ DOMAIN tables[p].sym_table = 1 .. Len(tables[p].sym_table)
      BY <2>1
    <3>2. symbols \in [1 .. Len(tables[p].sym_table) -> Names]
      BY <2>2, <3>1
    <3> QED
      BY <3>1, <3>2, SeqDef
  <2>4. \E new \in Arrivals(symbols, {}) : Construct(o, Extended(EmptyTable, new))
    BY <1>7 DEF FromCsvFile
  <2> HIDE DEF symbols
  <2> QED
    BY <2>3, <2>4, NewFromSymbols
<1>8. ASSUME NEW o \in Tables, NEW p \in Tables, NEW q \in Tables, Combine(o, p, q)
      PROVE  HeapStep
  <2> DEFINE symbols == tables[p].sym_table \o tables[q].sym_table
  <2>1. tables[p].sym_table \in Seq(Names) /\ tables[q].sym_table \in Seq(Names)
    BY DEF HeapOK, Sound, TableType
  <2>2. symbols \in Seq(Names)
    BY <2>1, ConcatProperties
  <2>3. \E new \in Arrivals(symbols, {}) : Construct(o, Extended(EmptyTable, new))
    BY <1>8 DEF Combine
  <2> HIDE DEF symbols
  <2> QED
    BY <2>2, <2>3, NewFromSymbols
<1>9. CASE Drain
  <2>1. call.table \in live /\ queue \in Seq(Names)
    BY <1>9, SeqMonotonic DEF Drain, Idle, PoolOK, PoolType, Names
  <2>2. PICK new \in Arrivals(queue, Known(tables[call.table])) :
          tables' = [tables EXCEPT ![call.table] = Extended(@, new)]
    BY <1>9 DEF Drain
  <2>3. UNCHANGED live
    BY <1>9 DEF Drain
  <2> QED
    BY <2>1, <2>2, <2>3, MergeStep
<1>10. CASE UNCHANGED tableVars
  BY <1>10 DEF HeapStep
<1>11. ASSUME NEW o \in Tables, BeginMp(o) \/ EncodeDf(o) \/ DecodeDf(o)
       PROVE  HeapStep
  BY <1>10, <1>11 DEF BeginMp, EncodeDf, DecodeDf
<1>12. ASSUME NEW o \in Tables, NEW p \in Tables, UpdateEncodedDf(o, p)
       PROVE  HeapStep
  BY <1>10, <1>12 DEF UpdateEncodedDf
<1>13. ASSUME TakeTask \/ \E t \in DOMAIN put : Put(t)
       PROVE  HeapStep
  BY <1>10, <1>13 DEF TakeTask, Put
<1>14. CASE UNCHANGED vars
  BY <1>10, <1>14 DEF vars
<1> QED
  BY <1>1, <1>2, <1>3, <1>4, <1>5, <1>6, <1>7, <1>8, <1>9, <1>11, <1>12, <1>13,
     <1>14 DEF Next

-----------------------------------------------------------------------------
(* Data frames *)

(* One cell: it is the raw string, or an id that its table decodes to it. *)
CellOK(cell, by, raw) ==
  IF cell.dtype = "string"
  THEN by = None /\ cell.val = raw
  ELSE /\ by \in live
       /\ cell.val < Len(tables[by].sym_table)
       /\ tables[by].sym_table[cell.val + 1] = raw

CellType(cell) == cell \in [dtype : {"string"}, val : Names] \cup [dtype : {"int"}, val : Nat]

(* A symbol the table knows gets an id under which the table holds it. *)
LEMMA CodedCell ==
  ASSUME HeapOK, NEW o \in live, NEW s \in Known(tables[o])
  PROVE  /\ CellType(IdCell(tables[o].sym_index[s]))
         /\ CellOK(IdCell(tables[o].sym_index[s]), o, s)
<1> DEFINE t == tables[o]
<1>1. TableType(t) /\ TwoWay(t)
  BY DEF HeapOK, Sound
<1> HIDE DEF t
<1>2. t.sym_table \in Seq(Names) /\ Known(t) = Range(t.sym_table)
      /\ \A p \in DOMAIN t.sym_table : t.sym_index[t.sym_table[p]] = p - 1
  BY <1>1 DEF TableType, TwoWay
<1>3. PICK p \in DOMAIN t.sym_table : s = t.sym_table[p]
  BY <1>2 DEF Range, t
<1>4. p \in 1 .. Len(t.sym_table) /\ Len(t.sym_table) \in Nat
  BY <1>2
<1>5. t.sym_index[s] = p - 1
  BY <1>2, <1>3
<1>6. /\ t.sym_index[s] \in Nat /\ t.sym_index[s] < Len(t.sym_table)
      /\ t.sym_table[t.sym_index[s] + 1] = s
  BY <1>3, <1>4, <1>5
<1>7. IdCell(t.sym_index[s]).dtype = "int" /\ IdCell(t.sym_index[s]).val = t.sym_index[s]
  BY DEF IdCell
<1>8. CellType(IdCell(t.sym_index[s]))
  BY <1>6 DEF CellType, IdCell
<1>9. CellOK(IdCell(t.sym_index[s]), o, s)
  BY <1>6, <1>7 DEF CellOK, t
<1> QED
  BY <1>8, <1>9 DEF t

(* Growth of the tables leaves a cell decodable. *)
LEMMA CellSurvives ==
  ASSUME HeapOK, HeapStep, NEW cell, CellType(cell), NEW by, NEW raw,
         CellOK(cell, by, raw)
  PROVE  IF cell.dtype = "string"
         THEN by = None /\ cell.val = raw
         ELSE /\ by \in live'
              /\ cell.val < Len(tables'[by].sym_table)
              /\ tables'[by].sym_table[cell.val + 1] = raw
<1>1. CASE cell.dtype = "string"
  BY <1>1 DEF CellOK
<1>2. CASE cell.dtype # "string"
  <2>1. /\ by \in live /\ cell.val < Len(tables[by].sym_table)
        /\ tables[by].sym_table[cell.val + 1] = raw
    BY <1>2 DEF CellOK
  <2>2. by \in Tables /\ cell.val \in Nat
    BY <1>2, <2>1 DEF HeapOK, CellType
  <2>3. by \in live' /\ Keeps(tables[by], tables'[by]) /\ HeapOK'
    BY <2>1, <2>2, HeapStepKeeps
  <2>4. Len(tables[by].sym_table) \in Nat /\ DOMAIN tables[by].sym_table = 1 .. Len(tables[by].sym_table)
    BY <2>2, LenProperties DEF HeapOK, Sound, TableType
  <2>5. Len(tables'[by].sym_table) \in Nat
    BY <2>2, <2>3, LenProperties DEF HeapOK, Sound, TableType
  <2>6. cell.val + 1 \in DOMAIN tables[by].sym_table
    BY <2>1, <2>2, <2>4
  <2>7. /\ cell.val < Len(tables'[by].sym_table)
        /\ tables'[by].sym_table[cell.val + 1] = raw
    BY <2>1, <2>2, <2>3, <2>4, <2>5, <2>6 DEF Keeps
  <2> QED
    BY <1>2, <2>3, <2>7 DEF CellOK
<1> QED
  BY <1>1, <1>2

FrameOK ==
  /\ DOMAIN frame = {"name", "cat"}
  /\ DOMAIN codedBy = {"name", "cat"}
  /\ frame = [c \in {"name", "cat"} |-> frame[c]]
  /\ codedBy = [c \in {"name", "cat"} |-> codedBy[c]]
  /\ \A c \in {"name", "cat"} :
       CellType(frame[c]) /\ CellOK(frame[c], codedBy[c], Raw[c])

(* The frame part of the invariant is the property and the type of the    *)
(* cells.                                                                  *)
LEMMA FrameOKMeaning == HeapOK => (FrameOK <=> FrameType /\ FrameDecodes)
<1> SUFFICES ASSUME HeapOK PROVE FrameOK <=> FrameType /\ FrameDecodes
  OBVIOUS
<1>1. ASSUME FrameType, FrameDecodes PROVE FrameOK
  BY <1>1 DEF FrameOK, FrameType, FrameDecodes, CellType, CellOK
<1>2. ASSUME FrameOK PROVE FrameType
  <2>1. \A c \in {"name", "cat"} : codedBy[c] \in Tables \cup {None}
    BY <1>2 DEF FrameOK, CellOK, HeapOK
  <2> QED
    BY <1>2, <2>1 DEF FrameOK, FrameType, CellType
<1>3. ASSUME FrameOK PROVE FrameDecodes
  BY <1>3 DEF FrameOK, FrameDecodes, CellOK
<1> QED
  BY <1>1, <1>2, <1>3

(* Every step keeps the frame decodable. *)
LEMMA NextFrame ==
  ASSUME IInv, [Next]_vars
  PROVE  FrameOK'
<1>1. HeapOK /\ HeapStep /\ FrameOK
  BY NextHeap, FrameOKMeaning DEF IInv
<1>2. ASSUME UNCHANGED frameVars PROVE FrameOK'
  <2>1. UNCHANGED <<frame, codedBy>>
    BY <1>2 DEF frameVars
  <2>2. ASSUME NEW c \in {"name", "cat"}
        PROVE  (CellType(frame[c]) /\ CellOK(frame[c], codedBy[c], Raw[c]))'
    <3>1. CellType(frame[c]) /\ CellOK(frame[c], codedBy[c], Raw[c])
      BY <1>1 DEF FrameOK
    <3>2. IF frame[c].dtype = "string"
          THEN codedBy[c] = None /\ frame[c].val = Raw[c]
          ELSE /\ codedBy[c] \in live'
               /\ frame[c].val < Len(tables'[codedBy[c]].sym_table)
               /\ tables'[codedBy[c]].sym_table[frame[c].val + 1] = Raw[c]
      BY <1>1, <3>1, CellSurvives
    <3> QED
      BY <2>1, <3>1, <3>2 DEF CellOK, CellType
  <2> QED
    BY <1>1, <2>1, <2>2 DEF FrameOK
<1>3. ASSUME NEW o \in Tables, EncodeDf(o) PROVE FrameOK'
  <2>1. UNCHANGED tableVars /\ o \in live
    BY <1>3 DEF EncodeDf
  <2>2. ASSUME NEW c \in {"name", "cat"}
        PROVE  (CellType(frame[c]) /\ CellOK(frame[c], codedBy[c], Raw[c]))'
    <3>1. CASE c \in EncodedCols(o)
      <4>1. /\ frame'[c] = IdCell(tables[o].sym_index[frame[c].val])
            /\ codedBy'[c] = o
        BY <1>1, <1>3, <3>1 DEF EncodeDf, FrameOK, Encoded
      <4>2. frame[c].val \in Known(tables[o]) /\ frame[c].dtype = "string"
        BY <3>1 DEF EncodedCols, Encodes
      <4>3. frame[c].val = Raw[c]
        BY <1>1, <4>2 DEF FrameOK, CellOK
      <4>4. CellType(frame'[c]) /\ CellOK(frame'[c], o, Raw[c])
        BY <1>1, <2>1, <4>1, <4>2, <4>3, CodedCell
      <4> QED
        BY <2>1, <4>1, <4>4 DEF CellOK, CellType, tableVars
    <3>2. CASE c \notin EncodedCols(o)
      <4>1. frame'[c] = frame[c] /\ codedBy'[c] = codedBy[c]
        BY <1>1, <1>3, <3>2 DEF EncodeDf, FrameOK
      <4> QED
        BY <1>1, <2>1, <4>1 DEF FrameOK, CellOK, CellType, tableVars
    <3> QED
      BY <3>1, <3>2
  <2> QED
    BY <1>1, <1>3, <2>2 DEF EncodeDf, FrameOK
<1>4. ASSUME NEW o \in Tables, DecodeDf(o) PROVE FrameOK'
  <2>1. UNCHANGED tableVars /\ o \in live
    BY <1>4 DEF DecodeDf
  <2>2. ASSUME NEW c \in {"name", "cat"}
        PROVE  (CellType(frame[c]) /\ CellOK(frame[c], codedBy[c], Raw[c]))'
    <3>1. /\ codedBy[c] \in {None, o}
          /\ CellOK(frame[c], codedBy[c], Raw[c])
          /\ CellType(frame[c])
      BY <1>1, <1>4 DEF DecodeDf, FrameOK
    <3>2. ASSUME frame[c].dtype = "int"
          PROVE frame'[c] = StringCell(Raw[c]) /\ codedBy'[c] = None
      <4>1. frame[c].dtype # "string"
        BY <3>2
      <4>2. codedBy[c] \in live /\ tables[codedBy[c]].sym_table[frame[c].val + 1] = Raw[c]
        BY <3>1, <4>1 DEF CellOK
      <4>3. codedBy[c] = o
        BY <1>1, <3>1, <4>2, CallersAssumption DEF HeapOK
      <4>4. /\ frame'[c] = StringCell(tables[o].sym_table[frame[c].val + 1])
            /\ codedBy'[c] = None
        BY <1>1, <1>4, <3>2 DEF DecodeDf, FrameOK
      <4> QED
        BY <4>2, <4>3, <4>4
    <3>5. ASSUME frame[c].dtype # "int"
          PROVE frame'[c] = StringCell(Raw[c]) /\ codedBy'[c] = None
      <4>1. frame[c].dtype = "string"
        BY <3>1, <3>5 DEF CellType
      <4>2. frame[c] = StringCell(Raw[c])
        BY <3>1, <4>1, <3>5 DEF CellOK, CellType, StringCell
      <4>3. frame'[c] = frame[c] /\ codedBy'[c] = None
        BY <1>1, <1>4, <3>5 DEF DecodeDf, FrameOK
      <4> QED
        BY <4>2, <4>3
    <3>3. frame'[c] = StringCell(Raw[c]) /\ codedBy'[c] = None
      BY <3>2, <3>5
    <3>4. Raw[c] \in Names
      BY CallersAssumption DEF Names
    <3> QED
      BY <3>3, <3>4 DEF CellType, CellOK, StringCell
  <2> QED
    BY <1>1, <1>4, <2>2 DEF DecodeDf, FrameOK
<1>5. ASSUME NEW o \in Tables, NEW p \in Tables, UpdateEncodedDf(o, p)
      PROVE  FrameOK'
  <2>1. UNCHANGED tableVars /\ o \in live
    BY <1>5 DEF UpdateEncodedDf
  <2>2. ASSUME NEW c \in {"name", "cat"}
        PROVE  (CellType(frame[c]) /\ CellOK(frame[c], codedBy[c], Raw[c]))'
    <3>1. CASE c \in TranslatedCols(o, p)
      <4>1. /\ frame'[c] = IdCell(tables[o].sym_index[OldName(p, c)])
            /\ codedBy'[c] = o
        BY <1>1, <1>5, <3>1 DEF UpdateEncodedDf, FrameOK
      <4>2. OldName(p, c) \in Known(tables[o])
        BY <3>1 DEF TranslatedCols, Translates
      <4>3. codedBy[c] = p /\ p # None
        BY <1>1, <1>5, CallersAssumption DEF UpdateEncodedDf, FrameOK
      <4>4. OldName(p, c) = Raw[c]
        BY <1>1, <4>3 DEF FrameOK, CellOK, OldName
      <4>5. CellType(frame'[c]) /\ CellOK(frame'[c], o, Raw[c])
        BY <1>1, <2>1, <4>1, <4>2, <4>4, CodedCell
      <4> QED
        BY <2>1, <4>1, <4>5 DEF CellOK, CellType, tableVars
    <3>2. CASE c \notin TranslatedCols(o, p)
      <4>1. frame'[c] = frame[c] /\ codedBy'[c] = codedBy[c]
        BY <1>1, <1>5, <3>2 DEF UpdateEncodedDf, FrameOK
      <4> QED
        BY <1>1, <2>1, <4>1 DEF FrameOK, CellOK, CellType, tableVars
    <3> QED
      BY <3>1, <3>2
  <2> QED
    BY <1>1, <1>5, <2>2 DEF UpdateEncodedDf, FrameOK
<1>6. ASSUME NEW o \in Tables,
             NewTable(o) \/ CreateFromDf(o) \/ CreateFromSymbolIdMap(o)
               \/ AddSymbols(o) \/ GetSeries(o) \/ BeginMp(o)
      PROVE  UNCHANGED frameVars
  BY <1>6 DEF NewTable, CreateFromDf, CreateFromSymbolIdMap, Construct, AddSymbols,
              GetSeries, BeginMp
<1>7. ASSUME NEW o \in Tables, NEW p \in Tables, Clone(o, p) \/ FromCsvFile(o, p)
      PROVE  UNCHANGED frameVars
  BY <1>7 DEF Clone, FromCsvFile, Construct
<1>8. ASSUME NEW o \in Tables, NEW p \in Tables, NEW q \in Tables, Combine(o, p, q)
      PROVE  UNCHANGED frameVars
  BY <1>8 DEF Combine, Construct
<1>9. ASSUME TakeTask \/ Drain \/ UNCHANGED vars \/ \E t \in DOMAIN put : Put(t)
      PROVE  UNCHANGED frameVars
  BY <1>9 DEF TakeTask, Drain, Put, vars
<1> QED
  BY <1>2, <1>3, <1>4, <1>5, <1>6, <1>7, <1>8, <1>9 DEF Next

-----------------------------------------------------------------------------
(* The pool *)

(* Every step keeps the bookkeeping of the process pool. *)
LEMMA NextPool ==
  ASSUME IInv, [Next]_vars
  PROVE  PoolOK'
<1>1. /\ HeapOK /\ PoolOK /\ live \subseteq live'
  BY NextHeap, HeapStepKeeps DEF IInv
<1>2. ASSUME UNCHANGED poolVars PROVE PoolOK'
  BY <1>1, <1>2 DEF poolVars, PoolOK, PoolType
<1>3. ASSUME NEW o \in Tables, BeginMp(o) PROVE PoolOK'
  <2>1. PICK lists \in SymbolLists :
          /\ call' = [table |-> o, lists |-> lists]
          /\ put' = [t \in DOMAIN lists |-> 0]
    BY <1>3 DEF BeginMp
  <2>2. o \in live' /\ taken' = 0 /\ queue' = << >>
    BY <1>3 DEF BeginMp, tableVars
  <2>3. lists \in Seq(Seq(Symbols))
    BY CallersAssumption
  <2>4. Len(lists) \in Nat /\ \A t \in DOMAIN lists : Len(lists[t]) \in Nat
    BY <2>3
  <2>5. Range(<< >>) = {}
    BY DEF Range
  <2>6. PoolType'
    BY <2>1, <2>2, <2>3, <2>4 DEF PoolType
  <2> QED
    BY <2>1, <2>2, <2>4, <2>5, <2>6 DEF PoolOK
<1>4. CASE TakeTask
  <2>1. /\ taken' = taken + 1 /\ taken < Len(call.lists)
        /\ UNCHANGED <<call, put, queue, live>>
    BY <1>4 DEF TakeTask, tableVars
  <2>2. PoolType'
    <3>1. Len(call.lists) \in Nat
      BY <1>1 DEF PoolOK, PoolType
    <3>2. taken' \in 0 .. Len(call.lists)
      BY <1>1, <2>1, <3>1 DEF PoolOK, PoolType
    <3> QED
      BY <1>1, <2>1, <3>2 DEF PoolOK, PoolType
  <2> QED
    BY <1>1, <2>1, <2>2 DEF PoolOK
<1>5. ASSUME NEW t \in DOMAIN put, Put(t) PROVE PoolOK'
  <2> DEFINE s == call.lists[t][put[t] + 1]
  <2>1. /\ t \in DOMAIN call.lists /\ put[t] # Len(call.lists[t])
        /\ queue' = Append(queue, s) /\ put' = [put EXCEPT ![t] = @ + 1]
        /\ UNCHANGED <<call, taken, live>>
    BY <1>1, <1>5 DEF Put, Running, Finished, PoolOK, PoolType, tableVars
  <2>2. /\ call.lists \in Seq(Seq(Symbols)) /\ queue \in Seq(Symbols)
        /\ put \in [DOMAIN call.lists -> Nat] /\ put[t] <= Len(call.lists[t])
    BY <1>1, <2>1 DEF PoolOK, PoolType
  <2>3. call.lists[t] \in Seq(Symbols) /\ Len(call.lists[t]) \in Nat /\ put[t] \in Nat
    BY <2>1, <2>2
  <2>4. put[t] + 1 \in 1 .. Len(call.lists[t])
    BY <2>1, <2>2, <2>3
  <2>5. s \in Symbols /\ s \in AllOf(call.lists)
    BY <2>1, <2>3, <2>4 DEF AllOf, Range
  <2> HIDE DEF s
  <2>6. Range(queue') = Range(queue) \cup {s}
    <3>1. /\ queue' \in Seq(Symbols) /\ Len(queue') = Len(queue) + 1
          /\ Len(queue) \in Nat
          /\ \A i \in 1 .. Len(queue) : queue'[i] = queue[i]
          /\ queue'[Len(queue) + 1] = s
      BY <2>1, <2>2, <2>5
    <3>2. DOMAIN queue' = 1 .. Len(queue) + 1 /\ DOMAIN queue = 1 .. Len(queue)
      BY <2>2, <3>1, LenProperties
    <3>3. 1 .. Len(queue) + 1 = (1 .. Len(queue)) \cup {Len(queue) + 1}
      BY <3>1
    <3> QED
      BY <3>1, <3>2, <3>3 DEF Range
  <2>7. PoolType'
    <3>1. put' \in [DOMAIN call.lists -> Nat] /\ queue' \in Seq(Symbols)
      BY <2>1, <2>2, <2>3, <2>5
    <3> QED
      BY <1>1, <2>1, <3>1 DEF PoolOK, PoolType
  <2>8. \A u \in DOMAIN call.lists : put'[u] = IF u = t THEN put[t] + 1 ELSE put[u]
    BY <2>1, <2>2
  <2>9. \A u \in DOMAIN call.lists : put'[u] <= Len(call.lists[u])
    BY <1>1, <2>4, <2>8 DEF PoolOK
  <2>10. ASSUME NEW u \in DOMAIN call.lists, NEW i \in 1 .. put'[u]
         PROVE  call.lists[u][i] \in Range(queue')
    <3>1. CASE u = t /\ i = put[t] + 1
      BY <2>6, <3>1 DEF s
    <3>2. CASE ~(u = t /\ i = put[t] + 1)
      <4>1. put[u] \in Nat
        BY <2>2
      <4>2. i \in 1 .. put[u]
        BY <2>3, <2>8, <3>2, <4>1
      <4> QED
        BY <1>1, <2>6, <4>2 DEF PoolOK
    <3> QED
      BY <3>1, <3>2
  <2>11. Range(queue') \subseteq AllOf(call.lists)
    BY <1>1, <2>5, <2>6 DEF PoolOK
  <2> QED
    BY <1>1, <2>1, <2>7, <2>9, <2>10, <2>11 DEF PoolOK
<1>6. CASE Drain
  <2>1. call' = [table |-> None, lists |-> << >>] /\ taken' = 0
        /\ put' = << >> /\ queue' = << >>
    BY <1>6 DEF Drain
  <2>2. /\ << >> \in Seq(Seq(Symbols)) /\ << >> \in Seq(Symbols)
        /\ Len(<< >>) = 0 /\ DOMAIN << >> = {}
    OBVIOUS
  <2>3. << >> \in [{} -> Nat]
    OBVIOUS
  <2>4. PoolType'
    BY <2>1, <2>2, <2>3 DEF PoolType
  <2>5. Range(<< >>) = {}
    BY <2>2 DEF Range
  <2> QED
    BY <2>1, <2>2, <2>4, <2>5 DEF PoolOK
<1>7. ASSUME NEW o \in Tables,
             NewTable(o) \/ CreateFromDf(o) \/ CreateFromSymbolIdMap(o)
               \/ AddSymbols(o) \/ GetSeries(o) \/ EncodeDf(o) \/ DecodeDf(o)
      PROVE  UNCHANGED poolVars
  BY <1>7 DEF NewTable, CreateFromDf, CreateFromSymbolIdMap, Construct, AddSymbols,
              GetSeries, EncodeDf, DecodeDf
<1>8. ASSUME NEW o \in Tables, NEW p \in Tables,
             Clone(o, p) \/ FromCsvFile(o, p) \/ UpdateEncodedDf(o, p)
      PROVE  UNCHANGED poolVars
  BY <1>8 DEF Clone, FromCsvFile, Construct, UpdateEncodedDf
<1>9. ASSUME NEW o \in Tables, NEW p \in Tables, NEW q \in Tables, Combine(o, p, q)
      PROVE  UNCHANGED poolVars
  BY <1>9 DEF Combine, Construct
<1> QED
  BY <1>2, <1>3, <1>4, <1>5, <1>6, <1>7, <1>8, <1>9 DEF Next, vars

-----------------------------------------------------------------------------
(* Theorems *)

(* The inductive invariant holds initially. *)
LEMMA InitIInv == Init => IInv
<1> SUFFICES ASSUME Init PROVE IInv
  OBVIOUS
<1>1. HeapOK
  BY EmptyTableSound DEF Init, HeapOK
<1>2. FrameOK
  <2>1. \A c \in {"name", "cat"} :
          /\ Raw[c] \in Names
          /\ frame[c] = StringCell(Raw[c]) /\ codedBy[c] = None
    BY CallersAssumption DEF Init, Names
  <2> QED
    BY <2>1 DEF Init, FrameOK, CellType, CellOK, StringCell
<1>3. PoolOK
  <2>1. call = [table |-> None, lists |-> << >>] /\ taken = 0
        /\ put = << >> /\ queue = << >>
    BY DEF Init
  <2>2. /\ << >> \in Seq(Seq(Symbols)) /\ << >> \in Seq(Symbols)
        /\ Len(<< >>) = 0 /\ DOMAIN << >> = {}
    OBVIOUS
  <2>3. << >> \in [{} -> Nat]
    OBVIOUS
  <2>4. PoolType
    BY <2>1, <2>2, <2>3 DEF PoolType
  <2>5. Range(<< >>) = {}
    BY <2>2 DEF Range
  <2> QED
    BY <2>1, <2>2, <2>4, <2>5 DEF PoolOK
<1> QED
  BY <1>1, <1>2, <1>3, FrameOKMeaning DEF IInv

(* The inductive invariant is inductive. *)
LEMMA NextIInv == IInv /\ [Next]_vars => IInv'
<1> SUFFICES ASSUME IInv, [Next]_vars PROVE IInv'
  OBVIOUS
<1>1. HeapOK'
  BY NextHeap, HeapStepKeeps DEF IInv
<1>2. (FrameOK <=> FrameType /\ FrameDecodes)'
  BY <1>1, FrameOKMeaning, PTL
<1> QED
  BY <1>1, <1>2, NextFrame, NextPool DEF IInv

(* The inductive invariant holds always. *)
THEOREM AlwaysIInv == Spec => []IInv
BY InitIInv, NextIInv, PTL DEF Spec

(* Every variable always has its type. *)
THEOREM TypeCorrect == Spec => []TypeOK
<1>1. IInv => TypeOK
  BY DEF IInv, HeapOK, Sound, FrameType, PoolOK, PoolType, TypeOK
<1> QED
  BY <1>1, AlwaysIInv, PTL

(* In every table, at every moment, sym_index is the inverse of sym_table. *)
THEOREM AlwaysBijective == Spec => []Bijective
<1>1. IInv => Bijective
  BY DEF IInv, HeapOK, Sound, Bijective
<1> QED
  BY <1>1, AlwaysIInv, PTL

(* Comparing lengths detects every stale series. *)
THEOREM AlwaysSeriesCurrent == Spec => []SeriesCurrent
<1>1. IInv => SeriesCurrent
  BY DEF IInv, HeapOK, Sound, SeriesOf, SeriesCurrent
<1> QED
  BY <1>1, AlwaysIInv, PTL

(* A coded cell always decodes to the string it came from. *)
THEOREM AlwaysFrameDecodes == Spec => []FrameDecodes
<1>1. IInv => FrameDecodes
  BY DEF IInv
<1> QED
  BY <1>1, AlwaysIInv, PTL

(* No step changes or takes back an id. *)
THEOREM AlwaysIdsStable == Spec => IdsStable
<1>1. IInv /\ [Next]_vars =>
        [\A o \in live :
           /\ Len(tables[o].sym_table) <= Len(tables'[o].sym_table)
           /\ \A p \in DOMAIN tables[o].sym_table :
                tables'[o].sym_table[p] = tables[o].sym_table[p]]_vars
  <2> SUFFICES ASSUME IInv, [Next]_vars, NEW o \in live
               PROVE  /\ Len(tables[o].sym_table) <= Len(tables'[o].sym_table)
                      /\ \A p \in DOMAIN tables[o].sym_table :
                           tables'[o].sym_table[p] = tables[o].sym_table[p]
    OBVIOUS
  <2>1. o \in Tables /\ Keeps(tables[o], tables'[o])
    BY NextHeap, HeapStepKeeps DEF IInv, HeapOK
  <2> QED
    BY <2>1 DEF Keeps
<1> QED
  BY <1>1, AlwaysIInv, PTL DEF Spec, IdsStable

(* When add_symbols_mp returns, the table has all the symbols of all the   *)
(* iterables and no others besides its own, however the workers were       *)
(* scheduled.                                                              *)
THEOREM AlwaysNothingLost == Spec => NothingLost
<1> DEFINE Returned == call.table # None /\ call'.table = None
                         => Range(tables'[call.table].sym_table)
                              = Range(tables[call.table].sym_table)
                                  \cup AllOf(call.lists)
<1>1. IInv /\ [Next]_vars => [Returned]_vars
  <2> SUFFICES ASSUME IInv, [Next]_vars, call.table # None, call'.table = None
               PROVE  Range(tables'[call.table].sym_table)
                        = Range(tables[call.table].sym_table) \cup AllOf(call.lists)
    OBVIOUS
  <2>1. Drain
    <3>1. ~Idle /\ call' # call
      BY DEF Idle
    <3> QED
      BY <3>1 DEF Next, vars, poolVars, NewTable, CreateFromDf, CreateFromSymbolIdMap,
                  Construct, AddSymbols, GetSeries, BeginMp, EncodeDf, DecodeDf, Clone,
                  FromCsvFile, UpdateEncodedDf, Combine, TakeTask, Put
  <2>2. PICK new \in Arrivals(queue, Known(tables[call.table])) :
          tables' = [tables EXCEPT ![call.table] = Extended(@, new)]
    BY <2>1 DEF Drain
  <2>3. UNCHANGED live /\ MapDone
    BY <2>1 DEF Drain
  <2>4. /\ call.table \in live /\ queue \in Seq(Names) /\ HeapOK
        /\ call.lists \in Seq(Seq(Symbols))
    BY SeqMonotonic DEF IInv, PoolOK, PoolType, Names
  <2>5. Range(tables'[call.table].sym_table)
          = Range(tables[call.table].sym_table) \cup Range(queue)
    BY <2>2, <2>3, <2>4, MergeStep
  <2>6. ASSUME NEW t \in DOMAIN call.lists
        PROVE  put[t] = Len(call.lists[t])
    <3>1. t \in 1 .. taken
      BY <2>3, <2>4 DEF MapDone
    <3> QED
      BY <2>3, <3>1 DEF MapDone, Running, Finished
  <2>7. ASSUME NEW t \in DOMAIN call.lists, NEW i \in DOMAIN call.lists[t]
        PROVE  call.lists[t][i] \in Range(queue)
    <3>1. call.lists[t] \in Seq(Symbols)
      BY <2>4
    <3>2. i \in 1 .. put[t]
      BY <2>6, <3>1
    <3> QED
      BY <3>2 DEF IInv, PoolOK
  <2>8. Range(queue) = AllOf(call.lists)
    <3>1. AllOf(call.lists) \subseteq Range(queue)
      BY <2>7 DEF AllOf, Range
    <3>2. Range(queue) \subseteq AllOf(call.lists)
      BY DEF IInv, PoolOK
    <3> QED
      BY <3>1, <3>2
  <2> QED
    BY <2>5, <2>8
<1> QED
  BY <1>1, AlwaysIInv, PTL DEF Spec, NothingLost

(* The ids of a table in which both directions agree number its names      *)
(* without a gap.                                                          *)
LEMMA SoundNumbering ==
  ASSUME NEW t, Sound(t)
  PROVE  Code!Numbering(t.sym_index)
<1> DEFINE c == t.sym_index
<1>1. /\ t.sym_table \in Seq(Names) /\ c \in [Known(t) -> Nat]
      /\ Known(t) \subseteq Names /\ Known(t) = Range(t.sym_table)
      /\ \A p \in DOMAIN t.sym_table : c[t.sym_table[p]] = p - 1
      /\ DOMAIN c = Known(t)
  BY DEF Sound, TableType, TwoWay, Known
<1> HIDE DEF c
<1>2. Len(t.sym_table) \in Nat /\ DOMAIN t.sym_table = 1 .. Len(t.sym_table)
  BY <1>1, LenProperties
<1>3. ASSUME NEW s \in Known(t)
      PROVE  /\ c[s] + 1 \in DOMAIN t.sym_table /\ t.sym_table[c[s] + 1] = s
             /\ c[s] \in Nat
  <2>1. PICK p \in DOMAIN t.sym_table : s = t.sym_table[p]
    BY <1>1 DEF Range
  <2> QED
    BY <1>1, <1>2, <2>1
<1>4. ASSUME NEW s \in Known(t), NEW n \in 0 .. c[s]
      PROVE  \E r \in Known(t) : c[r] = n
  <2>1. n + 1 \in DOMAIN t.sym_table
    BY <1>2, <1>3
  <2>2. t.sym_table[n + 1] \in Known(t) /\ c[t.sym_table[n + 1]] = n
    <3>1. t.sym_table[n + 1] \in Known(t)
      BY <1>1, <2>1 DEF Range
    <3>2. c[t.sym_table[n + 1]] = (n + 1) - 1
      BY <1>1, <2>1
    <3> QED
      BY <3>1, <3>2
  <2> QED
    BY <2>2
<1>5. \A r, s \in Known(t) : c[r] = c[s] => r = s
  BY <1>3
<1>6. \A s \in Known(t) : c[s] \in Nat /\ \A n \in 0 .. c[s] : \E r \in Known(t) : c[r] = n
  BY <1>3, <1>4
<1>7. DOMAIN c \subseteq Names
  BY <1>1
<1>8. Code!Numbering(c)
  BY <1>1, <1>5, <1>6, <1>7 DEF Code!Numbering
<1> QED
  BY <1>8 DEF c

(* The tables implement the abstract numbering, with the ids as the map. *)
THEOREM Refinement == Spec => ImplementsStableCode
<1> DEFINE code == [o \in Tables |-> tables[o].sym_index]
<1>1. Init => Code!Init
  BY DEF Init, Code!Init, EmptyTable, TableOf, EmptyMap
<1>2. IInv /\ [Next]_vars => [Code!Next]_code
  <2> SUFFICES ASSUME IInv, [Next]_vars PROVE Code!Next \/ UNCHANGED code
    OBVIOUS
  <2>1. HeapOK /\ HeapOK' /\ HeapStep
    BY NextHeap, HeapStepKeeps DEF IInv
  <2>2. CASE UNCHANGED tableVars
    BY <2>2 DEF tableVars
  <2>3. ASSUME NEW o \in Tables, NEW t,
               tables' = [tables EXCEPT ![o] = t], Sound(t), Keeps(tables[o], t)
        PROVE  Code!Next
    <3>1. /\ tables'[o] = t
          /\ \A x \in Tables \ {o} : tables'[x] = tables[x]
      BY <2>1, <2>3 DEF HeapOK
    <3>2. Code!Numbering(t.sym_index)
      BY <2>3, SoundNumbering
    <3>3. /\ DOMAIN tables[o].sym_index \subseteq DOMAIN t.sym_index
          /\ \A s \in DOMAIN tables[o].sym_index : t.sym_index[s] = tables[o].sym_index[s]
      BY <2>3 DEF Keeps, Known
    <3>4. Code!Grow(o)
      BY <3>1, <3>2, <3>3 DEF Code!Grow
    <3> QED
      BY <3>4 DEF Code!Next
  <2> QED
    BY <2>1, <2>2, <2>3 DEF HeapStep
<1> QED
  BY <1>1, <1>2, AlwaysIInv, PTL DEF Spec, ImplementsStableCode, Code!Spec

=============================================================================
