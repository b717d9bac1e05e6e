-------------------------- MODULE TraceSymbolTable --------------------------
(***************************************************************************)
(* hta/common/trace_symbol_table.py: the two-way symbol <-> id mapping of  *)
(* a trace and the data frames coded with it.                              *)
(*                                                                         *)
(* Tables are heap objects.  A constructor fills an object that is not     *)
(* live yet, so a table keeps its identity while it grows.  A Python list  *)
(* index i is the position i + 1 of a sequence here; the ids themselves    *)
(* are the 0-based ones of the code.                                       *)
(*                                                                         *)
(* add_symbols_mp is the only concurrent operation: worker processes put   *)
(* symbols on a shared queue, one at a time and in any interleaving, while *)
(* the caller is blocked in pool.map; the caller then merges the queue.    *)
(***************************************************************************)
EXTENDS Integers, Sequences, FiniteSets, Functions

CONSTANTS
  Tables,       \* the TraceSymbolTable objects
  Symbols,      \* the strings a trace holds
  Undefined,    \* Undefined[i + 1] is the filler name f"Undefined-{i}"
  Missing,      \* the NaN that pd.read_csv gives for some strings
  Lossy,        \* the strings (such as "null") that pd.read_csv reads as NaN
  Iterables,    \* the iterables of symbols callers pass
  SymbolLists,  \* the lists of iterables callers pass to add_symbols_mp
  IdMaps,       \* the symbol_id_map arguments
  MaxProcs,     \* min(MAX_NUM_PROCESSES_SMALL, mp.cpu_count())
  MpTables,     \* bound: the most tables there are when add_symbols_mp is called
  Raw,          \* the strings of the data frame's name and cat cells
  None          \* no object

Names == Symbols \cup Range(Undefined) \cup {Missing}

ASSUME NamesAssumption ==
  /\ Undefined \in Seq(Range(Undefined))
  /\ IsInjective(Undefined)
  /\ Range(Undefined) \cap Symbols = {}
  /\ Missing \notin Symbols \cup Range(Undefined)
  /\ Lossy \subseteq Symbols

ASSUME CallersAssumption ==
  /\ Iterables \subseteq Seq(Symbols)
  /\ SymbolLists \subseteq Seq(Seq(Symbols))
  /\ MaxProcs \in Nat \ {0}
  /\ Raw \in [{"name", "cat"} -> Symbols]
  /\ None \notin Tables

(* A symbol_id_map names each id once; max_id < Len(Undefined), so that    *)
(* every hole has a filler name.                                           *)
ASSUME IdMapsAssumption ==
  \A m \in IdMaps :
    /\ DOMAIN m \subseteq Symbols
    /\ IsInjective(m)
    /\ \E n \in DOMAIN Undefined : n - 1 \in Range(m) /\ Range(m) \subseteq 0 .. (n - 1)

VARIABLES
  live,     \* the objects constructed so far
  tables,   \* the attributes of every object
  frame,    \* the name and cat cells of one data frame row
  codedBy,  \* history: the object that coded each cell
  call,     \* the add_symbols_mp call in progress
  taken,    \* how many of its iterables the pool has handed to workers
  put,      \* how many symbols of each iterable are on the queue
  queue     \* the Manager's queue

tableVars == <<live, tables>>
frameVars == <<frame, codedBy>>
poolVars == <<call, taken, put, queue>>
vars == <<tableVars, frameVars, poolVars>>

-----------------------------------------------------------------------------
(* Values *)

EmptyMap == [s \in {} |-> 0]

(* __init__, and then the list and the dict set by a constructor. *)
TableOf(names, index) == [sym_table |-> names, sym_index |-> index,
                          table_series |-> << >>, index_series |-> EmptyMap]
EmptyTable == TableOf(<< >>, EmptyMap)

Known(t) == DOMAIN t.sym_index

(* a occurs in symbols before any b does. *)
Precedes(symbols, a, b) ==
  \E p \in DOMAIN symbols : symbols[p] = a /\ \A q \in 1 .. p : symbols[q] # b

(* What the loop of add_symbols appends: every symbol that is not known,   *)
(* once, in the order of first occurrence.                                 *)
Arrivals(symbols, known) ==
  LET fresh == Range(symbols) \ known
  IN {f \in [1 .. Cardinality(fresh) -> fresh] :
        /\ Range(f) = fresh
        /\ \A i, j \in DOMAIN f : i < j => Precedes(symbols, f[i], f[j])}

(* Append new symbols: symbol new[i] gets the id len(sym_table) + i - 1.   *)
(* Mutants of NewId: counted from the last id, counted from one. *)
NewIdFromLast(t, new, s) == Len(t.sym_table) + (CHOOSE i \in DOMAIN new : new[i] = s) - 2
NewIdFromOne(t, new, s) == Len(t.sym_table) + (CHOOSE i \in DOMAIN new : new[i] = s)
NewId(t, new, s) == Len(t.sym_table) + (CHOOSE i \in DOMAIN new : new[i] = s) - 1
(* Mutant of Extended: the new symbols in front, every id taken anew. *)
ExtendedInFront(t, new) ==
  LET names == new \o t.sym_table
  IN [sym_table |-> names,
      sym_index |-> [s \in Range(names) |-> (CHOOSE p \in DOMAIN names : names[p] = s) - 1],
      table_series |-> t.table_series,
      index_series |-> t.index_series]
Extended(t, new) ==
  [sym_table |-> t.sym_table \o new,
   sym_index |-> [s \in Known(t) \cup Range(new) |->
                    IF s \in Known(t) THEN t.sym_index[s] ELSE NewId(t, new, s)],
   table_series |-> t.table_series,
   index_series |-> t.index_series]

(* Mutant of Refreshed: the index series is forgotten. *)
RefreshedHalf(t) == [t EXCEPT !.table_series = t.sym_table]

(* _update_symbol_series: the length decides whether the series are stale. *)
Refreshed(t) ==
  IF Len(t.sym_table) # Len(t.table_series)
  THEN [sym_table |-> t.sym_table, sym_index |-> t.sym_index,
        table_series |-> t.sym_table, index_series |-> t.sym_index]
  ELSE t

(* Mutant of FromIdMap: the filler names stay out of the index. *)
FromIdMapFillersUnindexed(m) ==
  LET n == CHOOSE k \in DOMAIN Undefined :
             k - 1 \in Range(m) /\ Range(m) \subseteq 0 .. (k - 1)
  IN TableOf([p \in 1 .. n |->
                IF \E s \in DOMAIN m : m[s] = p - 1
                THEN CHOOSE s \in DOMAIN m : m[s] = p - 1
                ELSE Undefined[p]], m)

(* create_from_symbol_id_map: the ids no symbol has get a filler name.     *)
FromIdMap(m) ==
  LET n == CHOOSE k \in DOMAIN Undefined :
             k - 1 \in Range(m) /\ Range(m) \subseteq 0 .. (k - 1)
      named == [p \in 1 .. n |->
                  IF \E s \in DOMAIN m : m[s] = p - 1
                  THEN CHOOSE s \in DOMAIN m : m[s] = p - 1
                  ELSE Undefined[p]]
  IN TableOf(named, [s \in Range(named) |->
                       (CHOOSE p \in 1 .. n : named[p] = s) - 1])

(* What pd.read_csv makes of a symbol that to_csv wrote. *)
CsvCell(s) == IF s \in Lossy THEN Missing ELSE s

StringCell(s) == [dtype |-> "string", val |-> s]
IdCell(i) == [dtype |-> "int", val |-> i]

-----------------------------------------------------------------------------
Init ==
  /\ live = {}
  /\ tables = [o \in Tables |-> EmptyTable]
  /\ frame = [c \in {"name", "cat"} |-> StringCell(Raw[c])]
  /\ codedBy = [c \in {"name", "cat"} |-> None]
  /\ call = [table |-> None, lists |-> << >>]
  /\ taken = 0
  /\ put = << >>
  /\ queue = << >>

(* The caller is not blocked inside add_symbols_mp. *)
Idle == call.table = None

Construct(o, t) ==
  /\ Idle
  /\ o \notin live
  /\ live' = live \cup {o}
  /\ tables' = [tables EXCEPT ![o] = t]
  /\ UNCHANGED <<frameVars, poolVars>>

(* TraceSymbolTable() *)
NewTable(o) == Construct(o, EmptyTable)

(* clone: the lists are copied, the series are not. *)
Clone(o, p) ==
  /\ p \in live
  /\ Construct(o, TableOf(tables[p].sym_table, tables[p].sym_index))

(* combine_symbol_tables([p, q]): add_symbols of one table after another. *)
Combine(o, p, q) ==
  /\ {p, q} \subseteq live
  /\ \E new \in Arrivals(tables[p].sym_table \o tables[q].sym_table, {}) :
       Construct(o, Extended(EmptyTable, new))

(* create_from_df: a set of both columns' strings, iterated in any order.  *)
(* Columns that are not strings any more raise ValueError.                 *)
CreateFromDf(o) ==
  /\ \A c \in DOMAIN frame : frame[c].dtype = "string"
  /\ \E symbols \in {<<frame["cat"].val, frame["name"].val>>,
                     <<frame["name"].val, frame["cat"].val>>} :
       \E new \in Arrivals(symbols, {}) :
         Construct(o, Extended(EmptyTable, new))

CreateFromSymbolIdMap(o) == \E m \in IdMaps : Construct(o, FromIdMap(m))

(* from_csv_file of the file that p._to_csv_file wrote. *)
FromCsvFile(o, p) ==
  /\ p \in live
  /\ LET symbols == [i \in DOMAIN tables[p].sym_table |->
                       CsvCell(tables[p].sym_table[i])]
     IN \E new \in Arrivals(symbols, {}) :
          Construct(o, Extended(EmptyTable, new))

AddSymbols(o) ==
  /\ Idle
  /\ o \in live
  /\ \E symbols \in Iterables :
       \E new \in Arrivals(symbols, Known(tables[o])) :
         tables' = [tables EXCEPT ![o] = Extended(@, new)]
  /\ UNCHANGED <<live, frameVars, poolVars>>

(* get_sym_index_series, get_sym_table_series and what is built on them.   *)
GetSeries(o) ==
  /\ Idle
  /\ o \in live
  /\ tables' = [tables EXCEPT ![o] = Refreshed(@)]
  /\ UNCHANGED <<live, frameVars, poolVars>>

-----------------------------------------------------------------------------
(* add_symbols_mp *)

PoolSize(lists) == IF MaxProcs < Len(lists) THEN MaxProcs ELSE Len(lists)

Finished(t) == put[t] = Len(call.lists[t])
Running == {t \in 1 .. taken : ~Finished(t)}

(* Pool(0), for an empty list, raises ValueError and changes nothing, so   *)
(* only a call with a list begins.                                         *)
BeginMp(o) ==
  /\ Idle
  /\ o \in live /\ Cardinality(live) <= MpTables
  /\ \E lists \in SymbolLists :
       /\ PoolSize(lists) > 0
       /\ call' = [table |-> o, lists |-> lists]
       /\ put' = [t \in DOMAIN lists |-> 0]
  /\ taken' = 0
  /\ queue' = << >>
  /\ UNCHANGED <<tableVars, frameVars>>

(* Mutant of TakeTask: one iterable too few. *)
TakeTaskButLast ==
  /\ ~Idle
  /\ taken < Len(call.lists) - 1
  /\ Cardinality(Running) < PoolSize(call.lists)
  /\ taken' = taken + 1
  /\ UNCHANGED <<tableVars, frameVars, call, put, queue>>

(* A worker that is free gets the next iterable (pool.map hands out larger *)
(* chunks only when there are over four iterables for each worker).        *)
TakeTask ==
  /\ ~Idle
  /\ taken < Len(call.lists)
  /\ Cardinality(Running) < PoolSize(call.lists)
  /\ taken' = taken + 1
  /\ UNCHANGED <<tableVars, frameVars, call, put, queue>>

(* _SymbolCollector.__call__: one put of the worker that has iterable t. *)
Put(t) ==
  /\ ~Idle
  /\ t \in Running
  /\ queue' = Append(queue, call.lists[t][put[t] + 1])
  /\ put' = [put EXCEPT ![t] = @ + 1]
  /\ UNCHANGED <<tableVars, frameVars, call, taken>>

(* Mutant of MapDone: the queue is drained once all iterables are taken. *)
MapDoneWhenTaken == taken = Len(call.lists)

(* pool.map and pool.join have returned when every iterable is done. *)
MapDone == taken = Len(call.lists) /\ Running = {}

(* The caller empties the queue and adds what it held. *)
Drain ==
  /\ ~Idle
  /\ MapDone
  /\ \E new \in Arrivals(queue, Known(tables[call.table])) :
       tables' = [tables EXCEPT ![call.table] = Extended(@, new)]
  /\ call' = [table |-> None, lists |-> << >>]
  /\ taken' = 0
  /\ put' = << >>
  /\ queue' = << >>
  /\ UNCHANGED <<live, frameVars>>

-----------------------------------------------------------------------------
(* Data frames *)

Encoded(o, cell) == IdCell(tables[o].sym_index[cell.val])

(* encode_df takes name, then cat; a column of ids is left alone.  A       *)
(* string the table does not have raises KeyError, so cat is not reached   *)
(* when name fails, and name stays coded when cat fails.  The contract of  *)
(* a retry is that it uses the table of the first attempt.                 *)
Encodes(o, c) == frame[c].dtype = "string" => frame[c].val \in Known(tables[o])
EncodedCols(o) ==
  {c \in DOMAIN frame : /\ frame[c].dtype = "string"
                        /\ Encodes(o, c)
                        /\ c = "cat" => Encodes(o, "name")}

EncodeDf(o) ==
  /\ Idle
  /\ o \in live
  /\ \A c \in DOMAIN frame : codedBy[c] \in {None, o}
  /\ frame' = [c \in DOMAIN frame |->
                 IF c \in EncodedCols(o) THEN Encoded(o, frame[c]) ELSE frame[c]]
  /\ codedBy' = [c \in DOMAIN frame |->
                   IF c \in EncodedCols(o) THEN o ELSE codedBy[c]]
  /\ UNCHANGED <<tableVars, poolVars>>

(* decode_df(df, create_new_columns=False) with the table that coded the   *)
(* columns of ids; a column of strings is left alone.                      *)
DecodeDf(o) ==
  /\ Idle
  /\ o \in live
  /\ \A c \in DOMAIN frame : codedBy[c] \in {None, o}
  /\ frame' = [c \in DOMAIN frame |->
                 IF frame[c].dtype = "int"
                 THEN StringCell(tables[o].sym_table[frame[c].val + 1])
                 ELSE frame[c]]
  /\ codedBy' = [c \in DOMAIN frame |-> None]
  /\ UNCHANGED <<tableVars, poolVars>>

(* update_encoded_df takes cat, then name: old_table[idx] is looked up in  *)
(* new_map, which raises KeyError when the new table lacks the symbol.     *)
OldName(old, c) == tables[old].sym_table[frame[c].val + 1]
Translates(o, old, c) == OldName(old, c) \in Known(tables[o])
TranslatedCols(o, old) ==
  {c \in DOMAIN frame : /\ Translates(o, old, c)
                        /\ c = "name" => Translates(o, old, "cat")}

(* Mutant of UpdateEncodedDf: the name column keeps its old ids. *)
UpdateEncodedDfOneColumn(o, old) ==
  /\ Idle
  /\ {o, old} \subseteq live
  /\ \A c \in DOMAIN frame : codedBy[c] = old /\ Translates(o, old, c)
  /\ frame' = [frame EXCEPT !["cat"] = IdCell(tables[o].sym_index[OldName(old, "cat")])]
  /\ codedBy' = [c \in DOMAIN frame |-> o]
  /\ UNCHANGED <<tableVars, poolVars>>

UpdateEncodedDf(o, old) ==
  /\ Idle
  /\ {o, old} \subseteq live
  /\ \A c \in DOMAIN frame : codedBy[c] = old
  /\ frame' = [c \in DOMAIN frame |->
                 IF c \in TranslatedCols(o, old)
                 THEN IdCell(tables[o].sym_index[OldName(old, c)])
                 ELSE frame[c]]
  /\ codedBy' = [c \in DOMAIN frame |->
                   IF c \in TranslatedCols(o, old) THEN o ELSE codedBy[c]]
  /\ UNCHANGED <<tableVars, poolVars>>

-----------------------------------------------------------------------------
Next ==
  \/ \E o \in Tables :
       \/ NewTable(o)
       \/ CreateFromDf(o)
       \/ CreateFromSymbolIdMap(o)
       \/ AddSymbols(o)
       \/ GetSeries(o)
       \/ BeginMp(o)
       \/ EncodeDf(o)
       \/ DecodeDf(o)
  \/ \E o, p \in Tables :
       \/ Clone(o, p)
       \/ FromCsvFile(o, p)
       \/ UpdateEncodedDf(o, p)
  \/ \E o, p, q \in Tables : Combine(o, p, q)
  \/ TakeTask
  \/ \E t \in DOMAIN put : Put(t)
  \/ Drain

(* The workers run and pool.map returns to the caller. *)
Fairness ==
  /\ WF_vars(TakeTask)
  /\ WF_vars(\E t \in DOMAIN put : Put(t))
  /\ WF_vars(Drain)

Spec == Init /\ [][Next]_vars /\ Fairness

-----------------------------------------------------------------------------
(* Properties *)

TableType(t) ==
  /\ t \in [sym_table : Seq(Names), sym_index : [Known(t) -> Nat],
            table_series : Seq(Names), index_series : [DOMAIN t.index_series -> Nat]]
  /\ Known(t) \cup DOMAIN t.index_series \subseteq Names

(* Every variable has its type. *)
TypeOK ==
  /\ live \subseteq Tables
  /\ DOMAIN tables = Tables
  /\ \A o \in Tables : TableType(tables[o])
  /\ frame \in [{"name", "cat"} -> [dtype : {"string"}, val : Names]
                                     \cup [dtype : {"int"}, val : Nat]]
  /\ codedBy \in [{"name", "cat"} -> Tables \cup {None}]
  /\ call \in [table : Tables \cup {None}, lists : Seq(Seq(Symbols))]
  /\ taken \in 0 .. Len(call.lists)
  /\ put \in [DOMAIN call.lists -> Nat]
  /\ queue \in Seq(Symbols)

(* sym_index is the inverse of sym_table, whatever constructor made the    *)
(* table and whatever was added since: every symbol has the one id under   *)
(* which the list holds it (trace_symbol_table.py:70-80, 217-266).         *)
TwoWay(t) ==
  /\ Known(t) = Range(t.sym_table)
  /\ \A p \in DOMAIN t.sym_table : t.sym_index[t.sym_table[p]] = p - 1
Bijective == \A o \in Tables : TwoWay(tables[o])

(* The length test of _update_symbol_series is enough: a series as long as *)
(* the table is the table, so no reader gets stale ids                     *)
(* (trace_symbol_table.py:155-166).                                        *)
SeriesCurrent ==
  \A o \in Tables :
    Len(tables[o].table_series) = Len(tables[o].sym_table)
      => /\ tables[o].table_series = tables[o].sym_table
         /\ tables[o].index_series = tables[o].sym_index

(* A cell that is coded decodes, with the table that coded it, to the      *)
(* string it was coded from, however much the table has grown meanwhile    *)
(* and however many tables the frame was moved between; a cell that is not *)
(* coded is that string (trace_symbol_table.py:268-288).                   *)
FrameDecodes ==
  \A c \in DOMAIN frame :
    IF frame[c].dtype = "string"
    THEN codedBy[c] = None /\ frame[c].val = Raw[c]
    ELSE /\ codedBy[c] \in live
         /\ frame[c].val < Len(tables[codedBy[c]].sym_table)
         /\ tables[codedBy[c]].sym_table[frame[c].val + 1] = Raw[c]

(* The queue of a running add_symbols_mp holds exactly what the workers    *)
(* put and nothing reaches the table before all have finished: the symbols *)
(* the call adds are those of all its iterables, whatever the interleaving *)
(* (trace_symbol_table.py:88-102).                                         *)
AllOf(lists) == UNION {Range(lists[t]) : t \in DOMAIN lists}
NothingLost ==
  [][call.table # None /\ call'.table = None
       => Range(tables'[call.table].sym_table)
            = Range(tables[call.table].sym_table) \cup AllOf(call.lists)]_vars

(* An id handed out is never handed out again or changed: a table only     *)
(* ever grows at its end (trace_symbol_table.py:76-80).                    *)
IdsStable ==
  [][\A o \in live :
       /\ Len(tables[o].sym_table) <= Len(tables'[o].sym_table)
       /\ \A p \in DOMAIN tables[o].sym_table :
            tables'[o].sym_table[p] = tables[o].sym_table[p]]_vars

(* A call of add_symbols_mp returns (trace_symbol_table.py:92-97). *)
MpReturns == call.table # None ~> call.table = None

-----------------------------------------------------------------------------
(* The numberings of the table objects, read as stable codes. *)
Code == INSTANCE StableCode WITH
          Coder <- Tables, Name <- Names,
          code <- [o \in Tables |-> tables[o].sym_index]

(* The tables implement StableCode: each is empty until it is constructed  *)
(* and afterwards only grows, without gaps or shared ids                   *)
(* (trace_symbol_table.py:61-80, 208-266).                                 *)
ImplementsStableCode == Code!Spec

=============================================================================
