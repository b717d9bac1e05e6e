------------------------------- MODULE Trace --------------------------------
(***************************************************************************)
(* hta/common/trace.py, class Trace: the traces of all ranks, parsed from  *)
(* one file each, coded with one symbol table, aligned and filtered.       *)
(*                                                                         *)
(* The caller makes one call after another.  The two loops over the ranks  *)
(* (the sequential parser, and the pool of workers) take one step for each *)
(* rank, since a file that cannot be parsed raises an exception there and  *)
(* ends the call; the user may repair the file and call again.             *)
(***************************************************************************)
EXTENDS TraceRows, Sequences, SequencesExt

CONSTANTS
  Ranks,        \* the ranks of trace_files, which are integers
  Files,        \* what the file of a rank may hold
  Sessions,     \* what a user does: the methods called, the values of
                \* use_multiprocessing, and the ranks whose file may not parse
  IncludeLast   \* the values of include_last_profiler_step the user passes

VARIABLES
  session,    \* the user's habits, one of Sessions
  files,      \* the content of every rank's file
  readable,   \* the ranks whose file parses without an exception
  traces,     \* the data frames, a name in them is an id
  labelled,   \* the ranks of traces whose row labels are the index column
  meta_data,  \* the ranks that have metadata
  sym_table,  \* symbol_table.sym_table
  min_ts,
  is_parsed,
  call        \* the call in progress

dataVars == <<traces, labelled, meta_data, sym_table>>
attrVars == <<dataVars, min_ts, is_parsed>>
vars == <<session, files, readable, attrVars, call>>

SymbolsOf(events) == {e.name : e \in events}

(* A file lists each symbol once; an index names one event; a correlation  *)
(* id links the kernels it started to one event of the host, a             *)
(* synchronization event has a correlation id, and time does not begin     *)
(* before 0.                                                               *)
ASSUME FilesAssumption ==
  \A f \in Files :
    /\ IsFiniteSet(f.events)
    /\ f.events \subseteq [index : Nat, ts : Nat, dur : Int, stream : Int,
                           correlation : Int, name : STRING, cat : STRING]
    /\ f.symbols \in Seq(SymbolsOf(f.events))
    /\ Range(f.symbols) = SymbolsOf(f.events) /\ IsInjective(f.symbols)
    /\ \A d, e \in f.events : d.index = e.index => d = e
    /\ \A d, e \in CpuRows(f.events) : d.correlation = e.correlation => d = e \/ d.correlation < 0
    /\ \A g \in GpuRows(f.events) : g.correlation >= 0

ASSUME CallsAssumption ==
  /\ Sessions \subseteq [calls : SUBSET {"load", "parse", "single", "align"},
                        mp : SUBSET BOOLEAN, unreadable : SUBSET Ranks]
  /\ IncludeLast \subseteq BOOLEAN
  /\ Ranks \subseteq Nat /\ IsFiniteSet(Ranks)

-----------------------------------------------------------------------------
(* Coding *)

(* A finite set of integers in ascending order. *)
Sorted(S) ==
  [i \in 1 .. Cardinality(S) |-> CHOOSE x \in S : Cardinality({y \in S : y < x}) = i - 1]

(* add_symbols: the symbols that the table does not have, in their order. *)
WithSymbols(table, symbols) ==
  LET new == Sorted({i \in DOMAIN symbols : symbols[i] \notin Range(table)})
  IN table \o [k \in DOMAIN new |-> symbols[new[k]]]

(* The tables of all ranks, one after the other. *)
WithTables(table, ranks) ==
  LET after[i \in 0 .. Len(ranks)] ==
        IF i = 0 THEN table ELSE WithSymbols(after[i - 1], files[ranks[i]].symbols)
  IN after[Len(ranks)]

IdOf(table, s) == (CHOOSE i \in DOMAIN table : table[i] = s) - 1
Coded(rows, table) == {[r EXCEPT !.name = IdOf(table, r.name)] : r \in rows}

(* What a reader of the object takes the rows of a data frame for. *)
SymbolAt(id) == IF id + 1 \in DOMAIN sym_table THEN sym_table[id + 1] ELSE NaN
Read(rows) == {[r EXCEPT !.name = SymbolAt(r.name)] : r \in rows}

(* The data frame that parse_trace_file returns, coded with its own table. *)
ParsedFile(r) == Coded(ParsedRows(files[r].events), files[r].symbols)

(* Mutant of Recoded: the ids of the rank's own table are kept. *)
RecodedNot(r) == traces[r]

(* global_map[local_table[idx]] *)
Recoded(r) ==
  {[row EXCEPT !.name = IdOf(sym_table, files[r].symbols[row.name + 1])] : row \in traces[r]}

-----------------------------------------------------------------------------
NoCall == [op |-> "none"]

Init ==
  /\ session \in Sessions
  /\ files \in [Ranks -> Files]
  /\ readable \in {Ranks \ u : u \in SUBSET session.unreadable}
  /\ traces = [r \in {} |-> {}]
  /\ labelled = {}
  /\ meta_data = {}
  /\ sym_table = << >>
  /\ min_ts = 0
  /\ is_parsed = FALSE
  /\ call = NoCall

Idle == call.op = "none"

(* The exception leaves the call where it was raised. *)
Raise == call' = NoCall /\ UNCHANGED attrVars

-----------------------------------------------------------------------------
(* parse_traces, alone or in load_traces *)

(* sorted(trace_files.keys())[:max_ranks]; with no ranks parse_traces only *)
(* resets is_parsed.                                                       *)
FirstRanks(max_ranks) ==
  LET sorted == Sorted(Ranks)
  IN IF max_ranks < Len(sorted) THEN SubSeq(sorted, 1, max_ranks) ELSE sorted

BeginParse(op, max_ranks, mp, include_last) ==
  LET ranks == FirstRanks(max_ranks)
      parallel == mp /\ Len(ranks) > 1
      first == IF ranks = << >> THEN "parsed" ELSE IF parallel THEN "pool" ELSE "loop"
  IN /\ call' = IF op = "parse" /\ ranks = << >> THEN NoCall
                ELSE [op |-> op, at |-> first, ranks |-> ranks, todo |-> ranks,
                      parsed |-> {}, raised |-> FALSE, include_last |-> include_last]
     /\ is_parsed' = (is_parsed /\ ranks # << >>)
     /\ UNCHANGED <<dataVars, min_ts>>

ParseTraces ==
  /\ Idle
  /\ "parse" \in session.calls
  /\ \E max_ranks \in 0 .. Cardinality(Ranks), mp \in session.mp :
       BeginParse("parse", max_ranks, mp, FALSE)
  /\ UNCHANGED <<session, files, readable>>

(* load_traces; a second call returns at once. *)
LoadTraces ==
  /\ Idle
  /\ "load" \in session.calls
  /\ IF is_parsed
     THEN UNCHANGED <<attrVars, call>>
     ELSE \E mp \in session.mp, include_last \in IncludeLast :
            BeginParse("load", Cardinality(Ranks), mp, include_last)
  /\ UNCHANGED <<session, files, readable>>

With(f, r, v) == [x \in DOMAIN f \cup {r} |-> IF x = r THEN v ELSE f[x]]

(* One iteration of the sequential loop: what earlier iterations stored    *)
(* stays when this one raises.                                             *)
ParseNext ==
  /\ ~Idle /\ call.at = "loop"
  /\ LET r == Head(call.todo) IN
       IF r \in readable
       THEN /\ traces' = With(traces, r, ParsedFile(r))
            /\ labelled' = labelled \cup {r}
            /\ meta_data' = meta_data \cup {r}
            /\ sym_table' = WithSymbols(sym_table, files[r].symbols)
            /\ call' = [call EXCEPT !.todo = Tail(@),
                                    !.at = IF Len(call.todo) = 1 THEN "recode" ELSE "loop"]
            /\ UNCHANGED <<min_ts, is_parsed>>
       ELSE Raise
  /\ UNCHANGED <<session, files, readable>>

(* A worker of the pool parses the file of r. *)
WorkerParse(r) ==
  /\ ~Idle /\ call.at = "pool"
  /\ r \in Range(call.ranks) \ call.parsed
  /\ call' = [call EXCEPT !.parsed = @ \cup {r}, !.raised = @ \/ r \notin readable]
  /\ UNCHANGED <<session, files, readable, attrVars>>

(* Mutant of Collect: a worker's exception is lost and the pool hangs. *)
CollectUnlessRaised ==
  /\ ~Idle /\ call.at = "pool" /\ call.parsed = Range(call.ranks) /\ ~call.raised
  /\ traces' = [r \in DOMAIN traces \cup call.parsed |->
                  IF r \in call.parsed THEN ParsedFile(r) ELSE traces[r]]
  /\ labelled' = labelled \cup call.parsed
  /\ meta_data' = meta_data \cup call.parsed
  /\ sym_table' = WithTables(sym_table, call.ranks)
  /\ call' = [call EXCEPT !.at = "recode"]
  /\ UNCHANGED <<session, files, readable, min_ts, is_parsed>>

(* pool.map returns, or raises, when all workers are done; the results are *)
(* then stored in the order of the ranks.                                  *)
Collect ==
  /\ ~Idle /\ call.at = "pool" /\ call.parsed = Range(call.ranks)
  /\ IF call.raised
     THEN Raise
     ELSE /\ traces' = [r \in DOMAIN traces \cup call.parsed |->
                          IF r \in call.parsed THEN ParsedFile(r) ELSE traces[r]]
          /\ labelled' = labelled \cup call.parsed
          /\ meta_data' = meta_data \cup call.parsed
          /\ sym_table' = WithTables(sym_table, call.ranks)
          /\ call' = [call EXCEPT !.at = "recode"]
          /\ UNCHANGED <<min_ts, is_parsed>>
  /\ UNCHANGED <<session, files, readable>>

(* Mutants of Recode: the metadata of empty ranks stays; they stay whole.  *)
RecodeKeepsMetaData ==
  /\ ~Idle /\ call.at = "recode"
  /\ LET empty == {r \in Range(call.ranks) : traces[r] = {}} IN
       /\ traces' = [r \in DOMAIN traces \ empty |->
                       IF r \in Range(call.ranks) THEN Recoded(r) ELSE traces[r]]
       /\ labelled' = labelled \ empty
  /\ call' = IF call.op = "parse" THEN NoCall ELSE [call EXCEPT !.at = "parsed"]
  /\ is_parsed' = TRUE
  /\ UNCHANGED <<session, files, readable, meta_data, sym_table, min_ts>>
RecodeKeepsEmpty ==
  /\ ~Idle /\ call.at = "recode"
  /\ traces' = [r \in DOMAIN traces |->
                  IF r \in Range(call.ranks) THEN Recoded(r) ELSE traces[r]]
  /\ call' = IF call.op = "parse" THEN NoCall ELSE [call EXCEPT !.at = "parsed"]
  /\ is_parsed' = TRUE
  /\ UNCHANGED <<session, files, readable, labelled, meta_data, sym_table, min_ts>>

(* The second half of parse_multiple_ranks codes the frames of this call   *)
(* with the object's symbol table and deletes the empty ones.              *)
Recode ==
  /\ ~Idle /\ call.at = "recode"
  /\ LET empty == {r \in Range(call.ranks) : traces[r] = {}} IN
       /\ traces' = [r \in DOMAIN traces \ empty |->
                       IF r \in Range(call.ranks) THEN Recoded(r) ELSE traces[r]]
       /\ labelled' = labelled \ empty
       /\ meta_data' = meta_data \ empty
  /\ call' = IF call.op = "parse" THEN NoCall ELSE [call EXCEPT !.at = "parsed"]
  /\ is_parsed' = TRUE
  /\ UNCHANGED <<session, files, readable, sym_table, min_ts>>

-----------------------------------------------------------------------------
(* align_and_filter_trace, alone or in load_traces *)

NonEmpty == {r \in DOMAIN traces : traces[r] # {}}

(* Over all ranks that have rows; every alignment overwrites min_ts. *)
NewMinTs == ColumnMin(UNION {traces[r] : r \in NonEmpty}, LAMBDA row : row.ts)

(* The number of ProfilerStep names in the symbol table of all ranks       *)
(* decides whether the ranks are filtered.                                 *)
Filters == Cardinality(Range(sym_table) \cap StepNames) > 1

(* Ranks of devices other than MTIA. *)
FilteredRank(rows, include_last) ==
  LET kept == Filtered(Read(rows), include_last)
  IN {row \in rows : \E k \in kept : k.index = row.index}

(* Mutant of AlignAndFilter: the offset is not recorded. *)
AlignAndFilterNoOffset(include_last) ==
  /\ traces' = [r \in DOMAIN traces |->
                  IF Filters
                  THEN FilteredRank(Aligned(traces[r], NewMinTs), include_last)
                  ELSE Aligned(traces[r], NewMinTs)]
  /\ UNCHANGED min_ts

(* A frame that has rows of the host is rebuilt with new row labels. *)
AlignAndFilter(include_last) ==
  LET aligned == [r \in DOMAIN traces |-> Aligned(traces[r], NewMinTs)]
  IN /\ min_ts' = IF NonEmpty = {} THEN min_ts ELSE NewMinTs
     /\ traces' = [r \in DOMAIN traces |->
                     IF Filters THEN FilteredRank(aligned[r], include_last) ELSE aligned[r]]

Align ==
  /\ Idle
  /\ "align" \in session.calls
  /\ \E include_last \in IncludeLast : AlignAndFilter(include_last)
  /\ labelled' = IF Filters THEN {r \in labelled : CpuRows(Read(traces[r])) = {}}
                            ELSE labelled
  /\ UNCHANGED <<session, files, readable, meta_data, sym_table, is_parsed, call>>

(* Mutant of FinishLoad: no set_index. *)
FinishLoadUnindexed ==
  /\ ~Idle /\ call.at = "parsed"
  /\ AlignAndFilter(call.include_last)
  /\ labelled' = IF Filters THEN {r \in labelled : CpuRows(Read(traces[r])) = {}}
                            ELSE labelled
  /\ is_parsed' = TRUE
  /\ call' = NoCall
  /\ UNCHANGED <<session, files, readable, meta_data, sym_table>>

(* The rest of load_traces: align, filter and set_index. *)
FinishLoad ==
  /\ ~Idle /\ call.at = "parsed"
  /\ AlignAndFilter(call.include_last)
  /\ labelled' = DOMAIN traces
  /\ is_parsed' = TRUE
  /\ call' = NoCall
  /\ UNCHANGED <<session, files, readable, meta_data, sym_table>>

(* parse_single_rank; an exception of the parser changes nothing. *)
ParseSingleRank(r) ==
  /\ Idle
  /\ "single" \in session.calls
  /\ IF r \notin readable
     THEN UNCHANGED dataVars
     ELSE IF files[r].events = {}
     THEN /\ traces' = [x \in DOMAIN traces \ {r} |-> traces[x]]
          /\ labelled' = labelled \ {r}
          /\ meta_data' = meta_data \ {r}
          /\ UNCHANGED sym_table
     ELSE /\ sym_table' = WithSymbols(sym_table, files[r].symbols)
          /\ traces' = With(traces, r, Coded(ParsedRows(files[r].events), sym_table'))
          /\ labelled' = labelled \cup {r}
          /\ meta_data' = meta_data \cup {r}
  /\ UNCHANGED <<session, files, readable, min_ts, is_parsed, call>>

(* The user repairs a file. *)
Repair(r) ==
  /\ r \notin readable
  /\ readable' = readable \cup {r}
  /\ UNCHANGED <<session, files, attrVars, call>>

Next ==
  \/ ParseTraces \/ LoadTraces \/ ParseNext \/ Collect \/ Recode \/ Align \/ FinishLoad
  \/ \E r \in Ranks : WorkerParse(r) \/ ParseSingleRank(r) \/ Repair(r)

(* A call that was begun goes on, and its workers run. *)
Fairness ==
  /\ WF_vars(ParseNext)
  /\ WF_vars(\E r \in Ranks : WorkerParse(r))
  /\ WF_vars(Collect)
  /\ WF_vars(Recode)
  /\ WF_vars(FinishLoad)

Spec == Init /\ [][Next]_vars /\ Fairness

-----------------------------------------------------------------------------
(* Properties *)

RowType == [index : Nat, ts : Int, dur : Int, end : Int, stream : Int, correlation : Int,
            name : Nat, cat : STRING, index_correlation : Int, iteration : Int \cup {NaN}]

(* Every variable has its type; a rank has metadata and row labels only if *)
(* it has a data frame.                                                    *)
TypeOK ==
  /\ session \in Sessions
  /\ files \in [Ranks -> Files]
  /\ readable \subseteq Ranks
  /\ DOMAIN traces \subseteq Ranks
  /\ \A r \in DOMAIN traces : \A row \in traces[r] : row \in RowType
  /\ labelled \subseteq DOMAIN traces
  /\ meta_data = DOMAIN traces
  /\ sym_table \in Seq(UNION {SymbolsOf(f.events) : f \in Files}) /\ IsInjective(sym_table)
  /\ min_ts \in Int
  /\ is_parsed \in BOOLEAN
  /\ ~Idle => /\ call.op \in {"parse", "load"}
             /\ call.at \in {"pool", "loop", "recode", "parsed"}
             /\ call.parsed \subseteq Range(call.ranks)

Event(r, row) == CHOOSE e \in files[r].events : e.index = row.index
Retained(r, e) == \E row \in traces[r] : row.index = e.index

(* The object says that it is parsed, and only load_traces can have done   *)
(* so.                                                                     *)
Parsed == Idle /\ is_parsed
Loaded == Parsed /\ session.calls = {"load"}

(* When load_traces says that the traces are loaded, every rank that has   *)
(* events is there and no other rank, however many attempts failed before  *)
(* (trace.py:443, 543-548, 578-583).                                       *)
RanksLoaded ==
  Loaded => /\ DOMAIN traces = {r \in Ranks : files[r].events # {}}
            /\ meta_data = DOMAIN traces

(* Every row of a parsed trace decodes, with the one table of all ranks,   *)
(* to the name in its file, as long as no parse failed or nothing but      *)
(* load_traces was called (trace.py:443, 533-542).  After a parse of all   *)
(* ranks that follows another and fails, it is not so.                     *)
NamesDecode ==
  Parsed => \A r \in DOMAIN traces : \A row \in traces[r] :
              SymbolAt(row.name) = Event(r, row).name

(* A loaded trace is aligned exactly once: min_ts, which                   *)
(* convert_time_series_to_events adds back, restores the time stamp of the *)
(* file (trace.py:739-742, 952).                                           *)
AlignedOnce ==
  Loaded => \A r \in DOMAIN traces : \A row \in traces[r] :
              row.ts + min_ts = Event(r, row).ts

(* In a loaded trace that was filtered a kernel is there if and only if    *)
(* the host event that launched it is, so that no link dangles; a kernel   *)
(* nobody launched is not there (trace.py:832-845).                        *)
KernelsFollowLaunches ==
  Loaded /\ Filters =>
    \A r \in DOMAIN traces :
      CpuRows(files[r].events) # {} =>
        \A g \in GpuRows(files[r].events) :
          Retained(r, g) <=> \E c \in Partners(files[r].events, g) : Retained(r, c)

(* In a loaded trace traces[r].loc[index_correlation] is the linked row    *)
(* (trace.py:437-442, after the filter renumbered the row labels).         *)
LinksResolve ==
  Loaded => \A r \in DOMAIN traces :
    /\ traces[r] # {} => r \in labelled
    /\ CpuRows(files[r].events) # {} =>
         \A row \in traces[r] :
           row.index_correlation > 0 /\ Filters =>
             \E linked \in traces[r] : /\ linked.index = row.index_correlation
                                      /\ linked.correlation = row.correlation

(* Whatever is called, in any order and any number of times: a kernel and  *)
(* its launch are dropped together or not at all (trace.py:801-845).       *)
LinkedTogether ==
  \A r \in DOMAIN traces : \A g \in GpuRows(files[r].events) :
    \A c \in Partners(files[r].events, g) : Retained(r, g) <=> Retained(r, c)

(* and the time stamps of a rank keep their distances (trace.py:740-741).  *)
OneOffset ==
  \A r \in DOMAIN traces : \A a, b \in traces[r] :
    a.ts - Event(r, a).ts = b.ts - Event(r, b).ts

(* A call returns or raises (trace.py:505-527).                            *)
CallReturns == ~Idle ~> Idle
=============================================================================
