----------------------------- MODULE TraceProofs -----------------------------
(***************************************************************************)
(* The Trace object, for any ranks, any files and any sessions, whichever  *)
(* methods are called in whichever order, with files that fail and are     *)
(* repaired.  Four invariants, one on top of the other:                    *)
(*   IInv      the time stamps of a rank are moved together, and once      *)
(*             where load_traces is the only method that is called;        *)
(*   Typed     the variables have their types, links have values;          *)
(*   Loading   what load_traces returns is the rows of the files, aligned, *)
(*             coded, filtered and labelled, and of every rank;            *)
(*   Settling  frames decode to the names of their files, and linked rows  *)
(*             are dropped together.                                       *)
(***************************************************************************)
EXTENDS Trace, SequenceTheorems, SetInduction

(* The rows are those of events of rank r, each d earlier than the event.  *)
Shifted(r, rows, d) ==
  \A row \in rows :
    /\ "index" \in DOMAIN row /\ "ts" \in DOMAIN row
    /\ row.ts \in Nat
    /\ \E e \in files[r].events : e.index = row.index /\ e.ts = row.ts + d

-----------------------------------------------------------------------------
(* What the functions of TraceRows and the parser do to time stamps. *)

(* The event of a row is the one with its index. *)
LEMMA ShiftedEvent ==
  ASSUME files \in [Ranks -> Files], NEW r \in Ranks, NEW rows, NEW d, Shifted(r, rows, d),
         NEW row \in rows
  PROVE  /\ Event(r, row).ts = row.ts + d /\ row.ts \in Nat
<1>1. PICK e \in files[r].events : e.index = row.index /\ e.ts = row.ts + d
  BY DEF Shifted
<1>2. files[r] \in Files
  OBVIOUS
<1>3. \A f, g \in files[r].events : f.index = g.index => f = g
  BY <1>2, FilesAssumption
<1>4. Event(r, row) = e
  BY <1>1, <1>3 DEF Event
<1> QED
  BY <1>1, <1>4 DEF Shifted

LEMMA CodedShifted ==
  ASSUME files \in [Ranks -> Files], NEW r \in Ranks, NEW table
  PROVE  Shifted(r, Coded(ParsedRows(files[r].events), table), 0)
<1> DEFINE events == files[r].events
<1>1. \A e \in events : e.ts \in Nat
  <2>1. files[r] \in Files
    OBVIOUS
  <2> QED
    BY <2>1, FilesAssumption
<1>2. SUFFICES ASSUME NEW e \in events,
                      NEW row, row = [ParsedRow(events, e) EXCEPT !.name = IdOf(table, ParsedRow(events, e).name)]
               PROVE  /\ "index" \in DOMAIN row /\ "ts" \in DOMAIN row
                      /\ row.index = e.index /\ row.ts = e.ts
  BY <1>1 DEF Shifted, Coded, ParsedRows
<1>3. /\ "index" \in DOMAIN ParsedRow(events, e) /\ "ts" \in DOMAIN ParsedRow(events, e)
      /\ ParsedRow(events, e).index = e.index /\ ParsedRow(events, e).ts = e.ts
  BY DEF ParsedRow
<1> QED
  BY <1>2, <1>3

LEMMA RecodedShifted ==
  ASSUME NEW r, NEW d, Shifted(r, traces[r], d)
  PROVE  Shifted(r, Recoded(r), d)
<1> SUFFICES ASSUME NEW row \in traces[r], NEW id, NEW new, new = [row EXCEPT !.name = id]
             PROVE  /\ "index" \in DOMAIN new /\ "ts" \in DOMAIN new
                    /\ new.index = row.index /\ new.ts = row.ts
  BY DEF Recoded, Shifted
<1> QED
  BY DEF Shifted

LEMMA AlignedShifted ==
  ASSUME files \in [Ranks -> Files], NEW r \in Ranks, NEW rows, NEW d \in Nat, Shifted(r, rows, d),
         NEW m \in Nat, \A row \in rows : m <= row.ts
  PROVE  Shifted(r, Aligned(rows, m), d + m)
<1> SUFFICES ASSUME NEW row \in rows, NEW new, new = [row EXCEPT !.ts = row.ts - m]
             PROVE  /\ "index" \in DOMAIN new /\ "ts" \in DOMAIN new /\ new.ts \in Nat
                    /\ \E e \in files[r].events : e.index = new.index /\ e.ts = new.ts + (d + m)
  BY DEF Aligned, Shifted
<1>1. /\ "index" \in DOMAIN new /\ "ts" \in DOMAIN new
      /\ new.index = row.index /\ new.ts = row.ts - m
  BY DEF Shifted
<1>2. PICK e \in files[r].events : e.index = row.index /\ e.ts = row.ts + d
  BY DEF Shifted
<1>3. row.ts \in Nat /\ m <= row.ts
  BY DEF Shifted
<1>4. new.ts \in Nat /\ e.ts = new.ts + (d + m)
  BY <1>1, <1>2, <1>3
<1> QED
  BY <1>1, <1>2, <1>4

LEMMA FilteredShifted ==
  ASSUME NEW r, NEW rows, NEW d, Shifted(r, rows, d), NEW include_last
  PROVE  Shifted(r, FilteredRank(rows, include_last), d)
  BY DEF FilteredRank, Shifted

(* The offset of an alignment is the earliest of all time stamps. *)
LEMMA EarliestOffset ==
  ASSUME NonEmpty # {}, \A r \in DOMAIN traces : \A row \in traces[r] : row.ts \in Nat
  PROVE  /\ NewMinTs \in Nat
         /\ \A r \in DOMAIN traces : \A row \in traces[r] : NewMinTs <= row.ts
<1> DEFINE T == {row.ts : row \in UNION {traces[r] : r \in NonEmpty}}
<1>1. T \subseteq Nat /\ T # {}
  BY DEF NonEmpty
<1>2. NewMinTs = Min(T)
  BY DEF NewMinTs, ColumnMin
<1>3. NewMinTs \in T /\ \A t \in T : NewMinTs <= t
  <2> HIDE DEF T
  <2> QED
    BY <1>1, <1>2, Least
<1>4. ASSUME NEW r \in DOMAIN traces, NEW row \in traces[r] PROVE row.ts \in T
  BY DEF NonEmpty
<1> QED
  BY <1>1, <1>3, <1>4

-----------------------------------------------------------------------------
(* The inductive invariant *)

(* What the steps of a call find in its record. *)
CallSound ==
  ~Idle => /\ DOMAIN call = {"op", "at", "ranks", "todo", "parsed", "raised", "include_last"}
           /\ call.op \in {"parse", "load"}
           /\ call.at \in {"pool", "loop", "recode", "parsed"}
           /\ call.parsed \subseteq Ranks

Frames ==
  /\ session \in Sessions
  /\ files \in [Ranks -> Files]
  /\ readable \subseteq Ranks
  /\ DOMAIN traces \subseteq Ranks

(* The rows of a rank are together, wherever that is. *)
Together == \A r \in DOMAIN traces : \E d \in Nat : Shifted(r, traces[r], d)

(* Where nothing but load_traces is called, the frames are as in the files *)
(* until the call that aligns them returns; is_parsed is set on the way,   *)
(* but by a call that cannot raise any more.                               *)
AsInFiles(d) == \A r \in DOMAIN traces : Shifted(r, traces[r], d)
LoadsOnly ==
  session.calls = {"load"} =>
    /\ ~Idle => call.op = "load" /\ (is_parsed => call.at = "parsed")
    /\ IF Parsed THEN AsInFiles(min_ts) ELSE AsInFiles(0)

IInv == Frames /\ CallSound /\ Together /\ LoadsOnly

LEMMA InitIInv == Init => IInv
<1> SUFFICES ASSUME Init PROVE IInv
  OBVIOUS
<1>1. DOMAIN traces = {} /\ Idle /\ ~is_parsed
  BY DEF Init, Idle, NoCall
<1> QED
  BY <1>1 DEF Init, IInv, Frames, CallSound, Together, LoadsOnly, Parsed, AsInFiles

-----------------------------------------------------------------------------
(* The steps *)

(* A step that leaves every frame, or puts one in its place that is moved  *)
(* as far, or is as in the file.                                           *)
LEMMA FramesReplaced ==
  ASSUME Together, UNCHANGED files,
         \A r \in DOMAIN traces' :
           \/ r \in DOMAIN traces /\ traces'[r] = traces[r]
           \/ r \in DOMAIN traces /\ traces'[r] = Recoded(r)
           \/ Shifted(r, traces'[r], 0)
  PROVE  Together' /\ (AsInFiles(0) => AsInFiles(0)')
<1>1. ASSUME NEW r \in DOMAIN traces', NEW d, r \in DOMAIN traces => Shifted(r, traces[r], d)
      PROVE  Shifted(r, traces[r], d)' \/ Shifted(r, traces[r], 0)'
  <2>1. Shifted(r, traces'[r], d) \/ Shifted(r, traces'[r], 0)
    BY <1>1, RecodedShifted
  <2> QED
    BY <2>1 DEF Shifted
<1>2. Together'
  <2> SUFFICES ASSUME NEW r \in DOMAIN traces' PROVE \E d \in Nat : Shifted(r, traces[r], d)'
    BY DEF Together
  <2>1. CASE r \in DOMAIN traces
    <3>1. PICK d \in Nat : Shifted(r, traces[r], d)
      BY <2>1 DEF Together
    <3> QED
      BY <3>1, <1>1
  <2>2. CASE r \notin DOMAIN traces
    BY <2>2, <1>1
  <2> QED
    BY <2>1, <2>2
<1>3. ASSUME AsInFiles(0) PROVE AsInFiles(0)'
  <2> SUFFICES ASSUME NEW r \in DOMAIN traces' PROVE Shifted(r, traces[r], 0)'
    BY DEF AsInFiles
  <2>1. r \in DOMAIN traces => Shifted(r, traces[r], 0)
    BY <1>3 DEF AsInFiles
  <2> QED
    BY <2>1, <1>1
<1> QED
  BY <1>2, <1>3

(* A step that changes no frame. *)
LEMMA FramesStay ==
  ASSUME Together, UNCHANGED <<files, traces>>
  PROVE  Together' /\ (\A d : AsInFiles(d) => AsInFiles(d)')
  BY DEF Together, AsInFiles, Shifted

LEMMA RaiseStep ==
  ASSUME IInv, ~Idle, call.at # "parsed", Raise, UNCHANGED <<session, files, readable>>
  PROVE  IInv'
<1>1. Idle' /\ UNCHANGED <<session, files, readable, traces, min_ts, is_parsed>>
  BY DEF Raise, Idle, NoCall, attrVars, dataVars
<1>2. Together' /\ (AsInFiles(0) => AsInFiles(0)')
  BY <1>1, FramesStay DEF IInv
<1>3. LoadsOnly'
  BY <1>1, <1>2 DEF IInv, LoadsOnly, Parsed
<1> QED
  BY <1>1, <1>2, <1>3 DEF IInv, Frames, CallSound

LEMMA BeginParseStep ==
  ASSUME IInv, Idle, NEW op \in {"parse", "load"}, NEW max_ranks, NEW mp, NEW include_last,
         BeginParse(op, max_ranks, mp, include_last),
         op = "parse" => session.calls # {"load"},
         op = "load" => ~is_parsed,
         UNCHANGED <<session, files, readable>>
  PROVE  IInv'
<1>1. UNCHANGED <<traces, min_ts>> /\ (is_parsed' => is_parsed)
  BY DEF BeginParse, dataVars
<1>2. \/ op = "parse" /\ call' = NoCall
      \/ \E ranks : \E at \in {"parsed", "pool", "loop"} :
           call' = [op |-> op, at |-> at, ranks |-> ranks, todo |-> ranks,
                    parsed |-> {}, raised |-> FALSE, include_last |-> include_last]
  BY DEF BeginParse
<1>3. CallSound' /\ (~Idle' => call'.op = op) /\ (op = "load" => ~Idle')
  BY <1>2 DEF CallSound, Idle, NoCall
<1>4. Together' /\ (AsInFiles(0) => AsInFiles(0)')
  BY <1>1, FramesStay DEF IInv
<1>5. LoadsOnly'
  BY <1>1, <1>3, <1>4 DEF IInv, LoadsOnly, Parsed
<1> QED
  BY <1>1, <1>3, <1>4, <1>5 DEF IInv, Frames

LEMMA ParseNextStep == ASSUME IInv, ParseNext PROVE IInv'
<1> DEFINE r == Head(call.todo)
<1>1. ~Idle /\ call.at = "loop" /\ UNCHANGED <<session, files, readable>>
  BY DEF ParseNext
<1>2. CASE r \notin readable
  BY <1>1, <1>2, RaiseStep DEF ParseNext
<1>3. CASE r \in readable
  <2>1. /\ traces' = With(traces, r, ParsedFile(r)) /\ UNCHANGED <<min_ts, is_parsed>>
        /\ \E todo : \E at \in {"recode", "loop"} : call' = [call EXCEPT !.todo = todo, !.at = at]
    BY <1>3 DEF ParseNext
  <2>2. r \in Ranks
    BY <1>3 DEF IInv, Frames
  <2>3. DOMAIN traces' = DOMAIN traces \cup {r} /\ traces'[r] = ParsedFile(r)
        /\ \A q \in DOMAIN traces : q # r => traces'[q] = traces[q]
    BY <2>1 DEF With
  <2>4. Shifted(r, traces'[r], 0)
    BY <2>2, <2>3, CodedShifted DEF IInv, Frames, ParsedFile
  <2>5. Together' /\ (AsInFiles(0) => AsInFiles(0)')
    BY <1>1, <2>3, <2>4, FramesReplaced DEF IInv
  <2>6. CallSound' /\ ~Idle' /\ call'.op = call.op /\ call'.at # "parsed"
    BY <1>1, <2>1 DEF IInv, CallSound, Idle
  <2>7. LoadsOnly'
    BY <1>1, <2>1, <2>5, <2>6 DEF IInv, LoadsOnly, Parsed
  <2> QED
    BY <1>1, <2>2, <2>3, <2>5, <2>6, <2>7 DEF IInv, Frames
<1> QED
  BY <1>2, <1>3

LEMMA WorkerParseStep == ASSUME IInv, NEW r \in Ranks, WorkerParse(r) PROVE IInv'
<1>1. /\ ~Idle /\ UNCHANGED <<session, files, readable, traces, min_ts, is_parsed>>
      /\ call' = [call EXCEPT !.parsed = call.parsed \cup {r}, !.raised = call.raised \/ r \notin readable]
  BY DEF WorkerParse, attrVars, dataVars
<1>2. CallSound' /\ ~Idle' /\ call'.op = call.op /\ call'.at = call.at
  BY <1>1 DEF IInv, CallSound, Idle
<1>3. Together' /\ (\A d : AsInFiles(d) => AsInFiles(d)')
  BY <1>1, FramesStay DEF IInv
<1>4. LoadsOnly'
  BY <1>1, <1>2, <1>3 DEF IInv, LoadsOnly, Parsed
<1> QED
  BY <1>1, <1>2, <1>3, <1>4 DEF IInv, Frames

LEMMA CollectStep == ASSUME IInv, Collect PROVE IInv'
<1>1. ~Idle /\ call.at = "pool" /\ UNCHANGED <<session, files, readable>>
  BY DEF Collect
<1>2. CASE call.raised
  BY <1>1, <1>2, RaiseStep DEF Collect
<1>3. CASE ~call.raised
  <2>1. /\ traces' = [r \in DOMAIN traces \cup call.parsed |->
                        IF r \in call.parsed THEN ParsedFile(r) ELSE traces[r]]
        /\ call' = [call EXCEPT !.at = "recode"] /\ UNCHANGED <<min_ts, is_parsed>>
    BY <1>3 DEF Collect
  <2>2. call.parsed \subseteq Ranks /\ DOMAIN traces' \subseteq Ranks
    BY <1>1, <2>1 DEF IInv, CallSound, Frames
  <2>3. \A r \in DOMAIN traces' : \/ r \in DOMAIN traces /\ traces'[r] = traces[r]
                                  \/ Shifted(r, traces'[r], 0)
    BY <2>1, <2>2, CodedShifted DEF IInv, Frames, ParsedFile
  <2>4. Together' /\ (AsInFiles(0) => AsInFiles(0)')
    BY <1>1, <2>3, FramesReplaced DEF IInv
  <2>5. CallSound' /\ ~Idle' /\ call'.op = call.op /\ call'.at = "recode"
    BY <1>1, <2>1 DEF IInv, CallSound, Idle
  <2>6. LoadsOnly'
    BY <1>1, <2>1, <2>4, <2>5 DEF IInv, LoadsOnly, Parsed
  <2> QED
    BY <1>1, <2>2, <2>4, <2>5, <2>6 DEF IInv, Frames
<1> QED
  BY <1>2, <1>3

LEMMA RecodeStep == ASSUME IInv, Recode PROVE IInv'
<1>1. ~Idle /\ call.at = "recode" /\ UNCHANGED <<session, files, readable, min_ts>> /\ is_parsed' = TRUE
  BY DEF Recode
<1>2. PICK empty : traces' = [r \in DOMAIN traces \ empty |->
                                IF r \in Range(call.ranks) THEN Recoded(r) ELSE traces[r]]
  BY DEF Recode
<1>3. call' = IF call.op = "parse" THEN NoCall ELSE [call EXCEPT !.at = "parsed"]
  BY DEF Recode
<1>4. Together' /\ (AsInFiles(0) => AsInFiles(0)')
  BY <1>1, <1>2, FramesReplaced DEF IInv
<1>5. /\ CallSound'
      /\ call.op = "load" => ~Idle' /\ call'.op = "load" /\ call'.at = "parsed"
  BY <1>1, <1>3 DEF IInv, CallSound, Idle, NoCall
<1>6. LoadsOnly'
  BY <1>1, <1>4, <1>5 DEF IInv, LoadsOnly, Parsed
<1> QED
  BY <1>1, <1>2, <1>4, <1>5, <1>6 DEF IInv, Frames

(* Alignment moves the rows of every rank together, and those that are as  *)
(* in the files by min_ts.                                                 *)
LEMMA AlignAndFilterMoves ==
  ASSUME Frames, Together, NEW include_last, AlignAndFilter(include_last), UNCHANGED files
  PROVE  /\ DOMAIN traces' = DOMAIN traces
         /\ Together' /\ (AsInFiles(0) => AsInFiles(min_ts)')
<1> DEFINE aligned(r) == Aligned(traces[r], NewMinTs)
<1>1. /\ min_ts' = IF NonEmpty = {} THEN min_ts ELSE NewMinTs
      /\ DOMAIN traces' = DOMAIN traces
      /\ \A r \in DOMAIN traces :
           \/ traces'[r] = FilteredRank(aligned(r), include_last)
           \/ traces'[r] = aligned(r)
  BY DEF AlignAndFilter
<1>2. \A r \in DOMAIN traces : \A row \in traces[r] : row.ts \in Nat
  BY DEF Together, Shifted
<1>3. CASE NonEmpty = {}
  <2>1. \A r \in DOMAIN traces : traces[r] = {}
    BY <1>3 DEF NonEmpty
  <2>2. \A r \in DOMAIN traces : aligned(r) = {}
    BY <2>1 DEF Aligned
  <2>4. \A r \in DOMAIN traces' : traces'[r] = {}
    BY <1>1, <2>2 DEF FilteredRank
  <2> QED
    BY <1>1, <2>4 DEF Together, AsInFiles, Shifted
<1>4. CASE NonEmpty # {}
  <2>1. PICK m \in Nat : m = NewMinTs
    BY <1>2, <1>4, EarliestOffset
  <2>6. \A r \in DOMAIN traces : \A row \in traces[r] : m <= row.ts
    BY <2>1, <1>2, <1>4, EarliestOffset
  <2>2. ASSUME NEW r \in DOMAIN traces, NEW d \in Nat, Shifted(r, traces[r], d)
        PROVE  Shifted(r, traces'[r], d + m)
    <3>1. Shifted(r, aligned(r), d + m)
      BY <2>1, <2>6, <2>2, AlignedShifted DEF Frames
    <3> HIDE DEF aligned
    <3> QED
      BY <3>1, <1>1, FilteredShifted
  <2>3. ASSUME NEW r \in DOMAIN traces, NEW d \in Nat, Shifted(r, traces[r], d)
        PROVE  Shifted(r, traces[r], d + m)'
    <3>1. Shifted(r, traces'[r], d + m)
      BY <2>2, <2>3
    <3> QED
      BY <3>1 DEF Shifted
  <2>4. Together'
    BY <1>1, <2>1, <2>3 DEF Together
  <2>5. ASSUME AsInFiles(0) PROVE AsInFiles(min_ts)'
    <3>1. min_ts' = m /\ 0 + m = m
      BY <1>1, <1>4, <2>1
    <3>2. \A r \in DOMAIN traces : Shifted(r, traces[r], 0 + m)'
      BY <2>3, <2>5 DEF AsInFiles
    <3>3. \A r \in DOMAIN traces : Shifted(r, traces[r], min_ts)'
      BY <3>1, <3>2 DEF Shifted
    <3> QED
      BY <1>1, <3>3 DEF AsInFiles
  <2> QED
    BY <1>1, <2>4, <2>5
<1> QED
  BY <1>3, <1>4

LEMMA AlignStep == ASSUME IInv, Align PROVE IInv'
<1>1. /\ "align" \in session.calls /\ UNCHANGED <<session, files, readable, is_parsed, call>>
      /\ \E include_last \in IncludeLast : AlignAndFilter(include_last)
  BY DEF Align
<1>2. DOMAIN traces' = DOMAIN traces /\ Together'
  BY <1>1, AlignAndFilterMoves DEF IInv
<1>3. LoadsOnly'
  BY <1>1 DEF LoadsOnly
<1> QED
  BY <1>1, <1>2, <1>3 DEF IInv, Frames, CallSound, Idle

LEMMA FinishLoadStep == ASSUME IInv, FinishLoad PROVE IInv'
<1>1. /\ ~Idle /\ call' = NoCall /\ is_parsed' = TRUE
      /\ UNCHANGED <<session, files, readable>> /\ AlignAndFilter(call.include_last)
  BY DEF FinishLoad
<1>2. /\ DOMAIN traces' = DOMAIN traces /\ Together'
      /\ AsInFiles(0) => AsInFiles(min_ts)'
  BY <1>1, AlignAndFilterMoves DEF IInv
<1>3. Idle'
  BY <1>1 DEF Idle, NoCall
<1>4. LoadsOnly'
  BY <1>1, <1>2, <1>3 DEF IInv, LoadsOnly, Parsed
<1> QED
  BY <1>1, <1>2, <1>3, <1>4 DEF IInv, Frames, CallSound

LEMMA ParseSingleRankStep == ASSUME IInv, NEW r \in Ranks, ParseSingleRank(r) PROVE IInv'
<1>1. "single" \in session.calls /\ UNCHANGED <<session, files, readable, call>>
  BY DEF ParseSingleRank
<1>2. /\ DOMAIN traces' \subseteq Ranks
      /\ \A q \in DOMAIN traces' : \/ q \in DOMAIN traces /\ traces'[q] = traces[q]
                                  \/ Shifted(q, traces'[q], 0)
  <2>1. CASE r \notin readable
    BY <2>1 DEF ParseSingleRank, dataVars, IInv, Frames
  <2>2. CASE r \in readable /\ files[r].events = {}
    BY <2>2 DEF ParseSingleRank, IInv, Frames
  <2>3. CASE r \in readable /\ files[r].events # {}
    <3>1. traces' = With(traces, r, Coded(ParsedRows(files[r].events), sym_table'))
      BY <2>3 DEF ParseSingleRank
    <3>2. Shifted(r, Coded(ParsedRows(files[r].events), sym_table'), 0)
      BY CodedShifted DEF IInv, Frames
    <3> QED
      BY <3>1, <3>2 DEF With, IInv, Frames
  <2> QED
    BY <2>1, <2>2, <2>3
<1>3. Together'
  BY <1>1, <1>2, FramesReplaced DEF IInv
<1>4. LoadsOnly'
  BY <1>1 DEF LoadsOnly
<1> QED
  BY <1>1, <1>2, <1>3, <1>4 DEF IInv, Frames, CallSound, Idle

(* The user repairs a file, load_traces finds the traces loaded, or        *)
(* nothing happens.                                                        *)
LEMMA QuietStep ==
  ASSUME IInv, UNCHANGED <<session, files, attrVars, call>>, readable' \subseteq Ranks
  PROVE  IInv'
<1>1. UNCHANGED <<session, files, traces, min_ts, is_parsed, call>>
  BY DEF attrVars, dataVars
<1>2. Together' /\ (\A d : AsInFiles(d) => AsInFiles(d)')
  BY <1>1, FramesStay DEF IInv
<1>3. LoadsOnly'
  BY <1>1, <1>2 DEF IInv, LoadsOnly, Parsed, Idle
<1> QED
  BY <1>1, <1>2, <1>3 DEF IInv, Frames, CallSound, Idle

LEMMA NextIInv == IInv /\ [Next]_vars => IInv'
<1> SUFFICES ASSUME IInv, [Next]_vars PROVE IInv'
  OBVIOUS
<1>1. CASE ParseTraces
  <2>1. Idle /\ "parse" \in session.calls /\ UNCHANGED <<session, files, readable>>
    BY <1>1 DEF ParseTraces
  <2>2. PICK max_ranks \in 0 .. Cardinality(Ranks), mp \in session.mp :
          BeginParse("parse", max_ranks, mp, FALSE)
    BY <1>1 DEF ParseTraces
  <2>3. session.calls # {"load"} /\ "parse" \in {"parse", "load"} /\ "parse" # "load"
    BY <2>1
  <2> QED
    BY <2>1, <2>2, <2>3, BeginParseStep
<1>2. CASE LoadTraces
  <2>1. CASE is_parsed
    BY <1>2, <2>1, QuietStep DEF LoadTraces, IInv, Frames
  <2>2. CASE ~is_parsed
    <3>1. Idle /\ UNCHANGED <<session, files, readable>>
      BY <1>2 DEF LoadTraces
    <3>2. PICK mp \in session.mp, include_last \in IncludeLast :
            BeginParse("load", Cardinality(Ranks), mp, include_last)
      BY <1>2, <2>2 DEF LoadTraces
    <3>3. "load" \in {"parse", "load"} /\ "load" # "parse"
      OBVIOUS
    <3> QED
      BY <2>2, <3>1, <3>2, <3>3, BeginParseStep
  <2> QED
    BY <2>1, <2>2
<1>3. CASE ParseNext
  BY <1>3, ParseNextStep
<1>4. CASE Collect
  BY <1>4, CollectStep
<1>5. CASE Recode
  BY <1>5, RecodeStep
<1>6. CASE Align
  BY <1>6, AlignStep
<1>7. CASE FinishLoad
  BY <1>7, FinishLoadStep
<1>8. ASSUME NEW r \in Ranks, WorkerParse(r) PROVE IInv'
  BY <1>8, WorkerParseStep
<1>9. ASSUME NEW r \in Ranks, ParseSingleRank(r) PROVE IInv'
  BY <1>9, ParseSingleRankStep
<1>10. ASSUME NEW r \in Ranks, Repair(r) PROVE IInv'
  BY <1>10, QuietStep DEF Repair, IInv, Frames
<1>11. CASE UNCHANGED vars
  BY <1>11, QuietStep DEF vars, IInv, Frames
<1> QED
  BY <1>1, <1>2, <1>3, <1>4, <1>5, <1>6, <1>7, <1>8, <1>9, <1>10, <1>11 DEF Next

-----------------------------------------------------------------------------
LEMMA Inductive == Spec => []IInv
  BY InitIInv, NextIInv, PTL DEF Spec

(* For all files, ranks and sessions: whatever is called in whichever      *)
(* order, failed or repeated, the time stamps of a rank keep their         *)
(* distances (_align_all_ranks).                                           *)
THEOREM AlwaysOneOffset == Spec => []OneOffset
<1>1. IInv => OneOffset
  <2> SUFFICES ASSUME IInv, NEW r \in DOMAIN traces, NEW a \in traces[r], NEW b \in traces[r]
               PROVE  a.ts - Event(r, a).ts = b.ts - Event(r, b).ts
    BY DEF OneOffset
  <2>1. PICK d \in Nat : Shifted(r, traces[r], d)
    BY DEF IInv, Together
  <2>2. r \in Ranks /\ files \in [Ranks -> Files]
    BY DEF IInv, Frames
  <2>3. Event(r, a).ts = a.ts + d /\ a.ts \in Nat /\ Event(r, b).ts = b.ts + d /\ b.ts \in Nat
    BY <2>1, <2>2, ShiftedEvent
  <2> QED
    BY <2>3
<1> QED
  BY <1>1, Inductive, PTL

(* For all files and ranks: where load_traces alone is called, however     *)
(* many attempts failed before, min_ts restores the time stamps of the     *)
(* files (convert_time_series_to_events adds it back).                     *)
THEOREM AlwaysAlignedOnce == Spec => []AlignedOnce
<1>1. IInv => AlignedOnce
  <2> SUFFICES ASSUME IInv, Loaded, NEW r \in DOMAIN traces, NEW row \in traces[r]
               PROVE  row.ts + min_ts = Event(r, row).ts
    BY DEF AlignedOnce
  <2>1. Shifted(r, traces[r], min_ts)
    BY DEF IInv, LoadsOnly, AsInFiles, Loaded
  <2>2. r \in Ranks /\ files \in [Ranks -> Files]
    BY DEF IInv, Frames
  <2> QED
    BY <2>1, <2>2, ShiftedEvent
<1> QED
  BY <1>1, Inductive, PTL


-----------------------------------------------------------------------------
(* The symbol table *)

(* Sorted has the elements of a set, each once, from the least up. *)
LEMMA SortedElements ==
  ASSUME NEW S, IsFiniteSet(S), S \subseteq Int
  PROVE  /\ Sorted(S) \in Seq(S) /\ Range(Sorted(S)) = S /\ IsInjective(Sorted(S))
         /\ Len(Sorted(S)) = Cardinality(S)
<1> DEFINE n == Cardinality(S)
           below(x) == {y \in S : y < x}
           place == [x \in S |-> Cardinality(below(x)) + 1]
<1>1. n \in Nat
  BY FS_CardinalityType
<1>2. ASSUME NEW x \in S PROVE IsFiniteSet(below(x)) /\ Cardinality(below(x)) \in Nat
  <2>1. below(x) \in SUBSET S
    OBVIOUS
  <2>2. IsFiniteSet(below(x))
    <3> HIDE DEF below
    <3> QED
      BY <2>1, FS_Subset
  <2> QED
    BY <2>2, FS_CardinalityType
<1>3. ASSUME NEW x \in S, NEW T, T \subseteq S, below(x) \cup {x} \subseteq T, IsFiniteSet(T)
      PROVE  Cardinality(below(x)) + 1 <= Cardinality(T)
  <2>1. x \notin below(x)
    OBVIOUS
  <2> HIDE DEF below
  <2>2. IsFiniteSet(below(x) \cup {x}) /\ Cardinality(below(x) \cup {x}) = Cardinality(below(x)) + 1
    BY <1>2, <2>1, FS_AddElement
  <2>3. Cardinality(below(x) \cup {x}) <= Cardinality(T)
    BY <1>3, FS_Subset
  <2> QED
    BY <2>2, <2>3
<1>4. \A x \in S : place[x] \in 1 .. n
  <2> SUFFICES ASSUME NEW x \in S PROVE Cardinality(below(x)) + 1 \in 1 .. n
    OBVIOUS
  <2>1. below(x) \cup {x} \subseteq S
    OBVIOUS
  <2>2. Cardinality(below(x)) + 1 <= Cardinality(S)
    <3> HIDE DEF below
    <3> QED
      BY <2>1, <1>3
  <2>3. Cardinality(below(x)) \in Nat
    BY <1>2
  <2> QED
    BY <2>2, <2>3, <1>1
<1>5. ASSUME NEW x \in S, NEW y \in S, x < y PROVE place[x] < place[y]
  <2>1. below(x) \cup {x} \subseteq below(y) /\ below(y) \subseteq S
    <3>1. \A z \in S : z < x => z < y
      <4> SUFFICES ASSUME NEW z \in S, z < x PROVE z < y
        OBVIOUS
      <4>1. x \in Int /\ y \in Int /\ z \in Int
        OBVIOUS
      <4> QED
        BY <4>1, <1>5
    <3> QED
      BY <3>1, <1>5
  <2>2. Cardinality(below(x)) + 1 <= Cardinality(below(y))
    <3> HIDE DEF below
    <3> QED
      BY <2>1, <1>2, <1>3
  <2>3. Cardinality(below(x)) \in Nat /\ Cardinality(below(y)) \in Nat
    BY <1>2
  <2>4. place[x] = Cardinality(below(x)) + 1 /\ place[y] = Cardinality(below(y)) + 1
    OBVIOUS
  <2> HIDE DEF below, place
  <2> QED
    BY <2>2, <2>3, <2>4
<1>6. \A x, y \in S : place[x] = place[y] => x = y
  <2> SUFFICES ASSUME NEW x \in S, NEW y \in S, place[x] = place[y], x # y PROVE FALSE
    OBVIOUS
  <2>1. x < y \/ y < x
    OBVIOUS
  <2>2. place[x] \in Int /\ place[y] \in Int
    BY <1>1, <1>4
  <2> HIDE DEF place
  <2> QED
    BY <2>1, <2>2, <1>5
<1>7. {place[x] : x \in S} = 1 .. n
  <2> DEFINE P == {place[x] : x \in S}
  <2>1. P \subseteq 1 .. n
    BY <1>4
  <2>2. Cardinality(P) = n
    <3> HIDE DEF place
    <3> QED
      BY <1>6, Image
  <2>3. IsFiniteSet(1 .. n) /\ Cardinality(1 .. n) = n
    BY <1>1, Positions
  <2>4. P = 1 .. n
    <3> HIDE DEF P, n
    <3> QED
      BY <2>1, <2>2, <2>3, FS_Subset
  <2> QED
    BY <2>4
<1>8. ASSUME NEW i \in 1 .. n PROVE Sorted(S)[i] \in S /\ place[Sorted(S)[i]] = i
  <2>1. PICK x \in S : place[x] = i
    BY <1>7
  <2>2. Cardinality(below(x)) = i - 1
    BY <2>1, <1>2
  <2>3. Sorted(S)[i] = CHOOSE z \in S : Cardinality({y \in S : y < z}) = i - 1
    BY DEF Sorted
  <2>4. Sorted(S)[i] \in S /\ Cardinality(below(Sorted(S)[i])) = i - 1
    BY <2>2, <2>3
  <2> QED
    BY <2>4
<1>9. DOMAIN Sorted(S) = 1 .. n /\ Sorted(S) = [i \in 1 .. n |-> Sorted(S)[i]]
  BY DEF Sorted
<1> HIDE DEF n, place
<1>10. Sorted(S) \in [1 .. n -> S]
  BY <1>8, <1>9
<1>11. Sorted(S) \in Seq(S) /\ Len(Sorted(S)) = n
  BY <1>1, <1>10
<1>12. IsInjective(Sorted(S))
  BY <1>8, <1>9 DEF IsInjective
<1>13. ASSUME NEW x \in S PROVE x \in Range(Sorted(S))
  <2>1. place[x] \in 1 .. n
    BY <1>4
  <2>2. Sorted(S)[place[x]] = x
    BY <2>1, <1>6, <1>8
  <2> QED
    BY <2>1, <2>2, <1>9 DEF Range
<1>14. Range(Sorted(S)) \subseteq S
  BY <1>8, <1>9 DEF Range
<1> QED
  BY <1>11, <1>12, <1>13, <1>14 DEF n

(* A table that grows keeps the ids it gave. *)
Grows(table, new) == \A i \in DOMAIN table : i \in DOMAIN new /\ new[i] = table[i]

(* add_symbols: no symbol twice, none lost, and no id given anew. *)
LEMMA SymbolsAdded ==
  ASSUME NEW D, NEW table \in Seq(D), IsInjective(table), NEW symbols \in Seq(D), IsInjective(symbols)
  PROVE  /\ WithSymbols(table, symbols) \in Seq(D) /\ IsInjective(WithSymbols(table, symbols))
         /\ Range(WithSymbols(table, symbols)) = Range(table) \cup Range(symbols)
         /\ Grows(table, WithSymbols(table, symbols))
<1> DEFINE T == {i \in DOMAIN symbols : symbols[i] \notin Range(table)}
           new == Sorted(T)
           added == [k \in DOMAIN new |-> symbols[new[k]]]
           all == WithSymbols(table, symbols)
<1>1. /\ Len(symbols) \in Nat /\ DOMAIN symbols = 1 .. Len(symbols)
      /\ Len(table) \in Nat /\ DOMAIN table = 1 .. Len(table)
  OBVIOUS
<1>2. IsFiniteSet(T) /\ T \subseteq Int
  <2>1. T \in SUBSET (1 .. Len(symbols))
    BY <1>1
  <2>2. IsFiniteSet(1 .. Len(symbols))
    BY <1>1, Positions
  <2>3. T \subseteq Int
    BY <2>1
  <2> HIDE DEF T
  <2> QED
    BY <2>1, <2>2, <2>3, FS_Subset
<1>3. new \in Seq(T) /\ Range(new) = T /\ IsInjective(new)
  <2> HIDE DEF T
  <2> QED
    BY <1>2, SortedElements
<1> DEFINE m == Len(new)
<1>4. m \in Nat /\ DOMAIN new = 1 .. m /\ \A k \in 1 .. m : new[k] \in T
  <2> HIDE DEF T, new
  <2> QED
    BY <1>3, LenProperties, ElementOfSeq
<1>5. \A k \in 1 .. m : new[k] \in DOMAIN symbols /\ symbols[new[k]] \in D
                        /\ symbols[new[k]] \notin Range(table)
  <2> SUFFICES ASSUME NEW k \in 1 .. m
               PROVE  new[k] \in DOMAIN symbols /\ symbols[new[k]] \in D
                      /\ symbols[new[k]] \notin Range(table)
    OBVIOUS
  <2>1. new[k] \in T
    BY <1>4
  <2>2. new[k] \in DOMAIN symbols /\ symbols[new[k]] \notin Range(table)
    BY <2>1
  <2> HIDE DEF new
  <2> QED
    BY <2>2
<1> HIDE DEF new, m
<1>6. added \in [1 .. m -> D]
  BY <1>4, <1>5
<1>7. added \in Seq(D) /\ Len(added) = m /\ \A k \in 1 .. m : added[k] = symbols[new[k]]
  <2>1. \A k \in 1 .. m : added[k] = symbols[new[k]]
    BY <1>4
  <2> HIDE DEF added
  <2> QED
    BY <1>4, <1>6, <2>1
<1>8. all = table \o added
  BY DEF WithSymbols, new
<1> HIDE DEF added, all
<1>9. /\ all \in Seq(D) /\ Len(all) = Len(table) + m /\ DOMAIN all = 1 .. Len(table) + m
      /\ \A i \in 1 .. Len(table) : all[i] = table[i]
      /\ \A k \in 1 .. m : all[Len(table) + k] = added[k]
  <2>1. /\ table \o added \in Seq(D) /\ Len(table \o added) = Len(table) + Len(added)
        /\ \A i \in 1 .. Len(table) + Len(added) :
             (table \o added)[i] = IF i <= Len(table) THEN table[i] ELSE added[i - Len(table)]
    BY <1>7, ConcatProperties
  <2>2. \A i \in 1 .. Len(table) : i \in 1 .. Len(table) + m /\ i <= Len(table)
    BY <1>1, <1>4
  <2>3. \A k \in 1 .. m : /\ Len(table) + k \in 1 .. Len(table) + m
                          /\ ~ (Len(table) + k <= Len(table)) /\ (Len(table) + k) - Len(table) = k
    BY <1>1, <1>4
  <2>4. DOMAIN all = 1 .. Len(table) + m
    BY <2>1, <1>7, <1>8, LenProperties
  <2> QED
    BY <2>1, <2>2, <2>3, <2>4, <1>7, <1>8
<1>10. Grows(table, all)
  BY <1>1, <1>4, <1>9 DEF Grows
<1>11. \A k \in 1 .. m : Len(table) + k \in DOMAIN all /\ all[Len(table) + k] = symbols[new[k]]
  BY <1>1, <1>4, <1>7, <1>9
<1>12. \A i \in DOMAIN all : i \in DOMAIN table \/ \E k \in 1 .. m : i = Len(table) + k
  <2> SUFFICES ASSUME NEW i \in DOMAIN all, i \notin DOMAIN table
               PROVE  \E k \in 1 .. m : i = Len(table) + k
    OBVIOUS
  <2>1. i \in Int /\ i > Len(table) /\ i <= Len(table) + m
    BY <1>1, <1>4, <1>9
  <2>2. i - Len(table) \in 1 .. m /\ i = Len(table) + (i - Len(table))
    BY <2>1, <1>1, <1>4
  <2> QED
    BY <2>2
<1>13. Range(all) = Range(table) \cup Range(symbols)
  <2>1. ASSUME NEW i \in DOMAIN all PROVE all[i] \in Range(table) \cup Range(symbols)
    <3>1. CASE i \in DOMAIN table
      BY <3>1, <1>10 DEF Grows, Range
    <3>2. CASE \E k \in 1 .. m : i = Len(table) + k
      BY <3>2, <1>5, <1>11 DEF Range
    <3> QED
      BY <3>1, <3>2, <1>12
  <2>2. ASSUME NEW i \in DOMAIN table PROVE table[i] \in Range(all)
    BY <1>10 DEF Grows, Range
  <2>3. ASSUME NEW i \in DOMAIN symbols PROVE symbols[i] \in Range(all)
    <3>1. CASE symbols[i] \in Range(table)
      BY <3>1, <2>2 DEF Range
    <3>2. CASE symbols[i] \notin Range(table)
      <4>1. i \in Range(new)
        BY <3>2, <1>3
      <4>2. PICK k \in 1 .. m : new[k] = i
        BY <4>1, <1>4 DEF Range
      <4> QED
        BY <4>2, <1>11 DEF Range
    <3> QED
      BY <3>1, <3>2
  <2> QED
    BY <2>1, <2>2, <2>3 DEF Range
<1>14. ASSUME NEW i \in DOMAIN all, NEW j \in DOMAIN all, all[i] = all[j] PROVE i = j
  <2>1. CASE i \in DOMAIN table /\ j \in DOMAIN table
    BY <2>1, <1>10, <1>14 DEF Grows, IsInjective
  <2>2. ASSUME NEW k \in 1 .. m, NEW l \in 1 .. m, i = Len(table) + k, j = Len(table) + l PROVE i = j
    <3>1. symbols[new[k]] = symbols[new[l]]
      BY <2>2, <1>11, <1>14
    <3>2. new[k] = new[l]
      BY <3>1, <1>5 DEF IsInjective
    <3>3. k = l
      BY <3>2, <1>3, <1>4 DEF IsInjective
    <3> QED
      BY <3>3, <2>2
  <2>3. ASSUME NEW p \in DOMAIN all, NEW q \in DOMAIN all, p \in DOMAIN table, NEW k \in 1 .. m,
               q = Len(table) + k, all[p] = all[q]
        PROVE  FALSE
    <3>1. all[p] \in Range(table)
      BY <2>3, <1>10 DEF Grows, Range
    <3>2. all[q] \notin Range(table)
      BY <2>3, <1>5, <1>11
    <3> QED
      BY <3>1, <3>2, <2>3
  <2> QED
    BY <2>1, <2>2, <2>3, <1>12, <1>14
<1> QED
  BY <1>9, <1>10, <1>13, <1>14 DEF all, IsInjective


(* The symbols of all files. *)
Symbols == UNION {SymbolsOf(f.events) : f \in Files}
Tables == {t \in Seq(Symbols) : IsInjective(t)}

LEMMA FileSymbols ==
  ASSUME files \in [Ranks -> Files], NEW r \in Ranks
  PROVE  files[r].symbols \in Tables /\ Range(files[r].symbols) = SymbolsOf(files[r].events)
<1>1. files[r] \in Files
  OBVIOUS
<1>2. /\ files[r].symbols \in Seq(SymbolsOf(files[r].events))
      /\ Range(files[r].symbols) = SymbolsOf(files[r].events) /\ IsInjective(files[r].symbols)
  BY <1>1, FilesAssumption
<1>3. SymbolsOf(files[r].events) \subseteq Symbols
  BY <1>1 DEF Symbols
<1>4. files[r].symbols \in Seq(Symbols)
  BY <1>2, <1>3, SeqMonotonic
<1> QED
  BY <1>2, <1>4 DEF Tables

(* A loop that adds the lists one by one has a table after every step. *)
Runs(f, T, table, lists, n) ==
  /\ f[0] = table /\ \A k \in Nat : f[k] \in T
  /\ \A k \in Nat : k + 1 \in 1 .. n => f[k + 1] = WithSymbols(f[k], lists[k + 1])

LEMMA LoopRuns ==
  ASSUME NEW T, NEW table \in T, NEW n \in Nat, NEW lists,
         \A t \in T : \A i \in 1 .. n : WithSymbols(t, lists[i]) \in T
  PROVE  \E f : Runs(f, T, table, lists, n)
<1> DEFINE D == Nat \X T
<1>1. PICK base, step :
        /\ base = <<0, table>>
        /\ step = [p \in D |-> <<p[1] + 1, IF p[1] + 1 \in 1 .. n
                                           THEN WithSymbols(p[2], lists[p[1] + 1]) ELSE p[2]>>]
  OBVIOUS
<1>2. ASSUME NEW p \in D PROVE step[p] \in D
  <2>1. p[1] \in Nat /\ p[2] \in T
    OBVIOUS
  <2>2. p[1] + 1 \in Nat
    BY <2>1
  <2>3. p[1] + 1 \in 1 .. n => WithSymbols(p[2], lists[p[1] + 1]) \in T
    BY <2>1
  <2> QED
    BY <2>1, <2>2, <2>3, <1>1
<1>3. base \in D /\ step \in [D -> D]
  BY <1>1, <1>2
<1>4. PICK f \in [Nat -> D] : f[0] = base /\ \A k \in Nat : f[k + 1] = step[f[k]]
  <2> HIDE DEF D
  <2> QED
    BY <1>3, Iterates
<1>5. \A k \in Nat :
        /\ f[k][1] \in Nat /\ f[k][2] \in T /\ f[k + 1][1] = f[k][1] + 1
        /\ f[k][1] + 1 \in 1 .. n => f[k + 1][2] = WithSymbols(f[k][2], lists[f[k][1] + 1])
  <2> SUFFICES ASSUME NEW k \in Nat
               PROVE  /\ f[k][1] \in Nat /\ f[k][2] \in T /\ f[k + 1][1] = f[k][1] + 1
                      /\ f[k][1] + 1 \in 1 .. n =>
                           f[k + 1][2] = WithSymbols(f[k][2], lists[f[k][1] + 1])
    OBVIOUS
  <2>1. PICK p \in D : p = f[k] /\ f[k + 1] = step[p]
    BY <1>4
  <2>2. p[1] \in Nat /\ p[2] \in T
    OBVIOUS
  <2> QED
    BY <2>1, <2>2, <1>1
<1>6. \A k \in Nat : f[k][1] = k
  <2> DEFINE N == {k \in Nat : f[k][1] = k}
  <2>1. 0 \in N
    BY <1>1, <1>4
  <2>2. ASSUME NEW k \in Nat, k \in N PROVE k + 1 \in N
    <3>1. f[k][1] = k
      BY <2>2
    <3>2. f[k + 1][1] = k + 1 /\ k + 1 \in Nat
      BY <3>1, <1>5
    <3> QED
      BY <3>2
  <2>3. Nat \subseteq N
    <3> HIDE DEF N
    <3> QED
      BY <2>1, <2>2, Naturals
  <2> QED
    BY <2>3
<1>7. PICK g : g = [k \in Nat |-> f[k][2]]
  OBVIOUS
<1>8. g \in [Nat -> T] /\ g[0] = table
  BY <1>1, <1>4, <1>5, <1>7
<1>9. ASSUME NEW k \in Nat, k + 1 \in 1 .. n PROVE g[k + 1] = WithSymbols(g[k], lists[k + 1])
  <2>1. g[k] = f[k][2] /\ g[k + 1] = f[k + 1][2]
    BY <1>7
  <2>2. f[k + 1][2] = WithSymbols(f[k][2], lists[k + 1])
    BY <1>5, <1>6, <1>9
  <2> QED
    BY <2>1, <2>2
<1> QED
  BY <1>8, <1>9 DEF Runs

(* The loop over the tables of the files. *)
LoopOver(table, lists, n) ==
  LET after[i \in 0 .. n] == IF i = 0 THEN table ELSE WithSymbols(after[i - 1], lists[i])
  IN after[n]

LEMMA ListsAdded ==
  ASSUME NEW table \in Tables, NEW n \in Nat, NEW lists, \A i \in 1 .. n : lists[i] \in Tables
  PROVE  /\ LoopOver(table, lists, n) \in Tables /\ Grows(table, LoopOver(table, lists, n))
         /\ \A i \in 1 .. n : Range(lists[i]) \subseteq Range(LoopOver(table, lists, n))
<1>5. \A t \in Tables : \A i \in 1 .. n :
        /\ WithSymbols(t, lists[i]) \in Tables /\ Grows(t, WithSymbols(t, lists[i]))
        /\ Range(WithSymbols(t, lists[i])) = Range(t) \cup Range(lists[i])
  <2> SUFFICES ASSUME NEW t \in Tables, NEW i \in 1 .. n
               PROVE  /\ WithSymbols(t, lists[i]) \in Tables /\ Grows(t, WithSymbols(t, lists[i]))
                      /\ Range(WithSymbols(t, lists[i])) = Range(t) \cup Range(lists[i])
    OBVIOUS
  <2>1. /\ t \in Seq(Symbols) /\ IsInjective(t)
        /\ lists[i] \in Seq(Symbols) /\ IsInjective(lists[i])
    BY DEF Tables
  <2> QED
    BY <2>1, SymbolsAdded DEF Tables
<1>6. PICK f :
        /\ f[0] = table /\ \A k \in Nat : f[k] \in Tables
        /\ \A k \in Nat : k + 1 \in 1 .. n => f[k + 1] = WithSymbols(f[k], lists[k + 1])
  <2>1. \A t \in Tables : \A i \in 1 .. n : WithSymbols(t, lists[i]) \in Tables
    BY <1>5
  <2>2. \E f : Runs(f, Tables, table, lists, n)
    BY <2>1, LoopRuns
  <2> QED
    BY <2>2 DEF Runs
<1> DEFINE after == [i \in 0 .. n |-> f[i]]
           body(g) == [i \in 0 .. n |-> IF i = 0 THEN table ELSE WithSymbols(g[i - 1], lists[i])]
<1>10. \A i \in 0 .. n : i # 0 => i - 1 \in Nat /\ i - 1 \in 0 .. n /\ i \in 1 .. n /\ (i - 1) + 1 = i
  OBVIOUS
<1>11. \A i \in 0 .. n : i # 0 => f[i] = WithSymbols(f[i - 1], lists[i])
  <2> SUFFICES ASSUME NEW i \in 0 .. n, i # 0 PROVE f[i] = WithSymbols(f[i - 1], lists[i])
    OBVIOUS
  <2>1. PICK k \in Nat : k = i - 1 /\ k + 1 = i /\ k + 1 \in 1 .. n
    BY <1>10
  <2>2. f[k + 1] = WithSymbols(f[k], lists[k + 1])
    BY <1>6, <2>1
  <2> QED
    BY <2>1, <2>2
<1>12. after = body(after)
  <2>1. \A i \in 0 .. n : f[i] = IF i = 0 THEN table ELSE WithSymbols(f[i - 1], lists[i])
    BY <1>6, <1>11
  <2>2. \A i \in 0 .. n : i # 0 => after[i - 1] = f[i - 1]
    BY <1>10
  <2> QED
    BY <2>1, <2>2
<1>13. ASSUME NEW g, g = body(g) PROVE \A i \in 0 .. n : g[i] = after[i]
  <2> DEFINE N == {k \in Nat : k \in 0 .. n => g[k] = after[k]}
  <2>1. 0 \in N
    BY <1>13, <1>6
  <2>2. ASSUME NEW k \in Nat, k \in N PROVE k + 1 \in N
    <3> SUFFICES ASSUME k + 1 \in 0 .. n PROVE g[k + 1] = after[k + 1]
      OBVIOUS
    <3>1. k \in 0 .. n /\ k + 1 # 0 /\ (k + 1) - 1 = k
      OBVIOUS
    <3>2. g[k + 1] = WithSymbols(g[k], lists[k + 1])
      BY <1>13, <3>1
    <3>3. after[k + 1] = WithSymbols(after[k], lists[k + 1])
      BY <1>11, <3>1
    <3> QED
      BY <3>1, <3>2, <3>3, <2>2
  <2>3. Nat \subseteq N
    <3> HIDE DEF N
    <3> QED
      BY <2>1, <2>2, Naturals
  <2>4. \A i \in 0 .. n : i \in Nat /\ i \in N
    <3>1. \A i \in 0 .. n : i \in Nat
      OBVIOUS
    <3> HIDE DEF N
    <3> QED
      BY <3>1, <2>3
  <2> HIDE DEF after, body
  <2> QED
    BY <2>4
<1>14. LoopOver(table, lists, n) = f[n]
  <2> DEFINE loop == CHOOSE g : g = body(g)
  <2>1. LoopOver(table, lists, n) = loop[n]
    BY DEF LoopOver
  <2> HIDE DEF body, after
  <2>2. loop = body(loop)
    BY <1>12
  <2> HIDE DEF loop
  <2>3. loop[n] = after[n]
    BY <2>2, <1>13
  <2> QED
    BY <2>1, <2>3 DEF after
<1> DEFINE Good(k) == /\ f[k] \in Tables /\ Grows(table, f[k])
                      /\ \A i \in 1 .. k : Range(lists[i]) \subseteq Range(f[k])
           G == {k \in Nat : k \in 0 .. n => Good(k)}
<1>15. 0 \in G
  BY <1>6 DEF Grows
<1>16. ASSUME NEW k \in Nat, k \in G PROVE k + 1 \in G
  <2> SUFFICES ASSUME k + 1 \in 0 .. n PROVE Good(k + 1)
    OBVIOUS
  <2>1. k \in 0 .. n /\ k + 1 \in 1 .. n /\ k + 1 # 0 /\ (k + 1) - 1 = k
    OBVIOUS
  <2>2. Good(k)
    BY <2>1, <1>16
  <2>3. f[k + 1] = WithSymbols(f[k], lists[k + 1])
    BY <2>1, <1>11
  <2>4. /\ f[k + 1] \in Tables /\ Grows(f[k], f[k + 1])
        /\ Range(f[k + 1]) = Range(f[k]) \cup Range(lists[k + 1])
    BY <2>1, <2>2, <2>3, <1>5
  <2>5. \A i \in 1 .. k + 1 : i \in 1 .. k \/ i = k + 1
    OBVIOUS
  <2>6. Grows(table, f[k + 1])
    BY <2>2, <2>4 DEF Grows
  <2> QED
    BY <2>2, <2>4, <2>5, <2>6
<1>17. Nat \subseteq G
  <2> HIDE DEF G
  <2> QED
    BY <1>15, <1>16, Naturals
<1>18. Good(n)
  <2>1. n \in 0 .. n /\ n \in G
    <3>1. n \in 0 .. n
      OBVIOUS
    <3> HIDE DEF G
    <3> QED
      BY <3>1, <1>17
  <2> HIDE DEF Good
  <2> QED
    BY <2>1
<1> HIDE DEF after, body, G
<1> QED
  BY <1>14, <1>18

(* The loop over the results of the pool adds the symbols of every file. *)
LEMMA TablesAdded ==
  ASSUME files \in [Ranks -> Files], NEW ranks \in Seq(Ranks), NEW table \in Tables
  PROVE  /\ WithTables(table, ranks) \in Tables /\ Grows(table, WithTables(table, ranks))
         /\ \A r \in Range(ranks) : Range(files[r].symbols) \subseteq Range(WithTables(table, ranks))
<1>1. PICK n : n = Len(ranks)
  OBVIOUS
<1>2. n \in Nat /\ DOMAIN ranks = 1 .. n /\ \A i \in 1 .. n : ranks[i] \in Ranks
  BY <1>1
<1>3. PICK lists : lists = [i \in 1 .. n |-> files[ranks[i]].symbols]
  OBVIOUS
<1>4. \A i \in 1 .. n : lists[i] \in Tables /\ lists[i] = files[ranks[i]].symbols
  BY <1>2, <1>3, FileSymbols
<1>5. WithTables(table, ranks) = LoopOver(table, lists, n)
  <2>1. ASSUME NEW g
        PROVE  [i \in 0 .. n |-> IF i = 0 THEN table ELSE WithSymbols(g[i - 1], lists[i])]
                 = [i \in 0 .. Len(ranks) |->
                      IF i = 0 THEN table ELSE WithSymbols(g[i - 1], files[ranks[i]].symbols)]
    <3>1. \A i \in 0 .. n : i # 0 => i \in 1 .. n
      BY <1>2
    <3>2. \A i \in 0 .. n : i # 0 => lists[i] = files[ranks[i]].symbols
      BY <3>1, <1>4
    <3> QED
      BY <3>2, <1>1
  <2> QED
    BY <2>1, <1>1 DEF WithTables, LoopOver
<1>6. \A r \in Range(ranks) : \E i \in 1 .. n : r = ranks[i]
  BY <1>2 DEF Range
<1>7. /\ LoopOver(table, lists, n) \in Tables /\ Grows(table, LoopOver(table, lists, n))
      /\ \A i \in 1 .. n : Range(lists[i]) \subseteq Range(LoopOver(table, lists, n))
  BY <1>2, <1>4, ListsAdded
<1> QED
  BY <1>4, <1>5, <1>6, <1>7


-----------------------------------------------------------------------------
(* The rows of a rank *)

(* The row of event e with id for its name, at time ts. *)
RowFor(events, e, id, ts) ==
  [index |-> e.index, ts |-> ts, dur |-> e.dur, stream |-> e.stream,
   correlation |-> e.correlation, name |-> id, cat |-> e.cat,
   index_correlation |-> IndexCorrelation(events, e),
   iteration |-> Iteration(events, e), end |-> e.ts + e.dur]

(* The rows are those of events of rank r, and their ids are ids of table. *)
Sound(r, rows) ==
  \A row \in rows : \E e \in files[r].events, id \in Nat, ts \in Int :
    row = RowFor(files[r].events, e, id, ts)
Named(r, rows, table) ==
  \A row \in rows : \E e \in files[r].events, id \in Nat, ts \in Int :
    /\ row = RowFor(files[r].events, e, id, ts)
    /\ id + 1 \in DOMAIN table /\ table[id + 1] = e.name

LEMMA FileEvents ==
  ASSUME files \in [Ranks -> Files], NEW r \in Ranks
  PROVE  /\ IsFiniteSet(files[r].events)
         /\ \A e \in files[r].events :
              /\ e.index \in Nat /\ e.ts \in Nat /\ e.dur \in Int /\ e.stream \in Int
              /\ e.correlation \in Int /\ e.cat \in STRING
         /\ \A d, e \in files[r].events : d.index = e.index => d = e
<1>1. files[r] \in Files
  OBVIOUS
<1>2. /\ IsFiniteSet(files[r].events)
      /\ files[r].events \subseteq [index : Nat, ts : Nat, dur : Int, stream : Int,
                                    correlation : Int, name : STRING, cat : STRING]
      /\ \A d, e \in files[r].events : d.index = e.index => d = e
  BY <1>1, FilesAssumption
<1> QED
  BY <1>2

LEMMA RowEvent ==
  ASSUME files \in [Ranks -> Files], NEW r \in Ranks, NEW e \in files[r].events, NEW id, NEW ts
  PROVE  Event(r, RowFor(files[r].events, e, id, ts)) = e
<1>1. RowFor(files[r].events, e, id, ts).index = e.index
  BY DEF RowFor
<1>2. \A f, g \in files[r].events : f.index = g.index => f = g
  BY FileEvents
<1> QED
  BY <1>1, <1>2 DEF Event

(* The link of a row with partners is the index of one. *)
LEMMA PartnerIndex ==
  ASSUME NEW E, IsFiniteSet(E), \A f \in E : f.index \in Nat, NEW e, Partners(E, e) # {}
  PROVE  \E p \in Partners(E, e) : IndexCorrelation(E, e) = p.index
<1> DEFINE I == {p.index : p \in Partners(E, e)}
           index == [p \in Partners(E, e) |-> p.index]
<1>1. Partners(E, e) \in SUBSET E
  BY DEF Partners
<1>2. I \subseteq Int /\ I # {}
  BY <1>1
<1>3. IsFiniteSet(Partners(E, e))
  BY <1>1, FS_Subset
<1>4. I = {index[p] : p \in Partners(E, e)}
  OBVIOUS
<1>5. IsFiniteSet(I)
  <2> HIDE DEF I, index
  <2> QED
    BY <1>3, <1>4, Image
<1>6. Max(I) \in I
  <2> HIDE DEF I
  <2> QED
    BY <1>2, <1>5, Greatest
<1>7. IndexCorrelation(E, e) = Max(I)
  BY DEF IndexCorrelation, ColumnMax
<1> QED
  BY <1>6, <1>7

(* The columns of a row have their types. *)
LEMMA RowTyped ==
  ASSUME files \in [Ranks -> Files], NEW r \in Ranks, NEW e \in files[r].events,
         NEW id \in Nat, NEW ts \in Int
  PROVE  RowFor(files[r].events, e, id, ts) \in RowType
<1> DEFINE events == files[r].events
<1>1. PICK E : E = events
  OBVIOUS
<1>2. /\ IsFiniteSet(E) /\ e \in E
      /\ \A f \in E : /\ f.index \in Nat /\ f.ts \in Nat /\ f.dur \in Int /\ f.stream \in Int
                      /\ f.correlation \in Int /\ f.cat \in STRING
  BY <1>1, FileEvents
<1>3. IndexCorrelation(E, e) \in Int
  <2>1. CASE Partners(E, e) # {}
    <3>1. PICK p \in Partners(E, e) : IndexCorrelation(E, e) = p.index
      BY <2>1, <1>2, PartnerIndex
    <3> QED
      BY <3>1, <1>2 DEF Partners
  <2>2. CASE Partners(E, e) = {}
    BY <2>2, <1>2 DEF IndexCorrelation
  <2> QED
    BY <2>1, <2>2
<1>4. ASSUME NEW t PROVE StepAt(E, t) \in Int
  <2> DEFINE steps == {s \in ProfilerSteps(E) : s.ts <= t /\ t < s.ts + s.dur}
  <2>1. StepAt(E, t) = IF steps = {} THEN -1
                       ELSE StepNumber[(CHOOSE s \in steps : \A q \in steps : q.index <= s.index).name]
    BY DEF StepAt
  <2>2. steps \in SUBSET E /\ \A s \in steps : s.name \in StepNames
    BY DEF ProfilerSteps
  <2>3. ASSUME steps # {}
        PROVE  (CHOOSE s \in steps : \A q \in steps : q.index <= s.index) \in steps
    <3> DEFINE I == {s.index : s \in steps}
               index == [s \in steps |-> s.index]
    <3> HIDE DEF steps
    <3>1. IsFiniteSet(steps)
      BY <2>2, <1>2, FS_Subset
    <3>2. I = {index[s] : s \in steps}
      OBVIOUS
    <3>3. I \subseteq Int /\ I # {}
      BY <2>2, <2>3, <1>2
    <3>4. IsFiniteSet(I)
      <4> HIDE DEF I, index
      <4> QED
        BY <3>1, <3>2, Image
    <3>5. Max(I) \in I /\ \A i \in I : i <= Max(I)
      <4> HIDE DEF I
      <4> QED
        BY <3>3, <3>4, Greatest
    <3>6. PICK s \in steps : s.index = Max(I)
      BY <3>5
    <3>7. \A q \in steps : q.index <= s.index
      BY <3>5, <3>6
    <3> QED
      BY <3>7
  <2> HIDE DEF steps
  <2> QED
    BY <2>1, <2>2, <2>3, StepAssumption
<1>5. \A f : IterationByTime(E, f) \in Int \cup {NaN}
  BY <1>4 DEF IterationByTime
<1>6. Iteration(E, e) \in Int \cup {NaN}
  BY <1>5 DEF Iteration
<1>7. e.ts + e.dur \in Int
  BY <1>2
<1>8. RowFor(E, e, id, ts) \in RowType
  <2>1. PICK linked, iteration, end : /\ linked = IndexCorrelation(E, e) /\ linked \in Int
                                      /\ iteration = Iteration(E, e) /\ iteration \in Int \cup {NaN}
                                      /\ end = e.ts + e.dur /\ end \in Int
    BY <1>3, <1>6, <1>7
  <2>2. RowFor(E, e, id, ts) =
          [index |-> e.index, ts |-> ts, dur |-> e.dur, stream |-> e.stream,
           correlation |-> e.correlation, name |-> id, cat |-> e.cat,
           index_correlation |-> linked, iteration |-> iteration, end |-> end]
    BY <2>1 DEF RowFor
  <2> QED
    BY <2>1, <2>2, <1>2 DEF RowType
<1> QED
  BY <1>1, <1>8


LEMMA IdDecodes ==
  ASSUME NEW table \in Tables, NEW s \in Range(table)
  PROVE  /\ IdOf(table, s) \in Nat /\ IdOf(table, s) + 1 \in DOMAIN table
         /\ table[IdOf(table, s) + 1] = s
<1>1. DOMAIN table = 1 .. Len(table) /\ Len(table) \in Nat
  BY DEF Tables
<1>2. PICK i \in DOMAIN table : i = (CHOOSE j \in DOMAIN table : table[j] = s) /\ table[i] = s
  BY DEF Range
<1>3. IdOf(table, s) = i - 1
  BY <1>2 DEF IdOf
<1>4. i - 1 \in Nat /\ (i - 1) + 1 = i
  BY <1>1
<1> QED
  BY <1>2, <1>3, <1>4

LEMMA CodedRows ==
  ASSUME NEW E, NEW table
  PROVE  Coded(ParsedRows(E), table) = {RowFor(E, e, IdOf(table, e.name), e.ts) : e \in E}
<1> DEFINE coded(row) == [row EXCEPT !.name = IdOf(table, row.name)]
<1>1. \A e : coded(ParsedRow(E, e)) = RowFor(E, e, IdOf(table, e.name), e.ts)
  BY DEF RowFor, ParsedRow
<1>2. Coded(ParsedRows(E), table) = {coded(row) : row \in {ParsedRow(E, e) : e \in E}}
  BY DEF Coded, ParsedRows
<1> HIDE DEF coded
<1>3. {coded(row) : row \in {ParsedRow(E, e) : e \in E}} = {coded(ParsedRow(E, e)) : e \in E}
  OBVIOUS
<1> QED
  BY <1>1, <1>2, <1>3

(* A file that is coded with a table of its symbols can be read with it. *)
LEMMA CodedNamed ==
  ASSUME files \in [Ranks -> Files], NEW r \in Ranks, NEW table \in Tables,
         Range(files[r].symbols) \subseteq Range(table)
  PROVE  /\ Named(r, Coded(ParsedRows(files[r].events), table), table)
         /\ \A e \in files[r].events : \E id, ts :
              RowFor(files[r].events, e, id, ts) \in Coded(ParsedRows(files[r].events), table)
<1>1. PICK E : E = files[r].events
  OBVIOUS
<1>2. \A e \in E : e.name \in Range(table) /\ e.ts \in Int
  <2>1. \A e \in E : e.name \in Range(files[r].symbols)
    BY <1>1, FileSymbols DEF SymbolsOf
  <2>2. \A e \in E : e.ts \in Nat
    BY <1>1, FileEvents
  <2> QED
    BY <2>1, <2>2
<1>3. Coded(ParsedRows(E), table) = {RowFor(E, e, IdOf(table, e.name), e.ts) : e \in E}
  BY CodedRows
<1>4. \A e \in E : /\ IdOf(table, e.name) \in Nat /\ IdOf(table, e.name) + 1 \in DOMAIN table
                   /\ table[IdOf(table, e.name) + 1] = e.name
  BY <1>2, IdDecodes
<1> QED
  BY <1>1, <1>2, <1>3, <1>4 DEF Named

(* The second half of parse_multiple_ranks leaves the file coded with the  *)
(* table of the object.                                                    *)
LEMMA RecodedFile ==
  ASSUME files \in [Ranks -> Files], NEW r \in Ranks, traces[r] = ParsedFile(r)
  PROVE  Recoded(r) = Coded(ParsedRows(files[r].events), sym_table)
<1>1. PICK E, symbols : E = files[r].events /\ symbols = files[r].symbols
  OBVIOUS
<1>2. symbols \in Tables /\ \A e \in E : e.name \in Range(symbols)
  BY <1>1, FileSymbols DEF SymbolsOf
<1> DEFINE recoded(row) == [row EXCEPT !.name = IdOf(sym_table, symbols[row.name + 1])]
           own(e) == RowFor(E, e, IdOf(symbols, e.name), e.ts)
<1>3. traces[r] = {own(e) : e \in E}
  BY <1>1, CodedRows DEF ParsedFile
<1>4. ASSUME NEW e \in E PROVE recoded(own(e)) = RowFor(E, e, IdOf(sym_table, e.name), e.ts)
  <2>1. own(e).name = IdOf(symbols, e.name)
    BY DEF RowFor
  <2>2. symbols[own(e).name + 1] = e.name
    <3> HIDE DEF own
    <3> QED
      BY <2>1, <1>2, IdDecodes
  <2>3. \A id : [own(e) EXCEPT !.name = id] = RowFor(E, e, id, e.ts)
    BY DEF RowFor
  <2> QED
    BY <2>2, <2>3
<1>5. Recoded(r) = {recoded(row) : row \in traces[r]}
  BY <1>1 DEF Recoded
<1> HIDE DEF recoded, own
<1>6. {recoded(row) : row \in {own(e) : e \in E}} = {recoded(own(e)) : e \in E}
  OBVIOUS
<1>7. Recoded(r) = {RowFor(E, e, IdOf(sym_table, e.name), e.ts) : e \in E}
  BY <1>3, <1>4, <1>5, <1>6
<1> QED
  BY <1>1, <1>7, CodedRows

LEMMA NamedSound ==
  ASSUME NEW r, NEW rows, NEW table, Named(r, rows, table)
  PROVE  Sound(r, rows)
  BY DEF Named, Sound

LEMMA NamedGrows ==
  ASSUME NEW r, NEW rows, NEW table, NEW new, Named(r, rows, table), Grows(table, new)
  PROVE  Named(r, rows, new)
  BY DEF Named, Grows

LEMMA AlignedRows ==
  ASSUME NEW r, NEW rows, NEW m \in Int
  PROVE  /\ Sound(r, rows) => Sound(r, Aligned(rows, m))
         /\ \A table : Named(r, rows, table) => Named(r, Aligned(rows, m), table)
<1>1. PICK E : E = files[r].events
  OBVIOUS
<1>2. \A e, id : \A ts \in Int :
        [RowFor(E, e, id, ts) EXCEPT !.ts = RowFor(E, e, id, ts).ts - m] = RowFor(E, e, id, ts - m)
  BY DEF RowFor
<1>3. ASSUME Sound(r, rows) PROVE Sound(r, Aligned(rows, m))
  <2> SUFFICES ASSUME NEW row \in rows
               PROVE  \E e \in E, id \in Nat, ts \in Int :
                        [row EXCEPT !.ts = row.ts - m] = RowFor(E, e, id, ts)
    BY <1>1 DEF Sound, Aligned
  <2>1. PICK e \in E, id \in Nat, ts \in Int : row = RowFor(E, e, id, ts)
    BY <1>1, <1>3 DEF Sound
  <2>2. [row EXCEPT !.ts = row.ts - m] = RowFor(E, e, id, ts - m) /\ ts - m \in Int
    BY <2>1, <1>2
  <2> QED
    BY <2>2
<1>4. ASSUME NEW table, Named(r, rows, table) PROVE Named(r, Aligned(rows, m), table)
  <2> SUFFICES ASSUME NEW row \in rows
               PROVE  \E e \in E, id \in Nat, ts \in Int :
                        /\ [row EXCEPT !.ts = row.ts - m] = RowFor(E, e, id, ts)
                        /\ id + 1 \in DOMAIN table /\ table[id + 1] = e.name
    BY <1>1 DEF Named, Aligned
  <2>1. PICK e \in E, id \in Nat, ts \in Int :
          /\ row = RowFor(E, e, id, ts)
          /\ id + 1 \in DOMAIN table /\ table[id + 1] = e.name
    BY <1>1, <1>4 DEF Named
  <2>2. [row EXCEPT !.ts = row.ts - m] = RowFor(E, e, id, ts - m) /\ ts - m \in Int
    BY <2>1, <1>2
  <2> QED
    BY <2>1, <2>2
<1> QED
  BY <1>3, <1>4

LEMMA FewerRows ==
  ASSUME NEW r, NEW rows, NEW some \in SUBSET rows
  PROVE  /\ Sound(r, rows) => Sound(r, some)
         /\ \A table : Named(r, rows, table) => Named(r, some, table)
  BY DEF Sound, Named


-----------------------------------------------------------------------------
(* Kernels and their launches *)

Has(rows, e) == \E row \in rows : row.index = e.index

LEMMA KeptAreCpu ==
  ASSUME NEW rows, NEW include_last
  PROVE  KeptCpuRows(rows, include_last) \subseteq CpuRows(rows)
  BY DEF KeptCpuRows

(* A reader of rows that can be read sees the events, each on its device. *)
LEMMA ReadRows ==
  ASSUME files \in [Ranks -> Files], NEW r \in Ranks, NEW rows, Named(r, rows, sym_table)
  PROVE  /\ \A k \in Read(rows) :
              \E e \in files[r].events :
                 /\ k.index = e.index /\ k.correlation = e.correlation
                 /\ OnGpu(k) <=> OnGpu(e)
                 /\ Has(rows, e)
         /\ \A e \in files[r].events :
              Has(rows, e) =>
                \E k \in Read(rows) : /\ k.index = e.index /\ k.correlation = e.correlation
                                      /\ OnGpu(k) <=> OnGpu(e)
<1>1. PICK E : E = files[r].events
  OBVIOUS
<1> DEFINE real(row) == [row EXCEPT !.name = SymbolAt(row.name)]
<1>2. \A d, e \in E : d.index = e.index => d = e
  BY <1>1, FileEvents
<1>3. Read(rows) = {real(row) : row \in rows}
  BY DEF Read
<1>4. \A row \in rows : /\ \E e \in E : \E ts : real(row) = RowFor(E, e, e.name, ts)
                        /\ real(row).index = row.index
  <2> SUFFICES ASSUME NEW row \in rows
               PROVE  /\ \E e \in E : \E ts : real(row) = RowFor(E, e, e.name, ts)
                      /\ real(row).index = row.index
    OBVIOUS
  <2>1. PICK e \in E, id \in Nat, ts \in Int :
          row = RowFor(E, e, id, ts) /\ id + 1 \in DOMAIN sym_table /\ sym_table[id + 1] = e.name
    BY <1>1 DEF Named
  <2>2. row.name = id /\ row.index = e.index
    BY <2>1 DEF RowFor
  <2>3. SymbolAt(row.name) = e.name
    BY <2>1, <2>2 DEF SymbolAt
  <2>4. real(row) = RowFor(E, e, e.name, ts)
    BY <2>1, <2>3 DEF RowFor
  <2>5. real(row).index = e.index
    BY <2>4 DEF RowFor
  <2> QED
    BY <2>2, <2>4, <2>5
<1>5. \A e \in E : \A ts : LET row == RowFor(E, e, e.name, ts)
                           IN /\ row.index = e.index /\ row.correlation = e.correlation
                              /\ OnGpu(row) <=> OnGpu(e)
  BY DEF RowFor, OnGpu
<1> HIDE DEF real
<1>6. \A k \in Read(rows) : \E e \in E : /\ k.index = e.index /\ k.correlation = e.correlation
                                         /\ OnGpu(k) <=> OnGpu(e)
                                         /\ Has(rows, e)
  BY <1>3, <1>4, <1>5 DEF Has
<1>7. ASSUME NEW e \in E, Has(rows, e)
      PROVE  \E k \in Read(rows) : /\ k.index = e.index /\ k.correlation = e.correlation
                                   /\ OnGpu(k) <=> OnGpu(e)
  <2>1. PICK row \in rows : row.index = e.index
    BY <1>7 DEF Has
  <2>2. PICK d \in E : \E ts : real(row) = RowFor(E, d, d.name, ts)
    BY <1>4
  <2>3. d.index = e.index
    BY <2>1, <2>2, <1>4, <1>5
  <2>4. d = e
    BY <2>3, <1>2
  <2> QED
    BY <2>2, <2>4, <1>3, <1>5
<1> QED
  BY <1>1, <1>6, <1>7

(* What the filter leaves of rows that can be read: some rows of the host, *)
(* and the kernels that one of them launched.                              *)
LEMMA FilterKeeps ==
  ASSUME files \in [Ranks -> Files], NEW r \in Ranks, NEW rows, Named(r, rows, sym_table),
         NEW include_last, CpuRows(Read(rows)) # {}
  PROVE  \E C \in SUBSET CpuRows(files[r].events) :
           /\ \A c \in C : Has(rows, c)
           /\ \A e \in files[r].events :
                Has(FilteredRank(rows, include_last), e) <=>
                  IF OnGpu(e) THEN Has(rows, e) /\ \E c \in C : c.correlation = e.correlation
                              ELSE e \in C
<1>1. PICK E : E = files[r].events
  OBVIOUS
<1> DEFINE cpu == KeptCpuRows(Read(rows), include_last)
           gpu == {g \in GpuRows(Read(rows)) : \E c \in cpu : c.correlation = g.correlation}
           C == {e \in E : \E k \in cpu : k.index = e.index}
           kept == FilteredRank(rows, include_last)
<1>2. \A d, e \in E : d.index = e.index => d = e
  BY <1>1, FileEvents
<1>6. \A k \in Read(rows) : \E e \in E : /\ k.index = e.index /\ k.correlation = e.correlation
                                         /\ OnGpu(k) <=> OnGpu(e)
                                         /\ Has(rows, e)
  BY <1>1, ReadRows
<1>7. \A e \in E : Has(rows, e) =>
        \E k \in Read(rows) : /\ k.index = e.index /\ k.correlation = e.correlation
                              /\ OnGpu(k) <=> OnGpu(e)
  BY <1>1, ReadRows
<1>8. cpu \subseteq Read(rows) /\ \A k \in cpu : ~OnGpu(k)
  <2>1. cpu \subseteq CpuRows(Read(rows))
    BY KeptAreCpu
  <2> HIDE DEF cpu
  <2> QED
    BY <2>1 DEF CpuRows
<1>9. Filtered(Read(rows), include_last) = cpu \cup gpu
  BY DEF Filtered
<1> HIDE DEF cpu
<1>10. \A k \in gpu : k \in Read(rows) /\ OnGpu(k)
  BY DEF GpuRows
<1>11. \A k \in cpu : \E c \in C : k.index = c.index /\ k.correlation = c.correlation
  BY <1>6, <1>8
<1>12. \A c \in C : /\ ~OnGpu(c) /\ Has(rows, c)
                    /\ \E k \in cpu : k.index = c.index /\ k.correlation = c.correlation
  <2> SUFFICES ASSUME NEW c \in E, NEW k \in cpu, k.index = c.index
               PROVE  ~OnGpu(c) /\ Has(rows, c) /\ k.correlation = c.correlation
    OBVIOUS
  <2>1. PICK e \in E : /\ k.index = e.index /\ k.correlation = e.correlation
                       /\ OnGpu(k) <=> OnGpu(e)
                       /\ Has(rows, e)
    BY <1>6, <1>8
  <2>2. e = c
    BY <2>1, <1>2
  <2> QED
    BY <2>1, <2>2, <1>8
<1>13. ASSUME NEW e \in E
       PROVE  Has(kept, e) <=> \E k \in cpu \cup gpu : k.index = e.index
  <2>1. kept = {row \in rows : \E k \in cpu \cup gpu : k.index = row.index}
    BY <1>9 DEF FilteredRank
  <2>2. ASSUME NEW k \in cpu \cup gpu PROVE \E row \in rows : row.index = k.index
    <3>1. k \in Read(rows)
      BY <1>8, <1>10
    <3> QED
      BY <3>1, <1>6 DEF Has
  <2> HIDE DEF kept, gpu
  <2> QED
    BY <2>1, <2>2 DEF Has
<1>14. ASSUME NEW e \in E, ~OnGpu(e) PROVE Has(kept, e) <=> e \in C
  <2>1. ASSUME NEW k \in gpu, k.index = e.index PROVE FALSE
    <3>1. PICK d \in E : k.index = d.index /\ (OnGpu(k) <=> OnGpu(d))
      BY <1>6, <1>10
    <3> QED
      BY <3>1, <2>1, <1>2, <1>10, <1>14
  <2> HIDE DEF kept, gpu
  <2> QED
    BY <2>1, <1>13
<1>15. ASSUME NEW e \in E, OnGpu(e)
       PROVE  Has(kept, e) <=> Has(rows, e) /\ \E c \in C : c.correlation = e.correlation
  <2>1. ASSUME NEW k \in cpu, k.index = e.index PROVE FALSE
    BY <2>1, <1>12, <1>15
  <2>2. ASSUME NEW k \in gpu, k.index = e.index
        PROVE  Has(rows, e) /\ \E c \in C : c.correlation = e.correlation
    <3>1. PICK d \in E : k.index = d.index /\ k.correlation = d.correlation /\ Has(rows, d)
      BY <1>6, <1>10
    <3>2. d = e
      BY <3>1, <2>2, <1>2
    <3>3. PICK c \in cpu : c.correlation = k.correlation
      OBVIOUS
    <3> QED
      BY <3>1, <3>2, <3>3, <1>11
  <2>3. ASSUME Has(rows, e), NEW c \in C, c.correlation = e.correlation
        PROVE  \E k \in gpu : k.index = e.index
    <3>1. PICK k \in Read(rows) : /\ k.index = e.index /\ k.correlation = e.correlation
                                  /\ OnGpu(k) <=> OnGpu(e)
      BY <2>3, <1>7
    <3>2. PICK l \in cpu : l.correlation = c.correlation
      BY <1>12
    <3> QED
      BY <3>1, <3>2, <2>3, <1>15 DEF GpuRows
  <2> HIDE DEF kept, gpu, C
  <2> QED
    BY <2>1, <2>2, <2>3, <1>13
<1>16. C \in SUBSET CpuRows(E)
  BY <1>12 DEF CpuRows
<1> HIDE DEF C, kept, gpu
<1> QED
  BY <1>1, <1>12, <1>14, <1>15, <1>16 DEF kept

(* A kernel and its launch are both there or both not. *)
Linked(r, rows) ==
  \A g \in GpuRows(files[r].events) : \A c \in Partners(files[r].events, g) :
    Has(rows, g) <=> Has(rows, c)

LEMMA FilterKeepsLinks ==
  ASSUME files \in [Ranks -> Files], NEW r \in Ranks, NEW rows, Named(r, rows, sym_table),
         NEW include_last, Linked(r, rows)
  PROVE  Linked(r, FilteredRank(rows, include_last))
<1>1. CASE CpuRows(Read(rows)) = {}
  <2>1. Filtered(Read(rows), include_last) = Read(rows)
    BY <1>1 DEF Filtered
  <2>2. \A row \in rows : \E k \in Read(rows) : k.index = row.index
    <3> SUFFICES ASSUME NEW row \in rows PROVE [row EXCEPT !.name = SymbolAt(row.name)].index = row.index
      BY DEF Read
    <3> QED
      BY DEF Named, RowFor
  <2>3. FilteredRank(rows, include_last) = rows
    BY <2>1, <2>2 DEF FilteredRank
  <2> QED
    BY <2>3
<1>2. CASE CpuRows(Read(rows)) # {}
  <2>1. PICK E : E = files[r].events
    OBVIOUS
  <2>2. PICK C \in SUBSET CpuRows(E) :
          /\ \A c \in C : Has(rows, c)
          /\ \A e \in E : Has(FilteredRank(rows, include_last), e) <=>
                            IF OnGpu(e) THEN Has(rows, e) /\ \E c \in C : c.correlation = e.correlation
                                        ELSE e \in C
    BY <2>1, <1>2, FilterKeeps
  <2>3. /\ \A d, e \in CpuRows(E) : d.correlation = e.correlation => d = e \/ d.correlation < 0
        /\ \A g \in GpuRows(E) : g.correlation >= 0
    <3>1. files[r] \in Files
      OBVIOUS
    <3> QED
      BY <3>1, <2>1, FilesAssumption
  <2>4. \A e \in E : e.correlation \in Int
    BY <2>1, FileEvents
  <2> SUFFICES ASSUME NEW g \in GpuRows(E), NEW c \in Partners(E, g)
               PROVE  Has(FilteredRank(rows, include_last), g) <=> Has(FilteredRank(rows, include_last), c)
    BY <2>1 DEF Linked
  <2>5. /\ g \in E /\ OnGpu(g) /\ c \in E /\ ~OnGpu(c) /\ c \in CpuRows(E)
        /\ c.correlation = g.correlation /\ g.correlation >= 0
    BY <2>3 DEF GpuRows, CpuRows, Partners
  <2>6. \A d \in C : d.correlation = g.correlation => d = c
    BY <2>2, <2>3, <2>4, <2>5
  <2>7. Has(rows, g) <=> Has(rows, c)
    BY <2>1 DEF Linked
  <2> QED
    BY <2>2, <2>5, <2>6, <2>7
<1> QED
  BY <1>1, <1>2

LEMMA AlignKeepsLinks ==
  ASSUME NEW r, NEW rows, Sound(r, rows), NEW m
  PROVE  /\ \A e : Has(Aligned(rows, m), e) <=> Has(rows, e)
         /\ Linked(r, rows) => Linked(r, Aligned(rows, m))
<1>1. \A row \in rows : [row EXCEPT !.ts = row.ts - m].index = row.index
  BY DEF Sound, RowFor
<1>2. \A e : Has(Aligned(rows, m), e) <=> Has(rows, e)
  BY <1>1 DEF Has, Aligned
<1> QED
  BY <1>2 DEF Linked


-----------------------------------------------------------------------------
(* Types: the second invariant *)

(* The attributes that the methods keep in step with the frames. *)
Books ==
  /\ labelled \subseteq DOMAIN traces /\ meta_data = DOMAIN traces
  /\ sym_table \in Tables
  /\ min_ts \in Int /\ is_parsed \in BOOLEAN
  /\ Ranks \ readable \subseteq session.unreadable

(* The call in progress. *)
Calls ==
  ~Idle =>
    /\ call.ranks \in Seq(Ranks) /\ call.todo \in Seq(Ranks)
    /\ Range(call.todo) \subseteq Range(call.ranks) /\ call.parsed \subseteq Range(call.ranks)
    /\ call.at = "loop" => call.todo # << >>
    /\ call.at = "parsed" /\ ~is_parsed => call.ranks = << >>
    /\ session.calls = {"load"} => Range(call.ranks) = Ranks
    /\ session.unreadable = {} => ~call.raised

(* The ranks whose file this call has stored and not yet recoded: their    *)
(* frames are as the parser returned them, and their symbols are known.    *)
Done == IF Idle THEN {}
        ELSE IF call.at = "loop" THEN Range(call.ranks) \ Range(call.todo)
        ELSE IF call.at = "recode" THEN Range(call.ranks) ELSE {}
Own == \A r \in Done : /\ r \in DOMAIN traces /\ traces[r] = ParsedFile(r)
                       /\ Range(files[r].symbols) \subseteq Range(sym_table)

Rows == \A r \in DOMAIN traces : Sound(r, traces[r])

Typed == Books /\ Calls /\ Own /\ Rows

LEMMA InitTyped == Init => Typed
<1> SUFFICES ASSUME Init PROVE Typed
  OBVIOUS
<1>1. DOMAIN traces = {} /\ Idle
  BY DEF Init, Idle, NoCall
<1>2. << >> \in Tables
  <2>1. << >> \in Seq(Symbols)
    OBVIOUS
  <2>2. IsInjective(<< >>)
    BY DEF IsInjective
  <2> QED
    BY <2>1, <2>2 DEF Tables
<1>3. PICK u \in SUBSET session.unreadable : readable = Ranks \ u
  BY DEF Init
<1>4. Books
  <2>1. Ranks \ readable \subseteq session.unreadable
    BY <1>3
  <2>2. labelled = {} /\ meta_data = {} /\ sym_table = << >> /\ is_parsed \in BOOLEAN
    BY Zenon DEF Init
  <2>3. min_ts \in Int
    BY DEF Init
  <2> QED
    BY <1>1, <1>2, <2>1, <2>2, <2>3, Zenon DEF Books
<1>5. Calls /\ Own /\ Rows
  BY <1>1 DEF Calls, Done, Own, Rows
<1> QED
  BY <1>4, <1>5 DEF Typed

LEMMA RowsReplaced ==
  ASSUME Rows, UNCHANGED files,
         \A r \in DOMAIN traces' : \/ r \in DOMAIN traces /\ traces'[r] = traces[r]
                                  \/ Sound(r, traces'[r])
  PROVE  Rows'
<1>1. \A r \in DOMAIN traces' : Sound(r, traces'[r])
  BY DEF Rows
<1> QED
  BY <1>1 DEF Rows, Sound

LEMMA RaiseTyped ==
  ASSUME Typed, Raise, UNCHANGED <<session, files, readable>>
  PROVE  Typed'
<1>1. Idle' /\ UNCHANGED <<session, files, readable, traces, labelled, meta_data, sym_table, min_ts, is_parsed>>
  BY DEF Raise, Idle, NoCall, attrVars, dataVars
<1>2. Rows'
  BY <1>1, RowsReplaced DEF Typed
<1> QED
  BY <1>1, <1>2 DEF Typed, Books, Calls, Done, Own

LEMMA QuietTyped ==
  ASSUME Typed, UNCHANGED <<session, files, attrVars, call>>, readable \subseteq readable'
  PROVE  Typed'
<1>1. UNCHANGED <<session, files, traces, labelled, meta_data, sym_table, min_ts, is_parsed, call>>
  BY DEF attrVars, dataVars
<1>2. Rows'
  BY <1>1, RowsReplaced DEF Typed
<1>3. Books'
  BY <1>1 DEF Typed, Books
<1>4. Calls'
  BY <1>1 DEF Typed, Calls, Idle
<1>5. Own'
  BY <1>1 DEF Typed, Own, Done, Idle, ParsedFile
<1> QED
  BY <1>2, <1>3, <1>4, <1>5 DEF Typed

LEMMA FirstRanksTyped ==
  ASSUME NEW max_ranks \in 0 .. Cardinality(Ranks)
  PROVE  /\ FirstRanks(max_ranks) \in Seq(Ranks)
         /\ max_ranks = Cardinality(Ranks) => Range(FirstRanks(max_ranks)) = Ranks
<1>1. Ranks \subseteq Int /\ IsFiniteSet(Ranks)
  BY CallsAssumption
<1>2. PICK sorted : sorted = Sorted(Ranks)
  OBVIOUS
<1>3. sorted \in Seq(Ranks) /\ Range(sorted) = Ranks /\ Len(sorted) = Cardinality(Ranks)
  BY <1>1, <1>2, SortedElements
<1>4. FirstRanks(max_ranks) = IF max_ranks < Len(sorted) THEN SubSeq(sorted, 1, max_ranks) ELSE sorted
  BY <1>2 DEF FirstRanks
<1>5. Cardinality(Ranks) \in Nat /\ max_ranks \in Nat
  BY <1>3
<1>6. max_ranks < Len(sorted) => SubSeq(sorted, 1, max_ranks) \in Seq(Ranks)
  <2> SUFFICES ASSUME max_ranks < Len(sorted) PROVE SubSeq(sorted, 1, max_ranks) \in Seq(Ranks)
    OBVIOUS
  <2>1. 1 \in 1 .. Len(sorted) + 1 /\ max_ranks \in 1 - 1 .. Len(sorted)
    BY <1>3, <1>5
  <2> QED
    BY <2>1, <1>3, SubSeqProperties
<1> QED
  BY <1>3, <1>4, <1>5, <1>6

LEMMA BeginParseTyped ==
  ASSUME Frames, Typed, Idle, NEW op \in {"parse", "load"}, NEW max_ranks \in 0 .. Cardinality(Ranks),
         NEW mp, NEW include_last, BeginParse(op, max_ranks, mp, include_last),
         session.calls = {"load"} => max_ranks = Cardinality(Ranks),
         UNCHANGED <<session, files, readable>>
  PROVE  Typed'
<1>1. UNCHANGED <<traces, labelled, meta_data, sym_table, min_ts>> /\ is_parsed' \in BOOLEAN
  BY DEF BeginParse, dataVars, Typed, Books
<1>2. PICK ranks : /\ ranks = FirstRanks(max_ranks) /\ ranks \in Seq(Ranks)
                   /\ session.calls = {"load"} => Range(ranks) = Ranks
  BY FirstRanksTyped
<1>3. \/ call' = NoCall
      \/ \E at \in {"parsed", "pool", "loop"} :
           /\ call' = [op |-> op, at |-> at, ranks |-> ranks, todo |-> ranks,
                       parsed |-> {}, raised |-> FALSE, include_last |-> include_last]
           /\ at = "parsed" <=> ranks = << >>
  BY <1>2 DEF BeginParse
<1>4. Calls' /\ Own'
  <2>1. CASE call' = NoCall
    BY <2>1 DEF Calls, Own, Done, Idle, NoCall
  <2>2. ASSUME NEW at \in {"parsed", "pool", "loop"},
               call' = [op |-> op, at |-> at, ranks |-> ranks, todo |-> ranks,
                        parsed |-> {}, raised |-> FALSE, include_last |-> include_last],
               at = "parsed" <=> ranks = << >>
        PROVE  Calls' /\ Own'
    <3>1. /\ call'.at = at /\ call'.ranks = ranks /\ call'.todo = ranks
          /\ call'.parsed = {} /\ call'.raised = FALSE
      BY <2>2
    <3>2. Done' = {}
      BY <3>1, <2>2 DEF Done
    <3> QED
      BY <3>1, <3>2, <2>2, <1>2 DEF Calls, Own
  <2> QED
    BY <2>1, <2>2, <1>3
<1>5. Rows'
  BY <1>1, RowsReplaced DEF Typed
<1>6. Books'
  BY <1>1 DEF Typed, Books
<1> QED
  BY <1>4, <1>5, <1>6 DEF Typed


LEMMA ParseNextTyped ==
  ASSUME Frames, CallSound, Typed, ParseNext
  PROVE  Typed'
<1>1. ~Idle /\ call.at = "loop" /\ UNCHANGED <<session, files, readable>>
  BY DEF ParseNext
<1>2. PICK r : r = Head(call.todo)
  OBVIOUS
<1>3. CASE r \notin readable
  BY <1>1, <1>2, <1>3, RaiseTyped DEF ParseNext
<1>4. CASE r \in readable
  <2>1. /\ traces' = With(traces, r, ParsedFile(r))
        /\ labelled' = labelled \cup {r} /\ meta_data' = meta_data \cup {r}
        /\ sym_table' = WithSymbols(sym_table, files[r].symbols)
        /\ call' = [call EXCEPT !.todo = Tail(call.todo),
                                !.at = IF Len(call.todo) = 1 THEN "recode" ELSE "loop"]
        /\ UNCHANGED <<min_ts, is_parsed>>
    BY <1>2, <1>4 DEF ParseNext
  <2>2. PICK todo : todo = call.todo /\ todo \in Seq(Ranks) /\ todo # << >> /\ Range(todo) \subseteq Range(call.ranks)
    BY <1>1 DEF Typed, Calls
  <2>3. r \in Ranks /\ r \in Range(todo) /\ Tail(todo) \in Seq(Ranks)
        /\ Range(todo) = Range(Tail(todo)) \cup {r} /\ (Len(todo) = 1 <=> Tail(todo) = << >>)
    <3>1. /\ Len(todo) \in Nat \ {0} /\ DOMAIN todo = 1 .. Len(todo) /\ r = todo[1]
          /\ Tail(todo) \in Seq(Ranks) /\ Len(Tail(todo)) = Len(todo) - 1
          /\ \A i \in 1 .. Len(Tail(todo)) : Tail(todo)[i] = todo[i + 1]
      BY <1>2, <2>2, EmptySeq, HeadTailProperties
    <3>2. DOMAIN Tail(todo) = 1 .. Len(todo) - 1
      BY <3>1
    <3>3. \A i \in 1 .. Len(todo) : i = 1 \/ (i - 1 \in 1 .. Len(todo) - 1 /\ (i - 1) + 1 = i)
      BY <3>1
    <3>4. \A i \in 1 .. Len(todo) - 1 : i + 1 \in 1 .. Len(todo)
      BY <3>1
    <3>5. 1 \in 1 .. Len(todo)
      BY <3>1
    <3>6. Range(todo) = Range(Tail(todo)) \cup {r}
      <4>1. ASSUME NEW i \in 1 .. Len(todo) PROVE todo[i] \in Range(Tail(todo)) \cup {r}
        <5>1. CASE i # 1
          <6>1. i - 1 \in DOMAIN Tail(todo) /\ Tail(todo)[i - 1] = todo[i]
            BY <5>1, <3>1, <3>2, <3>3
          <6> QED
            BY <6>1 DEF Range
        <5> QED
          BY <5>1, <3>1
      <4>2. ASSUME NEW i \in DOMAIN Tail(todo) PROVE Tail(todo)[i] \in Range(todo)
        <5>1. i \in 1 .. Len(Tail(todo)) /\ i + 1 \in DOMAIN todo
          BY <3>1, <3>2, <3>4
        <5> QED
          BY <5>1, <3>1 DEF Range
      <4>3. r \in Range(todo)
        BY <3>1, <3>5 DEF Range
      <4>4. Range(todo) \subseteq Range(Tail(todo)) \cup {r}
        BY <4>1, <3>1 DEF Range
      <4>5. Range(Tail(todo)) \subseteq Range(todo)
        BY <4>2 DEF Range
      <4> QED
        BY <4>3, <4>4, <4>5
    <3>7. Len(todo) = 1 <=> Tail(todo) = << >>
      <4>1. Len(Tail(todo)) = 0 <=> Len(todo) = 1
        BY <3>1
      <4>2. PICK tail : tail = Tail(todo) /\ tail \in Seq(Ranks)
        BY <3>1
      <4>3. tail = << >> <=> Len(tail) = 0
        BY <4>2, EmptySeq
      <4> QED
        BY <4>1, <4>2, <4>3
    <3>8. r \in Ranks
      BY <3>1, <3>5, <2>2, ElementOfSeq
    <3> QED
      BY <3>1, <3>6, <3>7, <3>8
  <2>4. DOMAIN traces' = DOMAIN traces \cup {r} /\ traces'[r] = ParsedFile(r)
        /\ \A q \in DOMAIN traces : q # r => traces'[q] = traces[q]
    BY <2>1 DEF With
  <2>5. /\ ~Idle' /\ call'.ranks = call.ranks /\ call'.todo = Tail(todo)
        /\ call'.parsed = call.parsed /\ call'.raised = call.raised
        /\ call'.at = IF Len(todo) = 1 THEN "recode" ELSE "loop"
    BY <1>1, <2>1, <2>2 DEF CallSound, Idle
  <2>6. files[r].symbols \in Tables /\ sym_table \in Tables
    BY <2>3, FileSymbols DEF Frames, Typed, Books
  <2>7. sym_table' \in Tables /\ Range(sym_table') = Range(sym_table) \cup Range(files[r].symbols)
    BY <2>1, <2>6, SymbolsAdded DEF Tables
  <2>8. Books'
    BY <1>1, <2>1, <2>4, <2>7 DEF Typed, Books
  <2>9. Calls'
    <3>1. call'.ranks \in Seq(Ranks) /\ call'.parsed \subseteq Range(call'.ranks)
          /\ (session.calls = {"load"} => Range(call'.ranks) = Ranks)
          /\ (session.unreadable = {} => ~call'.raised)
      BY <1>1, <2>5 DEF Typed, Calls
    <3>2. call'.todo \in Seq(Ranks) /\ Range(call'.todo) \subseteq Range(call'.ranks)
          /\ (call'.at = "loop" => call'.todo # << >>) /\ call'.at # "parsed"
      BY <2>2, <2>3, <2>5
    <3> QED
      BY <3>1, <3>2, <1>1 DEF Calls
  <2>10. Done' \subseteq Done \cup {r}
    <3>1. Done = Range(call.ranks) \ Range(todo)
      BY <1>1, <2>2 DEF Done
    <3>2. CASE Len(todo) = 1
      <4>1. Range(Tail(todo)) = {}
        BY <3>2, <2>3 DEF Range
      <4>2. Done' = Range(call.ranks)
        BY <3>2, <2>5 DEF Done
      <4> QED
        BY <3>1, <4>1, <4>2, <2>3
    <3>3. CASE Len(todo) # 1
      <4>1. Done' = Range(call.ranks) \ Range(Tail(todo))
        BY <3>3, <2>5 DEF Done
      <4> QED
        BY <3>1, <4>1, <2>3
    <3> QED
      BY <3>2, <3>3
  <2>11. Own'
    <3> SUFFICES ASSUME NEW q \in Done'
                 PROVE  q \in DOMAIN traces' /\ traces'[q] = ParsedFile(q)
                        /\ Range(files[q].symbols) \subseteq Range(sym_table')
      BY <1>1 DEF Own, ParsedFile
    <3>1. CASE q = r
      BY <3>1, <2>4, <2>7
    <3>2. CASE q # r
      BY <3>2, <2>4, <2>7, <2>10 DEF Typed, Own
    <3> QED
      BY <3>1, <3>2
  <2>12. Sound(r, traces'[r])
    <3>1. Named(r, Coded(ParsedRows(files[r].events), files[r].symbols), files[r].symbols)
      BY <2>3, <2>6, CodedNamed DEF Frames
    <3> QED
      BY <3>1, <2>4, NamedSound DEF ParsedFile
  <2>13. Rows'
    BY <1>1, <2>4, <2>12, RowsReplaced DEF Typed
  <2> QED
    BY <2>8, <2>9, <2>11, <2>13 DEF Typed
<1> QED
  BY <1>3, <1>4

LEMMA WorkerParseTyped ==
  ASSUME CallSound, Typed, NEW r \in Ranks, WorkerParse(r)
  PROVE  Typed'
<1>1. /\ ~Idle /\ call.at = "pool" /\ r \in Range(call.ranks)
      /\ UNCHANGED <<session, files, readable, traces, labelled, meta_data, sym_table, min_ts, is_parsed>>
      /\ call' = [call EXCEPT !.parsed = call.parsed \cup {r}, !.raised = call.raised \/ r \notin readable]
  BY DEF WorkerParse, attrVars, dataVars
<1>2. /\ ~Idle' /\ call'.at = "pool" /\ call'.ranks = call.ranks /\ call'.todo = call.todo
      /\ call'.parsed = call.parsed \cup {r} /\ call'.raised = (call.raised \/ r \notin readable)
  BY <1>1 DEF CallSound, Idle
<1>3. session.unreadable = {} => r \in readable
  BY DEF Typed, Books
<1>4. Calls'
  BY <1>1, <1>2, <1>3 DEF Typed, Calls
<1>5. Own'
  BY <1>2 DEF Own, Done
<1>6. Rows'
  BY <1>1, RowsReplaced DEF Typed
<1> QED
  BY <1>1, <1>4, <1>5, <1>6 DEF Typed, Books

LEMMA CollectTyped ==
  ASSUME Frames, CallSound, Typed, Collect
  PROVE  Typed'
<1>1. ~Idle /\ call.at = "pool" /\ call.parsed = Range(call.ranks) /\ UNCHANGED <<session, files, readable>>
  BY DEF Collect
<1>2. CASE call.raised
  BY <1>1, <1>2, RaiseTyped DEF Collect
<1>3. CASE ~call.raised
  <2>1. /\ traces' = [r \in DOMAIN traces \cup call.parsed |->
                        IF r \in call.parsed THEN ParsedFile(r) ELSE traces[r]]
        /\ labelled' = labelled \cup call.parsed /\ meta_data' = meta_data \cup call.parsed
        /\ sym_table' = WithTables(sym_table, call.ranks)
        /\ call' = [call EXCEPT !.at = "recode"] /\ UNCHANGED <<min_ts, is_parsed>>
    BY <1>3 DEF Collect
  <2>2. PICK ranks, table : ranks = call.ranks /\ ranks \in Seq(Ranks) /\ table = sym_table /\ table \in Tables
    BY <1>1 DEF Typed, Calls, Books
  <2>3. /\ ~Idle' /\ call'.at = "recode" /\ call'.ranks = call.ranks /\ call'.todo = call.todo
        /\ call'.parsed = call.parsed /\ call'.raised = call.raised
    BY <1>1, <2>1 DEF CallSound, Idle
  <2>4. /\ sym_table' \in Tables
        /\ \A r \in Range(ranks) : Range(files[r].symbols) \subseteq Range(sym_table')
    BY <2>1, <2>2, TablesAdded DEF Frames
  <2>5. call.parsed \subseteq Ranks
    BY <1>1 DEF CallSound
  <2>6. Books'
    BY <1>1, <2>1, <2>4 DEF Typed, Books
  <2>7. Calls'
    BY <1>1, <2>3 DEF Typed, Calls
  <2>8. Own'
    <3>1. Done' = call.parsed
      BY <1>1, <2>3 DEF Done
    <3>2. \A r \in call.parsed : r \in DOMAIN traces' /\ traces'[r] = ParsedFile(r)
      BY <2>1
    <3> QED
      BY <1>1, <2>2, <2>4, <3>1, <3>2 DEF Own, ParsedFile
  <2>9. \A r \in call.parsed : Sound(r, ParsedFile(r))
    <3> SUFFICES ASSUME NEW r \in call.parsed PROVE Sound(r, ParsedFile(r))
      OBVIOUS
    <3>1. r \in Ranks /\ files[r].symbols \in Tables
      BY <2>5, FileSymbols DEF Frames
    <3>2. Named(r, Coded(ParsedRows(files[r].events), files[r].symbols), files[r].symbols)
      BY <3>1, CodedNamed DEF Frames
    <3> QED
      BY <3>2, NamedSound DEF ParsedFile
  <2>10. Rows'
    BY <1>1, <2>1, <2>9, RowsReplaced DEF Typed
  <2> QED
    BY <2>6, <2>7, <2>8, <2>10 DEF Typed
<1> QED
  BY <1>2, <1>3


LEMMA RecodeTyped ==
  ASSUME Frames, CallSound, Typed, Recode
  PROVE  Typed'
<1>1. /\ ~Idle /\ call.at = "recode" /\ is_parsed' = TRUE
      /\ UNCHANGED <<session, files, readable, sym_table, min_ts>>
      /\ call' = IF call.op = "parse" THEN NoCall ELSE [call EXCEPT !.at = "parsed"]
  BY DEF Recode
<1>2. PICK empty :
        /\ traces' = [r \in DOMAIN traces \ empty |->
                        IF r \in Range(call.ranks) THEN Recoded(r) ELSE traces[r]]
        /\ labelled' = labelled \ empty /\ meta_data' = meta_data \ empty
  BY DEF Recode
<1>3. Books'
  BY <1>1, <1>2 DEF Typed, Books
<1>4. Calls' /\ Done' = {}
  <2>1. CASE call.op = "parse"
    <3>1. Idle'
      BY <1>1, <2>1 DEF Idle, NoCall
    <3> QED
      BY <3>1 DEF Calls, Done
  <2>2. CASE call.op # "parse"
    <3>1. /\ ~Idle' /\ call'.at = "parsed" /\ call'.ranks = call.ranks /\ call'.todo = call.todo
          /\ call'.parsed = call.parsed /\ call'.raised = call.raised
      BY <1>1, <2>2 DEF CallSound, Idle
    <3> QED
      BY <1>1, <3>1 DEF Typed, Calls, Done
  <2> QED
    BY <2>1, <2>2
<1>5. \A r \in Range(call.ranks) : r \in DOMAIN traces => Sound(r, Recoded(r))
  <2> SUFFICES ASSUME NEW r \in Range(call.ranks), r \in DOMAIN traces PROVE Sound(r, Recoded(r))
    OBVIOUS
  <2>1. r \in Ranks /\ r \in Done
    BY <1>1 DEF Frames, Done
  <2>2. PICK table : table = sym_table /\ table \in Tables /\ Range(files[r].symbols) \subseteq Range(table)
    BY <2>1 DEF Typed, Books, Own
  <2>3. traces[r] = ParsedFile(r)
    BY <2>1 DEF Typed, Own
  <2>4. Recoded(r) = Coded(ParsedRows(files[r].events), table)
    BY <2>1, <2>2, <2>3, RecodedFile DEF Frames
  <2>5. Named(r, Recoded(r), table)
    BY <2>1, <2>2, <2>4, CodedNamed DEF Frames
  <2> QED
    BY <2>5, NamedSound
<1>6. Rows'
  BY <1>1, <1>2, <1>5, RowsReplaced DEF Typed
<1> QED
  BY <1>3, <1>4, <1>6 DEF Typed, Own

(* What an alignment makes of every frame. *)
LEMMA AlignedFrames ==
  ASSUME Frames, Together, Rows, NEW include_last, AlignAndFilter(include_last)
  PROVE  /\ DOMAIN traces' = DOMAIN traces
         /\ min_ts \in Int => min_ts' \in Int
         /\ \E m \in Int : \A r \in DOMAIN traces :
              traces'[r] = IF Filters THEN FilteredRank(Aligned(traces[r], m), include_last)
                                      ELSE Aligned(traces[r], m)
<1>1. /\ DOMAIN traces' = DOMAIN traces
      /\ min_ts' = IF NonEmpty = {} THEN min_ts ELSE NewMinTs
      /\ \A r \in DOMAIN traces :
           traces'[r] = IF Filters THEN FilteredRank(Aligned(traces[r], NewMinTs), include_last)
                                   ELSE Aligned(traces[r], NewMinTs)
  BY DEF AlignAndFilter
<1>2. CASE NonEmpty = {}
  <2>1. \A r \in DOMAIN traces : traces[r] = {}
    BY <1>2 DEF NonEmpty
  <2>2. \A r \in DOMAIN traces : \A m : Aligned(traces[r], m) = {}
    BY <2>1 DEF Aligned
  <2>3. FilteredRank({}, include_last) = {}
    BY DEF FilteredRank
  <2>4. \A r \in DOMAIN traces :
          traces'[r] = IF Filters THEN FilteredRank(Aligned(traces[r], 0), include_last)
                                  ELSE Aligned(traces[r], 0)
    BY <1>1, <2>2, <2>3
  <2> QED
    BY <1>1, <1>2, <2>4
<1>3. CASE NonEmpty # {}
  <2>1. \A r \in DOMAIN traces : \A row \in traces[r] : row.ts \in Nat
    BY DEF Together, Shifted
  <2>2. NewMinTs \in Nat
    BY <1>3, <2>1, EarliestOffset
  <2> QED
    BY <1>1, <1>3, <2>2
<1> QED
  BY <1>2, <1>3

LEMMA AlignTyped ==
  ASSUME Frames, Together, Typed, NEW include_last, AlignAndFilter(include_last),
         UNCHANGED <<session, files, readable, meta_data, sym_table>>
  PROVE  /\ Rows' /\ DOMAIN traces' = DOMAIN traces
         /\ labelled' \subseteq DOMAIN traces /\ is_parsed' \in BOOLEAN => Books'
<1>1. DOMAIN traces' = DOMAIN traces /\ min_ts' \in Int
  BY AlignedFrames DEF Typed, Books
<1>2. PICK m \in Int : \A r \in DOMAIN traces :
        traces'[r] = IF Filters THEN FilteredRank(Aligned(traces[r], m), include_last)
                                ELSE Aligned(traces[r], m)
  BY AlignedFrames DEF Typed
<1>3. ASSUME NEW r \in DOMAIN traces PROVE Sound(r, traces'[r])
  <2>1. Sound(r, Aligned(traces[r], m))
    BY AlignedRows DEF Typed, Rows
  <2>2. traces'[r] \in SUBSET Aligned(traces[r], m)
    BY <1>2 DEF FilteredRank
  <2> QED
    BY <2>1, <2>2, FewerRows
<1>4. Rows'
  BY <1>1, <1>3, RowsReplaced DEF Typed
<1>5. ASSUME labelled' \subseteq DOMAIN traces, is_parsed' \in BOOLEAN PROVE Books'
  BY <1>1, <1>5 DEF Typed, Books
<1> QED
  BY <1>1, <1>4, <1>5

LEMMA AlignStepTyped ==
  ASSUME Frames, Together, Typed, Align
  PROVE  Typed'
<1>1. /\ Idle /\ UNCHANGED <<session, files, readable, meta_data, sym_table, is_parsed, call>>
      /\ labelled' \subseteq labelled
  BY DEF Align
<1>2. PICK include_last \in IncludeLast : AlignAndFilter(include_last)
  BY DEF Align
<1>3. Rows' /\ Books'
  BY <1>1, <1>2, AlignTyped DEF Typed, Books
<1>4. Idle'
  BY <1>1 DEF Idle
<1> QED
  BY <1>3, <1>4 DEF Typed, Calls, Own, Done

LEMMA FinishLoadTyped ==
  ASSUME Frames, Together, Typed, FinishLoad
  PROVE  Typed'
<1>1. /\ UNCHANGED <<session, files, readable, meta_data, sym_table>>
      /\ labelled' = DOMAIN traces /\ is_parsed' = TRUE /\ call' = NoCall
      /\ AlignAndFilter(call.include_last)
  BY DEF FinishLoad
<1>2. PICK include_last : AlignAndFilter(include_last)
  BY <1>1
<1>3. Rows' /\ Books'
  BY <1>1, <1>2, AlignTyped
<1>4. Idle'
  BY <1>1 DEF Idle, NoCall
<1> QED
  BY <1>3, <1>4 DEF Typed, Calls, Own, Done

LEMMA ParseSingleRankTyped ==
  ASSUME Frames, Typed, NEW r \in Ranks, ParseSingleRank(r)
  PROVE  Typed'
<1>1. Idle /\ UNCHANGED <<session, files, readable, min_ts, is_parsed, call>>
  BY DEF ParseSingleRank
<1>2. Calls' /\ Own'
  BY <1>1 DEF Calls, Own, Done, Idle
<1>3. CASE r \notin readable
  <2>1. UNCHANGED <<traces, labelled, meta_data, sym_table>>
    BY <1>3 DEF ParseSingleRank, dataVars
  <2>2. Rows'
    BY <1>1, <2>1, RowsReplaced DEF Typed
  <2> QED
    BY <1>1, <1>2, <2>1, <2>2 DEF Typed, Books
<1>4. CASE r \in readable /\ files[r].events = {}
  <2>1. /\ traces' = [x \in DOMAIN traces \ {r} |-> traces[x]]
        /\ labelled' = labelled \ {r} /\ meta_data' = meta_data \ {r} /\ UNCHANGED sym_table
    BY <1>4 DEF ParseSingleRank
  <2>2. Rows'
    BY <1>1, <2>1, RowsReplaced DEF Typed
  <2> QED
    BY <1>1, <1>2, <2>1, <2>2 DEF Typed, Books
<1>5. CASE r \in readable /\ files[r].events # {}
  <2>1. PICK table :
          /\ table = sym_table' /\ table = WithSymbols(sym_table, files[r].symbols)
          /\ traces' = With(traces, r, Coded(ParsedRows(files[r].events), table))
          /\ labelled' = labelled \cup {r} /\ meta_data' = meta_data \cup {r}
    BY <1>5 DEF ParseSingleRank
  <2>2. files[r].symbols \in Tables /\ sym_table \in Tables
    BY FileSymbols DEF Frames, Typed, Books
  <2>3. table \in Tables /\ Range(files[r].symbols) \subseteq Range(table)
    BY <2>1, <2>2, SymbolsAdded DEF Tables
  <2>4. Named(r, Coded(ParsedRows(files[r].events), table), table)
    BY <2>3, CodedNamed DEF Frames
  <2>5. Sound(r, Coded(ParsedRows(files[r].events), table))
    BY <2>4, NamedSound
  <2>6. DOMAIN traces' = DOMAIN traces \cup {r}
        /\ \A q \in DOMAIN traces' : \/ q \in DOMAIN traces /\ traces'[q] = traces[q]
                                    \/ Sound(q, traces'[q])
    BY <2>1, <2>5 DEF With
  <2>7. Rows'
    BY <1>1, <2>6, RowsReplaced DEF Typed
  <2>8. Books'
    BY <1>1, <2>1, <2>3, <2>6 DEF Typed, Books
  <2> QED
    BY <1>2, <2>7, <2>8 DEF Typed
<1> QED
  BY <1>3, <1>4, <1>5

LEMMA NextTyped == IInv /\ Typed /\ [Next]_vars => Typed'
<1> SUFFICES ASSUME IInv, Typed, [Next]_vars PROVE Typed'
  OBVIOUS
<1>1. Frames /\ CallSound /\ Together
  BY DEF IInv
<1>2. CASE ParseTraces
  <2>1. Idle /\ "parse" \in session.calls /\ UNCHANGED <<session, files, readable>>
    BY <1>2 DEF ParseTraces
  <2>2. PICK max_ranks \in 0 .. Cardinality(Ranks), mp \in session.mp :
          BeginParse("parse", max_ranks, mp, FALSE)
    BY <1>2 DEF ParseTraces
  <2>3. session.calls # {"load"} /\ "parse" \in {"parse", "load"}
    BY <2>1
  <2> QED
    BY <1>1, <2>1, <2>2, <2>3, BeginParseTyped
<1>3. CASE LoadTraces
  <2>1. CASE is_parsed
    <3>1. UNCHANGED <<session, files, attrVars, call>> /\ readable \subseteq readable'
      BY <1>3, <2>1 DEF LoadTraces
    <3> QED
      BY <3>1, QuietTyped
  <2>2. CASE ~is_parsed
    <3>1. Idle /\ UNCHANGED <<session, files, readable>>
      BY <1>3 DEF LoadTraces
    <3>2. PICK mp \in session.mp, include_last \in IncludeLast :
            BeginParse("load", Cardinality(Ranks), mp, include_last)
      BY <1>3, <2>2 DEF LoadTraces
    <3>3. "load" \in {"parse", "load"}
      OBVIOUS
    <3>4. Cardinality(Ranks) \in 0 .. Cardinality(Ranks)
      <4>1. IsFiniteSet(Ranks)
        BY CallsAssumption
      <4>2. Cardinality(Ranks) \in Nat
        BY <4>1, FS_CardinalityType
      <4> QED
        BY <4>2
    <3> QED
      BY <1>1, <3>1, <3>2, <3>3, <3>4, BeginParseTyped
  <2> QED
    BY <2>1, <2>2
<1>4. CASE ParseNext
  BY <1>1, <1>4, ParseNextTyped
<1>5. CASE Collect
  BY <1>1, <1>5, CollectTyped
<1>6. CASE Recode
  BY <1>1, <1>6, RecodeTyped
<1>7. CASE Align
  BY <1>1, <1>7, AlignStepTyped
<1>8. CASE FinishLoad
  BY <1>1, <1>8, FinishLoadTyped
<1>9. ASSUME NEW r \in Ranks, WorkerParse(r) PROVE Typed'
  BY <1>1, <1>9, WorkerParseTyped
<1>10. ASSUME NEW r \in Ranks, ParseSingleRank(r) PROVE Typed'
  BY <1>1, <1>10, ParseSingleRankTyped
<1>11. ASSUME NEW r \in Ranks, Repair(r) PROVE Typed'
  <2>1. UNCHANGED <<session, files, attrVars, call>> /\ readable \subseteq readable'
    BY <1>11 DEF Repair
  <2> QED
    BY <2>1, QuietTyped
<1>12. CASE UNCHANGED vars
  BY <1>12, QuietTyped DEF vars
<1> QED
  BY <1>2, <1>3, <1>4, <1>5, <1>6, <1>7, <1>8, <1>9, <1>10, <1>11, <1>12 DEF Next

LEMMA AlwaysTyped == Spec => []Typed
  BY Inductive, InitTyped, NextTyped, PTL DEF Spec

(* For all files, ranks and sessions every variable has its type, whatever *)
(* is called: a rank has metadata, and row labels, only if it has a data   *)
(* frame; no symbol gets two ids; and the columns that were computed, the  *)
(* links and the iterations among them, have a value in every row.         *)
THEOREM TypeCorrect == Spec => []TypeOK
<1>1. IInv /\ Typed => TypeOK
  <2> SUFFICES ASSUME IInv, Typed PROVE TypeOK
    OBVIOUS
  <2>1. /\ session \in Sessions /\ files \in [Ranks -> Files]
        /\ readable \subseteq Ranks /\ DOMAIN traces \subseteq Ranks
    BY DEF IInv, Frames
  <2>2. ASSUME NEW r \in DOMAIN traces, NEW row \in traces[r] PROVE row \in RowType
    <3>1. PICK e \in files[r].events, id \in Nat, ts \in Int : row = RowFor(files[r].events, e, id, ts)
      BY DEF Typed, Rows, Sound
    <3> QED
      BY <2>1, <3>1, RowTyped
  <2>3. sym_table \in Seq(UNION {SymbolsOf(f.events) : f \in Files}) /\ IsInjective(sym_table)
    BY DEF Typed, Books, Tables, Symbols
  <2>4. ~Idle => /\ call.op \in {"parse", "load"}
                 /\ call.at \in {"pool", "loop", "recode", "parsed"}
                 /\ call.parsed \subseteq Range(call.ranks)
    BY DEF IInv, CallSound, Typed, Calls
  <2> QED
    BY <2>1, <2>2, <2>3, <2>4 DEF Typed, Books, TypeOK
<1> QED
  BY <1>1, Inductive, AlwaysTyped, PTL


-----------------------------------------------------------------------------
(* Where load_traces alone is called: the third invariant *)

Complete == DOMAIN traces = {r \in Ranks : files[r].events # {}}

Coding(r) == Coded(ParsedRows(files[r].events), sym_table)
Known(r) == Range(files[r].symbols) \subseteq Range(sym_table)

(* The frame of r as load_traces returns it. *)
Finished(r) ==
  \E include_last : \E m \in Int :
    traces[r] = IF Filters THEN FilteredRank(Aligned(Coding(r), m), include_last)
                           ELSE Aligned(Coding(r), m)

(* Before the alignment every rank that has events is there, whole and     *)
(* with the ids of the one table; afterwards it is aligned and filtered.   *)
Loading ==
  session.calls = {"load"} =>
    /\ ~Idle /\ call.at = "parsed" =>
         Complete /\ \A r \in DOMAIN traces : traces[r] = Coding(r) /\ Known(r)
    /\ Parsed =>
         Complete /\ labelled = DOMAIN traces /\ \A r \in DOMAIN traces : Finished(r) /\ Known(r)

LEMMA InitLoading == Init => Loading
  BY DEF Init, Loading, Parsed, Idle, NoCall

(* A step that ends at no frame load_traces speaks of. *)
LEMMA NotLoading ==
  ASSUME ~Parsed', Idle' \/ call'.at # "parsed"
  PROVE  Loading'
  BY DEF Loading

(* Nothing changes but the files that can be read. *)
LEMMA QuietLoading ==
  ASSUME Loading, UNCHANGED <<session, files, attrVars, call>>
  PROVE  Loading'
<1>1. UNCHANGED <<session, files, traces, labelled, sym_table, is_parsed, call>>
  BY DEF attrVars, dataVars
<1>2. /\ Complete' = Complete /\ Parsed' = Parsed /\ Idle' = Idle
      /\ \A r : Coding(r)' = Coding(r) /\ Known(r)' = Known(r) /\ Finished(r)' = Finished(r)
  BY <1>1 DEF Complete, Parsed, Idle, Coding, Known, Finished, Filters, FilteredRank, Read, SymbolAt
<1> QED
  BY <1>1, <1>2 DEF Loading

LEMMA ParsingLoading ==
  ASSUME IInv, ~Idle, call.at # "parsed", is_parsed' = is_parsed, session' = session,
         Idle' \/ call'.at # "parsed"
  PROVE  Loading'
<1>1. CASE session.calls # {"load"}
  BY <1>1 DEF Loading
<1>2. CASE session.calls = {"load"}
  <2>1. ~is_parsed
    BY <1>2 DEF IInv, LoadsOnly
  <2> QED
    BY <2>1, NotLoading DEF Parsed
<1> QED
  BY <1>1, <1>2

LEMMA RecodeLoading ==
  ASSUME IInv, Typed, Recode
  PROVE  Loading'
<1>1. /\ ~Idle /\ call.at = "recode" /\ UNCHANGED <<session, files, sym_table>>
      /\ call' = IF call.op = "parse" THEN NoCall ELSE [call EXCEPT !.at = "parsed"]
  BY DEF Recode
<1> DEFINE empty == {r \in Range(call.ranks) : traces[r] = {}}
<1>2. traces' = [r \in DOMAIN traces \ empty |->
                   IF r \in Range(call.ranks) THEN Recoded(r) ELSE traces[r]]
  BY DEF Recode
<1>3. SUFFICES ASSUME session.calls = {"load"} PROVE Loading'
  BY <1>1 DEF Loading
<1>4. ~Idle'
  <2>1. call.op = "load"
    BY <1>1, <1>3 DEF IInv, LoadsOnly
  <2>2. call'.op = "load"
    BY <1>1, <2>1 DEF IInv, CallSound
  <2> QED
    BY <2>2 DEF Idle
<1>5. Range(call.ranks) = Ranks /\ DOMAIN traces \subseteq Ranks /\ Done = Ranks
  BY <1>1, <1>3 DEF Typed, Calls, IInv, Frames, Done
<1>6. \A r \in Ranks : r \in DOMAIN traces /\ traces[r] = ParsedFile(r) /\ Known(r)
  BY <1>5 DEF Typed, Own, Known
<1>7. \A r \in Ranks : traces[r] = {} <=> files[r].events = {}
  <2> SUFFICES ASSUME NEW r \in Ranks PROVE traces[r] = {} <=> files[r].events = {}
    OBVIOUS
  <2>1. PICK E, table : E = files[r].events /\ table = files[r].symbols
    OBVIOUS
  <2>2. traces[r] = {RowFor(E, e, IdOf(table, e.name), e.ts) : e \in E}
    BY <1>6, <2>1, CodedRows DEF ParsedFile
  <2> QED
    BY <2>1, <2>2
<1>8. DOMAIN traces' = {r \in Ranks : files[r].events # {}}
  BY <1>2, <1>5, <1>6, <1>7
<1>9. \A r \in DOMAIN traces' : traces'[r] = Coding(r) /\ Known(r)
  <2> SUFFICES ASSUME NEW r \in DOMAIN traces' PROVE traces'[r] = Coding(r) /\ Known(r)
    OBVIOUS
  <2>1. r \in Ranks
    BY <1>8
  <2>2. traces'[r] = Recoded(r)
    BY <1>2, <1>5, <2>1
  <2>3. Recoded(r) = Coding(r)
    BY <1>6, <2>1, RecodedFile DEF IInv, Frames, Coding
  <2> QED
    BY <1>6, <2>1, <2>2, <2>3
<1> QED
  BY <1>1, <1>4, <1>8, <1>9 DEF Loading, Complete, Coding, Known, Parsed

LEMMA FinishLoadLoading ==
  ASSUME IInv, Typed, Loading, FinishLoad
  PROVE  Loading'
<1>1. /\ ~Idle /\ call.at = "parsed" /\ call' = NoCall /\ labelled' = DOMAIN traces
      /\ AlignAndFilter(call.include_last)
      /\ UNCHANGED <<session, files, sym_table>>
  BY DEF FinishLoad
<1>2. PICK include_last : AlignAndFilter(include_last)
  BY <1>1
<1>3. DOMAIN traces' = DOMAIN traces
  BY <1>2, AlignedFrames DEF IInv, Typed
<1>4. PICK m \in Int : \A r \in DOMAIN traces :
        traces'[r] = IF Filters THEN FilteredRank(Aligned(traces[r], m), include_last)
                                ELSE Aligned(traces[r], m)
  BY <1>2, AlignedFrames DEF IInv, Typed
<1>5. SUFFICES ASSUME session.calls = {"load"} PROVE Loading'
  BY <1>1 DEF Loading
<1>6. Complete /\ \A r \in DOMAIN traces : traces[r] = Coding(r) /\ Known(r)
  BY <1>1, <1>5 DEF Loading
<1>7. Complete'
  BY <1>1, <1>3, <1>6 DEF Complete
<1>8. ASSUME NEW r \in DOMAIN traces PROVE Finished(r)' /\ Known(r)'
  <2>1. Coding(r)' = Coding(r) /\ Known(r)' = Known(r) /\ Filters' = Filters
    BY <1>1 DEF Coding, Known, Filters
  <2>2. \A rows : FilteredRank(rows, include_last)' = FilteredRank(rows, include_last)
    BY <1>1 DEF FilteredRank, Read, SymbolAt
  <2>3. traces'[r] = IF Filters THEN FilteredRank(Aligned(Coding(r), m), include_last)
                                ELSE Aligned(Coding(r), m)
    BY <1>4, <1>6
  <2>4. Finished(r)'
    BY <2>1, <2>2, <2>3 DEF Finished
  <2> QED
    BY <1>6, <2>1, <2>4
<1>9. Idle'
  BY <1>1 DEF Idle, NoCall
<1> QED
  BY <1>1, <1>3, <1>7, <1>8, <1>9 DEF Loading

LEMMA NextLoading == IInv /\ Typed /\ Loading /\ [Next]_vars => Loading'
<1> SUFFICES ASSUME IInv, Typed, Loading, [Next]_vars PROVE Loading'
  OBVIOUS
<1>1. CASE ParseTraces
  BY <1>1 DEF ParseTraces, Loading
<1>2. CASE LoadTraces
  <2>1. CASE is_parsed
    BY <1>2, <2>1, QuietLoading DEF LoadTraces
  <2>2. CASE ~is_parsed
    <3>1. Idle /\ UNCHANGED <<session, files>>
      BY <1>2 DEF LoadTraces
    <3>2. PICK mp \in session.mp, include_last \in IncludeLast :
            BeginParse("load", Cardinality(Ranks), mp, include_last)
      BY <1>2, <2>2 DEF LoadTraces
    <3>3. ~is_parsed' /\ traces' = traces
      BY <2>2, <3>2 DEF BeginParse, dataVars
    <3>4. PICK ranks : /\ ranks = FirstRanks(Cardinality(Ranks))
                       /\ Range(ranks) = Ranks
      <4>1. IsFiniteSet(Ranks)
        BY CallsAssumption
      <4>2. Cardinality(Ranks) \in Nat
        BY <4>1, FS_CardinalityType
      <4>3. Cardinality(Ranks) \in 0 .. Cardinality(Ranks)
        BY <4>2
      <4> QED
        BY <4>3, FirstRanksTyped
    <3>5. call'.at = "parsed" => ranks = << >>
      BY <3>2, <3>4 DEF BeginParse
    <3>6. CASE Ranks = {}
      <4>1. DOMAIN traces' = {}
        BY <3>3, <3>6 DEF IInv, Frames
      <4> QED
        BY <3>3, <3>6, <4>1 DEF Loading, Parsed, Complete
    <3>7. CASE Ranks # {}
      <4>1. ranks # << >>
        BY <3>4, <3>7 DEF Range
      <4> QED
        BY <3>3, <3>5, <4>1, NotLoading DEF Parsed
    <3> QED
      BY <3>6, <3>7
  <2> QED
    BY <2>1, <2>2
<1>3. CASE ParseNext
  <2>1. ~Idle /\ call.at = "loop" /\ session' = session
    BY <1>3 DEF ParseNext
  <2>2. is_parsed' = is_parsed /\ (Idle' \/ call'.at # "parsed")
    <3>1. CASE Raise
      BY <3>1 DEF Raise, Idle, NoCall, attrVars
    <3>2. CASE ~Raise
      <4>1. /\ is_parsed' = is_parsed
            /\ call' = [call EXCEPT !.todo = Tail(call.todo),
                                    !.at = IF Len(call.todo) = 1 THEN "recode" ELSE "loop"]
        BY <1>3, <3>2 DEF ParseNext
      <4> QED
        BY <4>1, <2>1 DEF IInv, CallSound
    <3> QED
      BY <3>1, <3>2
  <2> QED
    BY <2>1, <2>2, ParsingLoading
<1>4. CASE Collect
  <2>1. ~Idle /\ call.at = "pool" /\ session' = session
    BY <1>4 DEF Collect
  <2>2. is_parsed' = is_parsed /\ (Idle' \/ call'.at # "parsed")
    <3>1. CASE Raise
      BY <3>1 DEF Raise, Idle, NoCall, attrVars
    <3>2. CASE ~Raise
      <4>1. is_parsed' = is_parsed /\ call' = [call EXCEPT !.at = "recode"]
        BY <1>4, <3>2 DEF Collect
      <4> QED
        BY <4>1, <2>1 DEF IInv, CallSound
    <3> QED
      BY <3>1, <3>2
  <2> QED
    BY <2>1, <2>2, ParsingLoading
<1>5. CASE Recode
  BY <1>5, RecodeLoading
<1>6. CASE Align
  BY <1>6 DEF Align, Loading
<1>7. CASE FinishLoad
  BY <1>7, FinishLoadLoading
<1>8. ASSUME NEW r \in Ranks, WorkerParse(r) PROVE Loading'
  <2>1. /\ ~Idle /\ call.at = "pool" /\ session' = session /\ is_parsed' = is_parsed
        /\ call' = [call EXCEPT !.parsed = call.parsed \cup {r}, !.raised = call.raised \/ r \notin readable]
    BY <1>8 DEF WorkerParse, attrVars
  <2>2. call'.at # "parsed"
    BY <2>1 DEF IInv, CallSound
  <2> QED
    BY <2>1, <2>2, ParsingLoading
<1>9. ASSUME NEW r \in Ranks, ParseSingleRank(r) PROVE Loading'
  BY <1>9 DEF ParseSingleRank, Loading
<1>10. ASSUME NEW r \in Ranks, Repair(r) PROVE Loading'
  BY <1>10, QuietLoading DEF Repair
<1>11. CASE UNCHANGED vars
  BY <1>11, QuietLoading DEF vars
<1> QED
  BY <1>1, <1>2, <1>3, <1>4, <1>5, <1>6, <1>7, <1>8, <1>9, <1>10, <1>11 DEF Next

LEMMA AlwaysLoading == Spec => []Loading
  BY Inductive, AlwaysTyped, InitLoading, NextLoading, PTL DEF Spec

(* For all files and ranks: when load_traces alone is called and says that *)
(* the traces are loaded, every rank that has events is there and no other *)
(* rank, however many attempts failed before, in the loop or in the pool.  *)
THEOREM AlwaysRanksLoaded == Spec => []RanksLoaded
<1>1. Typed /\ Loading => RanksLoaded
  BY DEF Typed, Books, Loading, Complete, RanksLoaded, Loaded
<1> QED
  BY <1>1, AlwaysTyped, AlwaysLoading, PTL


(* A file that is coded and moved, whole, can be read event by event. *)
LEMMA WholeFile ==
  ASSUME files \in [Ranks -> Files], NEW r \in Ranks, sym_table \in Tables, Known(r), NEW m \in Int
  PROVE  /\ Named(r, Aligned(Coding(r), m), sym_table)
         /\ \A e \in files[r].events : Has(Aligned(Coding(r), m), e)
<1>1. PICK table, E : table = sym_table /\ table \in Tables /\ E = files[r].events
  OBVIOUS
<1>2. Range(files[r].symbols) \subseteq Range(table) /\ Coding(r) = Coded(ParsedRows(E), table)
  BY <1>1 DEF Known, Coding
<1>3. /\ Named(r, Coded(ParsedRows(E), table), table)
      /\ \A e \in E : \E id, ts : RowFor(E, e, id, ts) \in Coded(ParsedRows(E), table)
  BY <1>1, <1>2, CodedNamed
<1>4. \A e \in E : Has(Coding(r), e)
  <2> SUFFICES ASSUME NEW e \in E PROVE Has(Coding(r), e)
    OBVIOUS
  <2>1. PICK id, ts : RowFor(E, e, id, ts) \in Coding(r)
    BY <1>2, <1>3
  <2>2. RowFor(E, e, id, ts).index = e.index
    BY DEF RowFor
  <2> QED
    BY <2>1, <2>2 DEF Has
<1>5. Sound(r, Coding(r))
  BY <1>2, <1>3, NamedSound
<1>6. \A e \in E : Has(Aligned(Coding(r), m), e)
  BY <1>4, <1>5, AlignKeepsLinks
<1>7. Named(r, Aligned(Coding(r), m), table)
  BY <1>2, <1>3, AlignedRows
<1> QED
  BY <1>1, <1>6, <1>7

(* A frame that load_traces filtered: the rows of the host that are left   *)
(* decide which kernels are.                                               *)
LEMMA FinishedKernels ==
  ASSUME files \in [Ranks -> Files], NEW r \in Ranks, sym_table \in Tables, Known(r),
         Finished(r), Filters, CpuRows(files[r].events) # {}, NEW g \in GpuRows(files[r].events)
  PROVE  Retained(r, g) <=> \E c \in Partners(files[r].events, g) : Retained(r, c)
<1>1. PICK E : E = files[r].events
  OBVIOUS
<1> DEFINE Left(m, include_last) == FilteredRank(Aligned(Coding(r), m), include_last)
<1>2. PICK m \in Int : \E include_last : traces[r] = Left(m, include_last)
  BY DEF Finished
<1>3. PICK include_last : traces[r] = Left(m, include_last)
  BY <1>2
<1>4. PICK rows : rows = Aligned(Coding(r), m)
  OBVIOUS
<1>5. Named(r, rows, sym_table) /\ \A e \in E : Has(rows, e)
  BY <1>1, <1>4, WholeFile
<1>6. CpuRows(Read(rows)) # {}
  <2>1. PICK c \in E : ~OnGpu(c)
    BY <1>1 DEF CpuRows
  <2>2. \E k \in Read(rows) : OnGpu(k) <=> OnGpu(c)
    BY <1>1, <1>5, <2>1, ReadRows
  <2> QED
    BY <2>1, <2>2 DEF CpuRows
<1>7. PICK C \in SUBSET CpuRows(E) :
        \A e \in E : Has(FilteredRank(rows, include_last), e) <=>
                       IF OnGpu(e) THEN Has(rows, e) /\ \E c \in C : c.correlation = e.correlation
                                   ELSE e \in C
  BY <1>1, <1>5, <1>6, FilterKeeps
<1>8. \A e \in E : Retained(r, e) <=> IF OnGpu(e) THEN \E c \in C : c.correlation = e.correlation
                                                  ELSE e \in C
  BY <1>3, <1>4, <1>5, <1>7 DEF Retained, Has
<1>9. g \in E /\ OnGpu(g) /\ g.correlation \in Int /\ g.correlation >= 0
  <2>1. files[r] \in Files
    OBVIOUS
  <2>2. g.correlation >= 0
    BY <2>1, FilesAssumption
  <2>3. g \in E /\ OnGpu(g)
    BY <1>1 DEF GpuRows
  <2>4. g.correlation \in Int
    BY <1>1, <2>3, FileEvents
  <2> QED
    BY <2>2, <2>3, <2>4
<1>10. ASSUME NEW c \in C, c.correlation = g.correlation PROVE c \in Partners(E, g) /\ Retained(r, c)
  <2>1. c \in E /\ ~OnGpu(c)
    BY <1>7 DEF CpuRows
  <2>2. g.correlation # -1
    BY <1>9
  <2> QED
    BY <1>8, <1>9, <1>10, <2>1, <2>2 DEF Partners
<1>11. ASSUME NEW c \in Partners(E, g), Retained(r, c) PROVE c \in C /\ c.correlation = g.correlation
  <2>1. c \in E /\ ~OnGpu(c) /\ c.correlation = g.correlation
    BY <1>9 DEF Partners, OnGpu
  <2> QED
    BY <1>8, <1>11, <2>1
<1> QED
  BY <1>1, <1>8, <1>9, <1>10, <1>11

(* For all files and ranks: in a loaded trace that was filtered a kernel   *)
(* is there if and only if a host event that launched it is, so that no    *)
(* link dangles and nothing without a launch stays                         *)
(* (filter_gpu_kernels_with_cpu_correlation).                              *)
THEOREM AlwaysKernelsFollowLaunches == Spec => []KernelsFollowLaunches
<1>1. IInv /\ Typed /\ Loading => KernelsFollowLaunches
  <2> SUFFICES ASSUME IInv, Typed, Loading, Loaded, Filters, NEW r \in DOMAIN traces,
                      CpuRows(files[r].events) # {}, NEW g \in GpuRows(files[r].events)
               PROVE  Retained(r, g) <=> \E c \in Partners(files[r].events, g) : Retained(r, c)
    BY DEF KernelsFollowLaunches
  <2>1. Finished(r) /\ Known(r)
    BY DEF Loading, Loaded
  <2>2. r \in Ranks /\ files \in [Ranks -> Files] /\ sym_table \in Tables
    BY DEF IInv, Frames, Typed, Books
  <2> QED
    BY <2>1, <2>2, FinishedKernels
<1> QED
  BY <1>1, Inductive, AlwaysTyped, AlwaysLoading, PTL

(* For all files and ranks: in a loaded trace that was filtered the link   *)
(* of every row is the index of a row that is there and has its            *)
(* correlation, and the rows are labelled with their index                 *)
(* (transform_correlation_to_index, then load_traces).                     *)
THEOREM AlwaysLinksResolve == Spec => []LinksResolve
<1>1. IInv /\ Typed /\ Loading => LinksResolve
  <2> SUFFICES ASSUME IInv, Typed, Loading, Loaded, NEW r \in DOMAIN traces
               PROVE  /\ r \in labelled
                      /\ CpuRows(files[r].events) # {} =>
                           \A row \in traces[r] :
                             row.index_correlation > 0 /\ Filters =>
                               \E linked \in traces[r] : /\ linked.index = row.index_correlation
                                                        /\ linked.correlation = row.correlation
    BY DEF LinksResolve
  <2>1. r \in labelled /\ Finished(r) /\ Known(r)
    BY DEF Loading, Loaded
  <2>2. r \in Ranks /\ files \in [Ranks -> Files] /\ sym_table \in Tables
    BY DEF IInv, Frames, Typed, Books
  <2>3. PICK E : E = files[r].events
    OBVIOUS
  <2>4. /\ IsFiniteSet(E) /\ \A e \in E : e.index \in Nat /\ e.correlation \in Int
        /\ \A d, e \in E : d.index = e.index => d = e
    BY <2>2, <2>3, FileEvents
  <2>5. /\ \A d, e \in CpuRows(E) : d.correlation = e.correlation => d = e \/ d.correlation < 0
        /\ \A g \in GpuRows(E) : g.correlation >= 0
    <3>1. files[r] \in Files
      BY <2>2
    <3> QED
      BY <3>1, <2>3, FilesAssumption
  <2> SUFFICES ASSUME CpuRows(E) # {}, NEW row \in traces[r], row.index_correlation > 0, Filters
               PROVE  \E linked \in traces[r] : /\ linked.index = row.index_correlation
                                               /\ linked.correlation = row.correlation
    BY <2>1, <2>3
  <2>6. PICK e \in E, id \in Nat, ts \in Int : row = RowFor(E, e, id, ts)
    BY <2>3 DEF Typed, Rows, Sound
  <2>7. /\ row.index = e.index /\ row.correlation = e.correlation
        /\ row.index_correlation = IndexCorrelation(E, e)
    BY <2>6 DEF RowFor
  <2>8. Partners(E, e) # {}
    <3> SUFFICES ASSUME Partners(E, e) = {} PROVE FALSE
      OBVIOUS
    <3>1. IndexCorrelation(E, e) = IF e.correlation < 0 THEN e.correlation ELSE 0
      BY DEF IndexCorrelation
    <3>2. e.correlation \in Int
      BY <2>4
    <3> QED
      BY <3>1, <3>2, <2>7
  <2>9. PICK p \in Partners(E, e) : p.index = row.index_correlation
    BY <2>4, <2>7, <2>8, PartnerIndex
  <2>10. p \in E /\ p.correlation = e.correlation /\ OnGpu(p) # OnGpu(e) /\ e.correlation # -1
    BY DEF Partners
  <2>11. Retained(r, e)
    BY <2>7 DEF Retained
  <2>12. ASSUME NEW g \in GpuRows(E)
         PROVE  Retained(r, g) <=> \E c \in Partners(E, g) : Retained(r, c)
    BY <2>1, <2>2, <2>3, FinishedKernels
  <2>13. Retained(r, p)
    <3>1. CASE OnGpu(e)
      <4>1. e \in GpuRows(E) /\ p \in CpuRows(E) /\ e.correlation >= 0
        BY <3>1, <2>5, <2>10 DEF GpuRows, CpuRows, OnGpu
      <4>2. PICK c \in Partners(E, e) : Retained(r, c)
        BY <4>1, <2>11, <2>12
      <4>3. c \in CpuRows(E) /\ c.correlation = e.correlation
        BY <3>1 DEF Partners, CpuRows, OnGpu
      <4>4. e.correlation \in Int
        BY <2>4
      <4>5. c = p
        BY <4>1, <4>3, <4>4, <2>5, <2>10
      <4> QED
        BY <4>2, <4>5
    <3>2. CASE ~OnGpu(e)
      <4>1. p \in GpuRows(E) /\ e \in Partners(E, p)
        BY <3>2, <2>10 DEF GpuRows, Partners, OnGpu
      <4> QED
        BY <4>1, <2>11, <2>12
    <3> QED
      BY <3>1, <3>2
  <2>14. PICK linked \in traces[r] : linked.index = p.index
    BY <2>13 DEF Retained
  <2>15. PICK d \in E, name \in Nat, t \in Int : linked = RowFor(E, d, name, t)
    BY <2>3 DEF Typed, Rows, Sound
  <2>16. linked.index = d.index /\ linked.correlation = d.correlation
    BY <2>15 DEF RowFor
  <2>17. d = p
    BY <2>4, <2>10, <2>14, <2>16
  <2> QED
    BY <2>7, <2>9, <2>10, <2>14, <2>16, <2>17
<1> QED
  BY <1>1, Inductive, AlwaysTyped, AlwaysLoading, PTL


-----------------------------------------------------------------------------
(* Where no file fails, or load_traces alone is called: the fourth         *)
(* invariant                                                               *)

(* A parse that fails leaves frames coded with the tables of their files;  *)
(* an alignment called on them would read other names.                     *)
Reliable == \A s \in Sessions : s.calls = {"load"} \/ s.unreadable = {}

(* A frame can be read with the table of the object, or is being replaced, *)
(* or will be replaced before load_traces reports success.                 *)
Readable(r) ==
  \/ Named(r, traces[r], sym_table)
  \/ ~Idle /\ call.at \in {"loop", "recode"} /\ r \in Range(call.ranks)
  \/ session.calls = {"load"} /\ ~is_parsed

Settling == \A r \in DOMAIN traces : Readable(r) /\ Linked(r, traces[r])

LEMMA InitSettling == Init => Settling
<1> SUFFICES ASSUME Init PROVE DOMAIN traces = {}
  BY DEF Settling
<1> QED
  BY DEF Init

(* A frame as the parser returns it has all rows. *)
LEMMA ParsedLinked ==
  ASSUME files \in [Ranks -> Files], NEW r \in Ranks, NEW table \in Tables,
         Range(files[r].symbols) \subseteq Range(table)
  PROVE  Linked(r, Coded(ParsedRows(files[r].events), table))
<1>1. PICK E : E = files[r].events
  OBVIOUS
<1>2. \A e \in E : \E id, ts : RowFor(E, e, id, ts) \in Coded(ParsedRows(E), table)
  BY <1>1, CodedNamed
<1>3. \A e \in E : Has(Coded(ParsedRows(E), table), e)
  <2> SUFFICES ASSUME NEW e \in E PROVE Has(Coded(ParsedRows(E), table), e)
    OBVIOUS
  <2>1. PICK id, ts : RowFor(E, e, id, ts) \in Coded(ParsedRows(E), table)
    BY <1>2
  <2>2. RowFor(E, e, id, ts).index = e.index
    BY DEF RowFor
  <2> QED
    BY <2>1, <2>2 DEF Has
<1> QED
  BY <1>1, <1>3 DEF Linked, GpuRows, Partners

(* A step that leaves or replaces every frame. *)
LEMMA SettlingStep ==
  ASSUME UNCHANGED files,
         \A r \in DOMAIN traces' :
           /\ Linked(r, traces'[r])
           /\ \/ Named(r, traces'[r], sym_table')
              \/ ~Idle' /\ call'.at \in {"loop", "recode"} /\ r \in Range(call'.ranks)
              \/ session'.calls = {"load"} /\ ~is_parsed'
  PROVE  Settling'
<1>1. \A r, rows : Linked(r, rows)' <=> Linked(r, rows')
  BY DEF Linked
<1>2. ASSUME NEW r \in DOMAIN traces' PROVE Linked(r, traces[r])' /\ Readable(r)'
  <2>1. Linked(r, traces[r])'
    BY <1>2 DEF Linked
  <2>2. Named(r, traces'[r], sym_table') => Named(r, traces[r], sym_table)'
    BY DEF Named
  <2>3. Readable(r)'
    BY <1>2, <2>2 DEF Readable
  <2> QED
    BY <2>1, <2>3
<1> QED
  BY <1>2 DEF Settling

LEMMA RaiseSettling ==
  ASSUME IInv, Settling, ~Idle, call.at # "parsed", session.calls = {"load"},
         Raise, UNCHANGED <<session, files>>
  PROVE  Settling'
<1>1. ~is_parsed /\ UNCHANGED <<traces, sym_table, is_parsed>>
  BY DEF IInv, LoadsOnly, Raise, attrVars, dataVars
<1>2. \A r \in DOMAIN traces' : Linked(r, traces'[r]) /\ session'.calls = {"load"} /\ ~is_parsed'
  BY <1>1 DEF Settling
<1> QED
  BY <1>2, SettlingStep

LEMMA QuietSettling ==
  ASSUME Settling, UNCHANGED <<session, files, attrVars, call>>
  PROVE  Settling'
<1>1. UNCHANGED <<session, files, traces, sym_table, is_parsed, call>>
  BY DEF attrVars, dataVars
<1>2. Idle' = Idle
  BY <1>1 DEF Idle
<1> QED
  BY <1>1, <1>2, SettlingStep DEF Settling, Readable

LEMMA BeginParseSettling ==
  ASSUME Settling, Idle, NEW op, NEW max_ranks, NEW mp, NEW include_last,
         BeginParse(op, max_ranks, mp, include_last), UNCHANGED <<session, files>>
  PROVE  Settling'
<1>1. UNCHANGED <<traces, sym_table>> /\ (is_parsed' => is_parsed)
  BY DEF BeginParse, dataVars
<1>2. \A r \in DOMAIN traces' :
        /\ Linked(r, traces'[r])
        /\ \/ Named(r, traces'[r], sym_table')
           \/ session'.calls = {"load"} /\ ~is_parsed'
  BY <1>1 DEF Settling, Readable
<1> QED
  BY <1>2, SettlingStep

(* A step of a parse: the frames of ranks being parsed are stored, and the *)
(* table grows.                                                            *)
LEMMA StoreSettling ==
  ASSUME Frames, Settling, ~Idle, ~Idle', call'.at \in {"loop", "recode"}, call'.ranks = call.ranks,
         UNCHANGED <<session, files, is_parsed>>, Grows(sym_table, sym_table'),
         \A r \in DOMAIN traces' : \/ r \in DOMAIN traces /\ traces'[r] = traces[r]
                                   \/ r \in Range(call.ranks) /\ r \in Ranks /\ traces'[r] = ParsedFile(r)
  PROVE  Settling'
<1>1. ASSUME NEW r \in DOMAIN traces', r \in DOMAIN traces, traces'[r] = traces[r]
      PROVE  /\ Linked(r, traces'[r])
             /\ \/ Named(r, traces'[r], sym_table')
                \/ r \in Range(call'.ranks)
                \/ session'.calls = {"load"} /\ ~is_parsed'
  <2>1. Named(r, traces[r], sym_table) => Named(r, traces[r], sym_table')
    BY NamedGrows
  <2> QED
    BY <1>1, <2>1 DEF Settling, Readable
<1>2. ASSUME NEW r \in Ranks PROVE Linked(r, ParsedFile(r))
  <2>1. files[r].symbols \in Tables
    BY FileSymbols DEF Frames
  <2> QED
    BY <2>1, ParsedLinked DEF Frames, ParsedFile
<1>3. \A r \in DOMAIN traces' :
        /\ Linked(r, traces'[r])
        /\ \/ Named(r, traces'[r], sym_table')
           \/ r \in Range(call'.ranks)
           \/ session'.calls = {"load"} /\ ~is_parsed'
  BY <1>1, <1>2
<1> QED
  BY <1>3, SettlingStep

LEMMA ParseNextSettling ==
  ASSUME IInv, Typed, Reliable, Settling, ParseNext
  PROVE  Settling'
<1>1. ~Idle /\ call.at = "loop" /\ UNCHANGED <<session, files, readable>> /\ session \in Sessions
  BY DEF ParseNext, IInv, Frames
<1>2. PICK r : r = Head(call.todo)
  OBVIOUS
<1>3. r \in Ranks /\ r \in Range(call.ranks)
  <2>1. PICK todo : todo = call.todo /\ todo \in Seq(Ranks) /\ todo # << >> /\ Range(todo) \subseteq Range(call.ranks)
    BY <1>1 DEF Typed, Calls
  <2>2. Len(todo) \in Nat \ {0} /\ DOMAIN todo = 1 .. Len(todo) /\ r = todo[1]
    BY <1>2, <2>1, EmptySeq, HeadTailProperties
  <2>3. 1 \in 1 .. Len(todo)
    BY <2>2
  <2>4. r \in Ranks
    BY <2>1, <2>2, <2>3, ElementOfSeq
  <2> QED
    BY <2>1, <2>2, <2>3, <2>4 DEF Range
<1>4. CASE r \notin readable
  <2>1. session.unreadable # {}
    BY <1>3, <1>4 DEF Typed, Books
  <2>2. session.calls = {"load"}
    BY <1>1, <2>1 DEF Reliable
  <2> QED
    BY <1>1, <1>2, <1>4, <2>2, RaiseSettling DEF ParseNext
<1>5. CASE r \in readable
  <2>1. /\ traces' = With(traces, r, ParsedFile(r)) /\ UNCHANGED <<min_ts, is_parsed>>
        /\ sym_table' = WithSymbols(sym_table, files[r].symbols)
        /\ call' = [call EXCEPT !.todo = Tail(call.todo),
                                !.at = IF Len(call.todo) = 1 THEN "recode" ELSE "loop"]
    BY <1>2, <1>5 DEF ParseNext
  <2>2. ~Idle' /\ call'.at \in {"loop", "recode"} /\ call'.ranks = call.ranks
    BY <1>1, <2>1 DEF IInv, CallSound, Idle
  <2>3. files[r].symbols \in Tables /\ sym_table \in Tables
    BY <1>3, FileSymbols DEF IInv, Frames, Typed, Books
  <2>4. Grows(sym_table, sym_table')
    BY <2>1, <2>3, SymbolsAdded DEF Tables
  <2>5. \A q \in DOMAIN traces' : \/ q \in DOMAIN traces /\ traces'[q] = traces[q]
                                  \/ q \in Range(call.ranks) /\ q \in Ranks /\ traces'[q] = ParsedFile(q)
    BY <1>3, <2>1 DEF With
  <2>6. Frames /\ UNCHANGED <<session, files, is_parsed>> /\ ~Idle
    BY <1>1, <2>1 DEF IInv
  <2> QED
    BY <2>2, <2>4, <2>5, <2>6, StoreSettling
<1> QED
  BY <1>4, <1>5

LEMMA CollectSettling ==
  ASSUME IInv, Typed, Reliable, Settling, Collect
  PROVE  Settling'
<1>1. /\ ~Idle /\ call.at = "pool" /\ call.parsed = Range(call.ranks)
      /\ UNCHANGED <<session, files, readable>> /\ session \in Sessions
  BY DEF Collect, IInv, Frames
<1>2. CASE call.raised
  <2>1. session.unreadable # {}
    BY <1>1, <1>2 DEF Typed, Calls
  <2>2. session.calls = {"load"}
    BY <1>1, <2>1 DEF Reliable
  <2> QED
    BY <1>1, <1>2, <2>2, RaiseSettling DEF Collect
<1>3. CASE ~call.raised
  <2>1. /\ traces' = [r \in DOMAIN traces \cup call.parsed |->
                        IF r \in call.parsed THEN ParsedFile(r) ELSE traces[r]]
        /\ sym_table' = WithTables(sym_table, call.ranks)
        /\ call' = [call EXCEPT !.at = "recode"] /\ UNCHANGED <<min_ts, is_parsed>>
    BY <1>3 DEF Collect
  <2>2. ~Idle' /\ call'.at = "recode" /\ call'.ranks = call.ranks
    BY <1>1, <2>1 DEF IInv, CallSound, Idle
  <2>3. PICK ranks, table : ranks = call.ranks /\ ranks \in Seq(Ranks) /\ table = sym_table /\ table \in Tables
    BY <1>1 DEF Typed, Calls, Books
  <2>4. Grows(sym_table, sym_table')
    BY <2>1, <2>3, TablesAdded DEF IInv, Frames
  <2>5. call.parsed \subseteq Ranks
    BY <1>1 DEF IInv, CallSound
  <2>6. \A q \in DOMAIN traces' : \/ q \in DOMAIN traces /\ traces'[q] = traces[q]
                                  \/ q \in Range(call.ranks) /\ q \in Ranks /\ traces'[q] = ParsedFile(q)
    BY <1>1, <2>1, <2>5
  <2>7. /\ Frames /\ UNCHANGED <<session, files, is_parsed>> /\ ~Idle
        /\ call'.at \in {"loop", "recode"}
    BY <1>1, <2>1, <2>2 DEF IInv
  <2> QED
    BY <2>2, <2>4, <2>6, <2>7, StoreSettling
<1> QED
  BY <1>2, <1>3

LEMMA RecodeSettling ==
  ASSUME IInv, Typed, Settling, Recode
  PROVE  Settling'
<1>1. ~Idle /\ call.at = "recode" /\ UNCHANGED <<session, files, sym_table>>
  BY DEF Recode
<1>2. PICK empty : traces' = [r \in DOMAIN traces \ empty |->
                                IF r \in Range(call.ranks) THEN Recoded(r) ELSE traces[r]]
  BY DEF Recode
<1>3. PICK table : table = sym_table /\ table \in Tables
  BY DEF Typed, Books
<1>4. ASSUME NEW r \in DOMAIN traces', r \in Range(call.ranks)
      PROVE  Linked(r, traces'[r]) /\ Named(r, traces'[r], table)
  <2>1. r \in Ranks /\ r \in Done
    BY <1>1, <1>2, <1>4 DEF IInv, Frames, Done
  <2>2. traces[r] = ParsedFile(r) /\ Range(files[r].symbols) \subseteq Range(table)
    BY <1>3, <2>1 DEF Typed, Own
  <2>3. traces'[r] = Coded(ParsedRows(files[r].events), table)
    BY <1>2, <1>3, <1>4, <2>1, <2>2, RecodedFile DEF IInv, Frames
  <2> QED
    BY <1>3, <2>1, <2>2, <2>3, CodedNamed, ParsedLinked DEF IInv, Frames
<1>5. ASSUME NEW r \in DOMAIN traces', r \notin Range(call.ranks)
      PROVE  Linked(r, traces'[r]) /\ Named(r, traces'[r], table)
  <2>1. r \in DOMAIN traces /\ traces'[r] = traces[r] /\ r \in Ranks
    BY <1>2, <1>5 DEF IInv, Frames
  <2>2. session.calls # {"load"}
    BY <1>1, <1>5, <2>1 DEF Typed, Calls
  <2> QED
    BY <1>3, <1>5, <2>1, <2>2 DEF Settling, Readable
<1>6. \A r \in DOMAIN traces' : Linked(r, traces'[r]) /\ Named(r, traces'[r], sym_table')
  BY <1>1, <1>3, <1>4, <1>5
<1> QED
  BY <1>1, <1>6, SettlingStep

(* An alignment of frames that can be read. *)
LEMMA AlignSettling ==
  ASSUME IInv, Typed, Settling, NEW include_last, AlignAndFilter(include_last),
         UNCHANGED <<files, sym_table>>,
         \A r \in DOMAIN traces : Named(r, traces[r], sym_table)
  PROVE  Settling'
<1>1. DOMAIN traces' = DOMAIN traces
  BY AlignedFrames DEF IInv, Typed
<1>2. PICK m \in Int : \A r \in DOMAIN traces :
        traces'[r] = IF Filters THEN FilteredRank(Aligned(traces[r], m), include_last)
                                ELSE Aligned(traces[r], m)
  BY AlignedFrames DEF IInv, Typed
<1>3. ASSUME NEW r \in DOMAIN traces
      PROVE  Linked(r, traces'[r]) /\ Named(r, traces'[r], sym_table)
  <2>1. PICK rows : rows = Aligned(traces[r], m)
    OBVIOUS
  <2>2. Named(r, rows, sym_table)
    BY <2>1, AlignedRows
  <2>3. Linked(r, rows)
    BY <2>1, AlignKeepsLinks DEF Settling, Typed, Rows
  <2>4. r \in Ranks /\ files \in [Ranks -> Files]
    BY DEF IInv, Frames
  <2>5. Linked(r, FilteredRank(rows, include_last))
    BY <2>2, <2>3, <2>4, FilterKeepsLinks
  <2>6. FilteredRank(rows, include_last) \in SUBSET rows
    BY DEF FilteredRank
  <2>7. Named(r, FilteredRank(rows, include_last), sym_table)
    BY <2>2, <2>6, FewerRows
  <2> QED
    BY <1>2, <2>1, <2>2, <2>3, <2>5, <2>7
<1>4. \A r \in DOMAIN traces' : Linked(r, traces'[r]) /\ Named(r, traces'[r], sym_table')
  BY <1>1, <1>3
<1> QED
  BY <1>4, SettlingStep

LEMMA ParseSingleRankSettling ==
  ASSUME IInv, Typed, Settling, NEW r \in Ranks, ParseSingleRank(r)
  PROVE  Settling'
<1>1. /\ Idle /\ "single" \in session.calls /\ UNCHANGED <<session, files, call>>
      /\ session.calls # {"load"}
  BY DEF ParseSingleRank
<1>2. \A q \in DOMAIN traces : Linked(q, traces[q]) /\ Named(q, traces[q], sym_table)
  BY <1>1 DEF Settling, Readable
<1>3. CASE r \notin readable \/ files[r].events = {}
  <2>1. sym_table' = sym_table /\ \A q \in DOMAIN traces' : q \in DOMAIN traces /\ traces'[q] = traces[q]
    BY <1>3 DEF ParseSingleRank, dataVars
  <2> QED
    BY <1>1, <1>2, <2>1, SettlingStep
<1>4. CASE r \in readable /\ files[r].events # {}
  <2>1. PICK table :
          /\ table = sym_table' /\ table = WithSymbols(sym_table, files[r].symbols)
          /\ traces' = With(traces, r, Coded(ParsedRows(files[r].events), table))
    BY <1>4 DEF ParseSingleRank
  <2>2. files[r].symbols \in Tables /\ sym_table \in Tables
    BY FileSymbols DEF IInv, Frames, Typed, Books
  <2>3. table \in Tables /\ Range(files[r].symbols) \subseteq Range(table) /\ Grows(sym_table, table)
    BY <2>1, <2>2, SymbolsAdded DEF Tables
  <2>4. /\ Named(r, Coded(ParsedRows(files[r].events), table), table)
        /\ Linked(r, Coded(ParsedRows(files[r].events), table))
    BY <2>3, CodedNamed, ParsedLinked DEF IInv, Frames
  <2>5. \A q \in DOMAIN traces : Linked(q, traces[q]) /\ Named(q, traces[q], table)
    BY <1>2, <2>3, NamedGrows
  <2>6. \A q \in DOMAIN traces' : Linked(q, traces'[q]) /\ Named(q, traces'[q], table)
    BY <2>1, <2>4, <2>5 DEF With
  <2> QED
    BY <1>1, <2>1, <2>6, SettlingStep
<1> QED
  BY <1>3, <1>4


LEMMA FinishLoadSettling ==
  ASSUME IInv, Typed, Settling, FinishLoad
  PROVE  Settling'
<1>1. /\ ~Idle /\ call.at = "parsed" /\ AlignAndFilter(call.include_last)
      /\ UNCHANGED <<files, sym_table>>
  BY DEF FinishLoad
<1>2. PICK include_last : AlignAndFilter(include_last)
  BY <1>1
<1>3. ASSUME NEW r \in DOMAIN traces PROVE Named(r, traces[r], sym_table)
  <2>1. SUFFICES ASSUME session.calls = {"load"} /\ ~is_parsed PROVE FALSE
    BY <1>1 DEF Settling, Readable
  <2>2. call.ranks = << >> /\ Range(call.ranks) = Ranks
    BY <1>1, <2>1 DEF Typed, Calls
  <2>3. Range(<< >>) = {}
    BY DEF Range
  <2>4. r \in Ranks
    BY DEF IInv, Frames
  <2> QED
    BY <2>2, <2>3, <2>4
<1> QED
  BY <1>1, <1>2, <1>3, AlignSettling

LEMMA AlignStepSettling ==
  ASSUME IInv, Typed, Settling, Align
  PROVE  Settling'
<1>1. Idle /\ session.calls # {"load"} /\ UNCHANGED <<files, sym_table>>
  BY DEF Align
<1>2. PICK include_last \in IncludeLast : AlignAndFilter(include_last)
  BY DEF Align
<1>3. \A r \in DOMAIN traces : Named(r, traces[r], sym_table)
  BY <1>1 DEF Settling, Readable
<1> QED
  BY <1>1, <1>2, <1>3, AlignSettling

LEMMA WorkerParseSettling ==
  ASSUME Settling, NEW r, WorkerParse(r)
  PROVE  Settling'
<1>1. call.at = "pool" /\ UNCHANGED <<session, files, traces, sym_table, is_parsed>>
  BY DEF WorkerParse, attrVars, dataVars
<1>2. \A q \in DOMAIN traces' :
        /\ Linked(q, traces'[q])
        /\ \/ Named(q, traces'[q], sym_table')
           \/ session'.calls = {"load"} /\ ~is_parsed'
  BY <1>1 DEF Settling, Readable
<1> QED
  BY <1>1, <1>2, SettlingStep

LEMMA NextSettling == IInv /\ Typed /\ Reliable /\ Settling /\ [Next]_vars => Settling'
<1> SUFFICES ASSUME IInv, Typed, Reliable, Settling, [Next]_vars PROVE Settling'
  OBVIOUS
<1>1. CASE ParseTraces
  <2>1. Idle /\ UNCHANGED <<session, files>>
    BY <1>1 DEF ParseTraces
  <2>2. PICK max_ranks \in 0 .. Cardinality(Ranks), mp \in session.mp :
          BeginParse("parse", max_ranks, mp, FALSE)
    BY <1>1 DEF ParseTraces
  <2> QED
    BY <2>1, <2>2, BeginParseSettling
<1>2. CASE LoadTraces
  <2>1. CASE is_parsed
    BY <1>2, <2>1, QuietSettling DEF LoadTraces
  <2>2. CASE ~is_parsed
    <3>1. Idle /\ UNCHANGED <<session, files>>
      BY <1>2 DEF LoadTraces
    <3>2. PICK mp \in session.mp, include_last \in IncludeLast :
            BeginParse("load", Cardinality(Ranks), mp, include_last)
      BY <1>2, <2>2 DEF LoadTraces
    <3> QED
      BY <3>1, <3>2, BeginParseSettling
  <2> QED
    BY <2>1, <2>2
<1>3. CASE ParseNext
  BY <1>3, ParseNextSettling
<1>4. CASE Collect
  BY <1>4, CollectSettling
<1>5. CASE Recode
  BY <1>5, RecodeSettling
<1>6. CASE Align
  BY <1>6, AlignStepSettling
<1>7. CASE FinishLoad
  BY <1>7, FinishLoadSettling
<1>8. ASSUME NEW r \in Ranks, WorkerParse(r) PROVE Settling'
  BY <1>8, WorkerParseSettling
<1>9. ASSUME NEW r \in Ranks, ParseSingleRank(r) PROVE Settling'
  BY <1>9, ParseSingleRankSettling
<1>10. ASSUME NEW r \in Ranks, Repair(r) PROVE Settling'
  BY <1>10, QuietSettling DEF Repair
<1>11. CASE UNCHANGED vars
  BY <1>11, QuietSettling DEF vars
<1> QED
  BY <1>1, <1>2, <1>3, <1>4, <1>5, <1>6, <1>7, <1>8, <1>9, <1>10, <1>11 DEF Next

LEMMA AlwaysSettling ==
  ASSUME Reliable
  PROVE  Spec => []Settling
<1>1. IInv /\ Typed /\ Settling /\ [Next]_vars => Settling'
  BY NextSettling
<1> QED
  BY <1>1, Inductive, AlwaysTyped, InitSettling, PTL DEF Spec

(* For all files and ranks, where no file fails or only load_traces is     *)
(* called: the id of every row of a parsed trace is, in the one table of   *)
(* all ranks, that of the name in its file, in whichever order the ranks   *)
(* were parsed and whatever was parsed before.                             *)
THEOREM AlwaysNamesDecode ==
  ASSUME Reliable
  PROVE  Spec => []NamesDecode
<1>1. IInv /\ Typed /\ Settling => NamesDecode
  <2> SUFFICES ASSUME IInv, Typed, Settling, Parsed, NEW r \in DOMAIN traces, NEW row \in traces[r]
               PROVE  SymbolAt(row.name) = Event(r, row).name
    BY DEF NamesDecode
  <2>1. Named(r, traces[r], sym_table)
    BY DEF Settling, Readable, Parsed
  <2>2. PICK e \in files[r].events, id \in Nat, ts \in Int :
          /\ row = RowFor(files[r].events, e, id, ts)
          /\ id + 1 \in DOMAIN sym_table /\ sym_table[id + 1] = e.name
    BY <2>1 DEF Named
  <2>3. row.name = id
    BY <2>2 DEF RowFor
  <2>4. Event(r, row) = e
    BY <2>2, RowEvent DEF IInv, Frames
  <2> QED
    BY <2>2, <2>3, <2>4 DEF SymbolAt
<1> QED
  BY <1>1, Inductive, AlwaysTyped, AlwaysSettling, PTL

(* For all files and ranks, where no file fails or only load_traces is     *)
(* called: whatever is called, and however often the traces are filtered,  *)
(* a kernel and its launch are dropped together or not at all              *)
(* (filter_gpu_kernels_with_cpu_correlation).                              *)
THEOREM AlwaysLinkedTogether ==
  ASSUME Reliable
  PROVE  Spec => []LinkedTogether
<1>1. Settling => LinkedTogether
  <2> SUFFICES ASSUME Settling, NEW r \in DOMAIN traces PROVE Linked(r, traces[r])
    BY DEF LinkedTogether, Linked, Has, Retained
  <2> QED
    BY DEF Settling
<1> QED
  BY <1>1, AlwaysSettling, PTL

=============================================================================
