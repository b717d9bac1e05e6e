------------------------- MODULE MCTraceSymbolTable -------------------------
(* A small instance of TraceSymbolTable for TLC. *)
EXTENDS TraceSymbolTable, TLC

CONSTANTS a, b, c, u0, u1

MCUndefined == <<u0, u1>>
MCRaw == [name |-> a, cat |-> b]
MCIterables == {<<a>>, <<b>>, <<c, b, c>>}
MCSymbolLists == {<< >>, <<<<a, b>>, << >>, <<c, a>>, <<b, c>>>>}
MCIdMaps == {b :> 0, c :> 1}
=============================================================================
