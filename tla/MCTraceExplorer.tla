-------------------------- MODULE MCTraceExplorer --------------------------
(* A small instance of TraceExplorer.                                       *)
EXTENDS TraceExplorer, TLC

Symmetry == Permutations(Workspace) \union Permutations(Filter) \union Permutations(TraceID)
=============================================================================
