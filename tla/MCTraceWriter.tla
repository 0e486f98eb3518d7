--------------------------- MODULE MCTraceWriter ---------------------------
(* Small instances of TraceWriter.                                          *)
EXTENDS TraceWriter

CONSTANTS r1, r2, r3, k1, k2

\* Bodies that share identities, one with two versions of the same span.
MCBody == [r \in Request |->
  CASE r = r1 -> <<k1, k2>>
    [] r = r2 -> <<k1>>
    [] r = r3 -> <<k2, k1, k2>>]

\* The last span of r3 is large, so that bytes run out before slots do.
MCBodyBytes == [r \in Request |->
  CASE r = r1 -> <<1, 2>>
    [] r = r2 -> <<1>>
    [] r = r3 -> <<1, 2, 4>>]
=============================================================================
