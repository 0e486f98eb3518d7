------------------------- MODULE MCServerLifecycle -------------------------
(* Small instances of ServerLifecycle.                                      *)
EXTENDS ServerLifecycle

CONSTANTS r1, r2, k1, k2

MCBody == [r \in Request |-> IF r = r1 THEN <<k1, k2>> ELSE <<k1>>]
MCBodyBytes == [r \in Request |-> IF r = r1 THEN <<1, 2>> ELSE <<1>>]
=============================================================================
