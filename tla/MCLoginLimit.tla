--------------------------- MODULE MCLoginLimit ---------------------------
(* A proxy that is trusted, and a client that comes with and without it.    *)
EXTENDS LoginLimit, TLC

CONSTANTS proxy, c1

MCHeaders == {<<>>, <<Junk, c1>>}

Symmetry == Permutations(Request)
=============================================================================
