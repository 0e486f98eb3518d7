--------------------------- MODULE MCSpanIntake ---------------------------
(* A good span, and spans with a fault each; some with the name of another  *)
(* workspace.  A unit of CozeLoop is 10, a day 40, an integer has 8 bits.   *)
EXTENDS SpanIntake, TLC

CONSTANTS w1, w2

Good == [named |-> TRUE, long |-> FALSE, timed |-> TRUE, duration |-> 4, large |-> FALSE,
         tokens |-> 1, workspace |-> w1]

MCItem ==
  {Good, [Good EXCEPT !.named = FALSE], [Good EXCEPT !.long = TRUE], [Good EXCEPT !.timed = FALSE],
   [Good EXCEPT !.large = TRUE], [Good EXCEPT !.tokens = -1, !.workspace = w2]}
  \union {[Good EXCEPT !.duration = d] : d \in {-1, 5, 41, 26}}

Symmetry == Permutations(Request)
=============================================================================
