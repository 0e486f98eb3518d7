---------------------------- MODULE StorePromise ----------------------------
(***************************************************************************)
(* What the trace store promises its readers, without transactions,        *)
(* statements or failures: a batch changes the rows in one step, and every *)
(* trace has at that moment the summary of its rows.                       *)
(***************************************************************************)
EXTENDS Integers, Sequences, FiniteSetsExt

CONSTANTS Trace, Span, Rows, Batches,
          Absent,
          Summary(_)    \* of the rows of one trace

VARIABLES spans, summaries, open

vars == <<spans, summaries, open>>

\* A store may have been filled before there were summaries.
Init ==
  /\ spans \in [Trace -> Rows]
  /\ summaries = [t \in Trace |-> Absent]
  /\ open = FALSE

Exact(rows) == [t \in Trace |-> Summary(rows[t])]

\* The last version of a row in the batch counts; a row that is not in it stays.
After(b) ==
  [t \in Trace |-> [s \in Span |->
     LET hits == {i \in 1..Len(b) : b[i].trace = t /\ b[i].span = s}
     IN  IF hits = {} THEN spans[t][s] ELSE b[Max(hits)].version]]

Open ==
  /\ ~open /\ open' = TRUE
  /\ summaries' = Exact(spans)
  /\ UNCHANGED spans

\* A batch that brings nothing new is no step.
Store ==
  /\ open /\ spans' # spans
  /\ \E b \in Batches : spans' = After(b)
  /\ summaries' = Exact(spans')
  /\ UNCHANGED open

Die ==
  /\ open /\ open' = FALSE
  /\ UNCHANGED <<spans, summaries>>

Next == Open \/ Store \/ Die

Spec == Init /\ [][Next]_vars
=============================================================================
