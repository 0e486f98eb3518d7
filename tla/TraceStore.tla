----------------------------- MODULE TraceStore -----------------------------
(***************************************************************************)
(* The trace store, src/internal/storage/trace/sqlite/store.go: the table  *)
(* spans, the table trace_summaries that is derived from it, and the one   *)
(* transaction in which Append upserts a batch and recomputes the summary  *)
(* of every trace the batch touches.  Statements of an open transaction    *)
(* work on its own copy of the tables; the commit replaces both at once.   *)
(***************************************************************************)
EXTENDS Integers, Sequences, FiniteSetsExt

CONSTANTS
  Trace,      \* (workspace, trace) pairs, numbered so that they are ordered
  Span,       \* span ids
  Version,    \* contents of a span: records with start, duration, status, tokens, kind
  Absent,     \* no row
  MaxBatch    \* most spans of a batch

ASSUME StoreAssumption ==
  /\ Trace \subseteq Nat
  /\ Absent \notin Version
  /\ MaxBatch \in Nat \ {0}

VARIABLES
  phase,      \* "starting": before Migrate; "ready"
  spans,      \* spans[t][s]: the committed row, or Absent
  summaries,  \* summaries[t]: the committed row, or Absent
  batch, done,            \* the open transaction: its batch and the spans upserted,
  todo,                   \* the traces to summarise,
  txSpans, txSummaries    \* and its copy of the tables; batch = <<>> when none is open

txVars    == <<batch, done, todo, txSpans, txSummaries>>
storeVars == <<phase, spans, summaries, txVars>>

Row   == [trace : Trace, span : Span, version : Version]
Rows  == [Span -> Version \union {Absent}]
Batches == UNION {[1..n -> Row] : n \in 1..MaxBatch}

Present(rows) == {s \in Span : rows[s] # Absent}
TracesOf(b) == {b[i].trace : i \in 1..Len(b)}

\* The SELECT ... GROUP BY of Append and of Migrate, over the rows of one trace.
Summary(rows) ==
  IF Present(rows) = {} THEN Absent
  ELSE [start  |-> Min({rows[s].start : s \in Present(rows)}),
        end    |-> Max({rows[s].start + rows[s].duration : s \in Present(rows)}),
        count  |-> Cardinality(Present(rows)),
        status |-> IF \E s \in Present(rows) : rows[s].status = "error"
                   THEN "error" ELSE "ok",
        tokens |-> MapThenSumSet(LAMBDA s : rows[s].tokens, Present(rows))]

\* Either a fresh database, or one from before trace_summaries existed.
StoreInit ==
  /\ phase = "starting"
  /\ spans \in [Trace -> Rows]
  /\ summaries = [t \in Trace |-> Absent]
  /\ batch = <<>> /\ done = 0 /\ todo = {}
  /\ txSpans = spans /\ txSummaries = summaries

\* Migrate backfills the summaries when there are none.
Migrate ==
  /\ phase = "starting"
  /\ phase' = "ready"
  /\ summaries' = IF \A t \in Trace : summaries[t] = Absent
                  THEN [t \in Trace |-> Summary(spans[t])] ELSE summaries
  /\ UNCHANGED <<spans, txVars>>

Begin(b) ==
  /\ phase = "ready" /\ batch = <<>>
  /\ batch' = b /\ done' = 0 /\ todo' = TracesOf(b)
  /\ txSpans' = spans /\ txSummaries' = summaries
  /\ UNCHANGED <<phase, spans, summaries>>

\* Mistake: the upserts are committed one by one.
UpsertAutocommit ==
  /\ done < Len(batch)
  /\ LET row == batch[done + 1]
     IN  /\ txSpans' = [txSpans EXCEPT ![row.trace][row.span] = row.version]
         /\ spans' = [spans EXCEPT ![row.trace][row.span] = row.version]
  /\ done' = done + 1
  /\ UNCHANGED <<phase, summaries, batch, todo, txSummaries>>

\* INSERT ... ON CONFLICT DO UPDATE, in the order of the batch.
Upsert ==
  /\ done < Len(batch)
  /\ LET row == batch[done + 1]
     IN  txSpans' = [txSpans EXCEPT ![row.trace][row.span] = row.version]
  /\ done' = done + 1
  /\ UNCHANGED <<phase, spans, summaries, batch, todo, txSummaries>>

\* The touched traces are summarised in the order of a map: any.
Summarise(t) ==
  /\ batch # <<>> /\ done = Len(batch) /\ t \in todo
  /\ txSummaries' = [txSummaries EXCEPT ![t] = Summary(txSpans[t])]
  /\ todo' = todo \ {t}
  /\ UNCHANGED <<phase, spans, summaries, batch, done, txSpans>>

TxEnds == batch' = <<>> /\ done' = 0 /\ todo' = {}

\* Mistake: the summaries that are left are given up at the commit.
Upserted == batch # <<>> /\ done = Len(batch)

AllStatementsDone == batch # <<>> /\ done = Len(batch) /\ todo = {}

Commit ==
  /\ AllStatementsDone
  /\ spans' = txSpans /\ summaries' = txSummaries
  /\ TxEnds
  /\ UNCHANGED <<phase, txSpans, txSummaries>>

\* Any statement, or the commit, fails: the deferred Rollback.
Rollback ==
  /\ batch # <<>>
  /\ TxEnds
  /\ UNCHANGED <<phase, spans, summaries, txSpans, txSummaries>>

\* The process dies and starts again; an open transaction never happened.
Crash ==
  /\ phase' = "starting"
  /\ TxEnds
  /\ UNCHANGED <<spans, summaries, txSpans, txSummaries>>

\* A step of the store when it is given the batches of load.
StoreStep(load) ==
  \/ Migrate \/ Upsert \/ Commit \/ Rollback \/ Crash
  \/ \E b \in load : Begin(b)
  \/ \E t \in Trace : Summarise(t)

StoreNext == StoreStep(Batches)

StoreSpec == StoreInit /\ [][StoreNext]_storeVars

-----------------------------------------------------------------------------
\* "The summary is updated in the transaction of the upsert": once Migrate has run,
\* every committed summary is the aggregate of the committed rows of its trace.
SummaryExact ==
  phase = "ready" => \A t \in Trace : summaries[t] = Summary(spans[t])

\* The transaction is left out, what is a summary is given.
Promise == INSTANCE StorePromise WITH open <- phase = "ready"

\* Readers see whole batches, applied in order, or nothing: a repeated span of a
\* batch ends with its last version, no row ever disappears, and with the rows the
\* summaries change, in one step.
KeepsPromise == Promise!Spec
=============================================================================
