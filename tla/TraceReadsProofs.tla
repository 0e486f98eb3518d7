-------------------------- MODULE TraceReadsProofs --------------------------
(***************************************************************************)
(* Proofs about the trace store and its readers, for every set of traces,  *)
(* spans and versions, and every size of a batch, a page and a sample.     *)
(* First the store alone (TraceStore): a summary is the aggregate of its   *)
(* rows, and the store implements StorePromise.  Its readers (TraceReads): *)
(* they leave the store as it is, and a client that follows cursors meets  *)
(* a row twice, or misses its place, only when the store changed between   *)
(* its requests.  Last the dashboard: sums over finite sets of rows, with  *)
(* which the three reads of one answer fit together as long as the store   *)
(* rests, and the percentiles of a sorted sample.                          *)
(*                                                                         *)
(* TraceReads instantiates TraceListing, TraceDetail and Dashboard, and    *)
(* each instance brings its own copy of Summary, of the steps of the store *)
(* and of Cardinality: the lemmas named Same... say that the copies agree. *)
(***************************************************************************)
EXTENDS TraceReads, FiniteSetTheorems, SequenceTheorems, WellFoundedInduction, TLAPS

\* An open transaction that has not failed.
InTx == batch # <<>>

\* The summary of t agrees with the rows of t in the transaction.
TxExact(t) == txSummaries[t] = Summary(txSpans[t])

StoreShape ==
  /\ phase \in {"starting", "ready"}
  /\ spans \in [Trace -> Rows]
  /\ txSpans \in [Trace -> Rows]
  /\ summaries = [t \in Trace |-> summaries[t]]
  /\ txSummaries = [t \in Trace |-> txSummaries[t]]
  /\ batch \in Batches \union {<<>>}
  /\ done \in Nat
  /\ todo \subseteq Trace

\* Of the traces of an open transaction only those that are still to be done may
\* disagree with their summary, and those are all it touches until then.
TxShape ==
  InTx =>
    /\ phase = "ready"
    /\ done <= Len(batch)
    /\ done < Len(batch) => todo = TracesOf(batch)
    /\ \A t \in Trace : t \notin todo => TxExact(t)

\* Before Migrate there may be no summaries at all, but never some that are wrong.
SummaryShape ==
  \/ phase = "starting" /\ \A t \in Trace : summaries[t] = Absent
  \/ \A t \in Trace : summaries[t] = Summary(spans[t])

StoreInv == StoreShape /\ TxShape /\ SummaryShape

\* A batch is a nonempty sequence of rows.
LEMMA BatchIsRows ==
  ASSUME NEW b \in Batches
  PROVE  /\ Len(b) \in Nat
         /\ b # <<>>
         /\ \A i \in 1..Len(b) : b[i] \in Row
         /\ TracesOf(b) \subseteq Trace
<1>1. PICK n \in 1..MaxBatch : b \in [1..n -> Row]
  BY DEF Batches
<1>2. n \in Nat /\ n > 0
  BY StoreAssumption
<1>3. Len(b) = n /\ DOMAIN b = 1..n
  BY <1>1, <1>2
<1>4. b # <<>>
  BY <1>2, <1>3
<1>5. \A i \in 1..Len(b) : b[i] \in Row
  BY <1>1, <1>3
<1> QED
  BY <1>2, <1>3, <1>4, <1>5 DEF Row, TracesOf

LEMMA InitStore == StoreInit => StoreInv
  BY DEF StoreInit, StoreInv, StoreShape, TxShape, InTx, SummaryShape

LEMMA NextStore == StoreInv /\ [StoreNext]_storeVars => StoreInv'
<1> SUFFICES ASSUME StoreInv, [StoreNext]_storeVars
             PROVE  StoreInv'
  OBVIOUS
<1> USE DEF StoreInv
<1>1. CASE Migrate
  <2>1. StoreShape'
    BY <1>1 DEF Migrate, StoreShape, txVars
  <2>2. batch = <<>>
    BY <1>1 DEF Migrate, TxShape, InTx
  <2>3. TxShape'
    BY <1>1, <2>2 DEF Migrate, TxShape, InTx, txVars
  <2>4. SummaryShape'
    BY <1>1 DEF Migrate, SummaryShape, StoreShape
  <2> QED
    BY <2>1, <2>3, <2>4
<1>2. ASSUME NEW b \in Batches, Begin(b)
      PROVE  StoreInv'
  <2>1. StoreShape'
    BY <1>2, BatchIsRows DEF Begin, StoreShape
  <2>2. \A t \in Trace : TxExact(t)'
    BY <1>2 DEF Begin, SummaryShape, TxExact
  <2>3. TxShape'
    BY <1>2, <2>2, BatchIsRows DEF Begin, TxShape, InTx
  <2>4. SummaryShape'
    BY <1>2 DEF Begin, SummaryShape
  <2> QED
    BY <2>1, <2>3, <2>4
<1>3. CASE Upsert
  <2> DEFINE row == batch[done + 1]
  <2>1. InTx /\ batch \in Batches
    BY <1>3 DEF Upsert, StoreShape, InTx
  <2>2. done + 1 \in 1..Len(batch) /\ row \in Row /\ row.trace \in TracesOf(batch)
    <3>1. done + 1 \in 1..Len(batch)
      BY <1>3, <2>1, BatchIsRows DEF Upsert, StoreShape
    <3> QED
      BY <3>1, <2>1, BatchIsRows DEF TracesOf
  <2>3. todo = TracesOf(batch)
    BY <1>3, <2>1 DEF Upsert, TxShape
  <2>4. \A t \in Trace : t # row.trace => txSpans'[t] = txSpans[t]
    BY <1>3, <2>2 DEF Upsert, StoreShape
  <2>5. txSpans' \in [Trace -> Rows]
    <3>1. txSpans[row.trace] \in Rows
      BY <2>2 DEF StoreShape, Row
    <3>2. [txSpans[row.trace] EXCEPT ![row.span] = row.version] \in Rows
      BY <2>2, <3>1 DEF Rows, Row
    <3> QED
      BY <1>3, <2>2, <3>2 DEF Upsert, StoreShape
  <2>6. StoreShape'
    BY <1>3, <2>5 DEF Upsert, StoreShape
  <2>7. TxShape'
    <3>1. \A t \in Trace : t \notin todo' => TxExact(t)'
      BY <1>3, <2>1, <2>2, <2>3, <2>4 DEF Upsert, TxShape, TxExact
    <3> QED
      BY <1>3, <2>1, <2>2, <2>3, <3>1 DEF Upsert, TxShape, InTx
  <2>8. SummaryShape'
    BY <1>3 DEF Upsert, SummaryShape
  <2> QED
    BY <2>6, <2>7, <2>8
<1>4. ASSUME NEW t \in Trace, Summarise(t)
      PROVE  StoreInv'
  <2>1. StoreShape'
    BY <1>4 DEF Summarise, StoreShape
  <2>2. \A u \in Trace : u \notin todo' => TxExact(u)'
    BY <1>4 DEF Summarise, TxShape, TxExact, InTx, StoreShape
  <2>3. TxShape'
    BY <1>4, <2>2 DEF Summarise, TxShape, InTx
  <2>4. SummaryShape'
    BY <1>4 DEF Summarise, SummaryShape
  <2> QED
    BY <2>1, <2>3, <2>4
<1>5. CASE Commit
  <2>1. \A t \in Trace : TxExact(t)
    BY <1>5 DEF Commit, AllStatementsDone, TxShape, InTx
  <2>2. StoreShape'
    BY <1>5 DEF Commit, TxEnds, StoreShape
  <2>3. TxShape'
    BY <1>5 DEF Commit, TxEnds, TxShape, InTx
  <2>4. SummaryShape'
    BY <1>5, <2>1 DEF Commit, SummaryShape, TxExact
  <2> QED
    BY <2>2, <2>3, <2>4
<1>6. CASE Rollback
  <2>1. StoreShape'
    BY <1>6 DEF Rollback, TxEnds, StoreShape
  <2>2. TxShape'
    BY <1>6 DEF Rollback, TxEnds, TxShape, InTx
  <2>3. SummaryShape'
    BY <1>6 DEF Rollback, SummaryShape
  <2> QED
    BY <2>1, <2>2, <2>3
<1>7. CASE Crash
  <2>1. StoreShape'
    BY <1>7 DEF Crash, TxEnds, StoreShape
  <2>2. TxShape'
    BY <1>7 DEF Crash, TxEnds, TxShape, InTx
  <2>3. SummaryShape'
    BY <1>7 DEF Crash, SummaryShape
  <2> QED
    BY <2>1, <2>2, <2>3
<1>8. CASE UNCHANGED storeVars
  <2>1. StoreShape'
    BY <1>8 DEF storeVars, txVars, StoreShape
  <2>2. TxShape'
    BY <1>8 DEF storeVars, txVars, TxShape, InTx, TxExact
  <2>3. SummaryShape'
    BY <1>8 DEF storeVars, SummaryShape
  <2> QED
    BY <2>1, <2>2, <2>3
<1> QED
  BY <1>1, <1>2, <1>3, <1>4, <1>5, <1>6, <1>7, <1>8 DEF StoreNext, StoreStep

\* The state of the store is always as StoreInv says.
THEOREM StoreInvariant == StoreSpec => []StoreInv
  BY InitStore, NextStore, PTL DEF StoreSpec

\* SummaryExact: whatever fails and whenever the process dies, a committed summary
\* is the aggregate of the committed spans of its trace.
THEOREM SummariesExact == StoreSpec => []SummaryExact
<1>1. StoreInv => SummaryExact
  BY DEF StoreInv, SummaryShape, SummaryExact
<1> QED
  BY <1>1, StoreInvariant, PTL
-----------------------------------------------------------------------------
(* What a commit makes visible.                                             *)

\* The statements so far that wrote the row of s in t.
Hits(t, s) == {i \in 1..done : batch[i].trace = t /\ batch[i].span = s}

\* The transaction holds the committed rows under the statements so far.
TxRows ==
  InTx => \A t \in Trace, s \in Span :
            txSpans[t][s] = IF Hits(t, s) = {} THEN spans[t][s]
                            ELSE batch[Max(Hits(t, s))].version

LEMMA MaxAdded ==
  ASSUME NEW n \in Nat, NEW S \in SUBSET (1..n)
  PROVE  Max(S \union {n + 1}) = n + 1
<1> DEFINE T == S \union {n + 1}
<1>1. n + 1 \in T /\ \A y \in T : n + 1 >= y
  OBVIOUS
<1>2. \A x \in T : (\A y \in T : x >= y) => x = n + 1
  <2>1. T \subseteq Int
    OBVIOUS
  <2> QED
    BY <1>1, <2>1
<1> QED
  BY <1>1, <1>2 DEF Max

LEMMA NextRows == StoreInv /\ TxRows /\ [StoreNext]_storeVars => TxRows'
<1> SUFFICES ASSUME StoreInv, TxRows, [StoreNext]_storeVars, InTx',
                    NEW t \in Trace, NEW s \in Span
             PROVE  txSpans'[t][s] = IF Hits(t, s)' = {} THEN spans'[t][s]
                                     ELSE batch'[Max(Hits(t, s)')].version
  BY DEF TxRows
<1>1. CASE UNCHANGED <<spans, txSpans, batch, done>>
  BY <1>1 DEF TxRows, InTx, Hits
<1>2. CASE UNCHANGED storeVars
  BY <1>1, <1>2 DEF storeVars, txVars
<1>3. CASE Migrate
  BY <1>1, <1>3 DEF Migrate, txVars
<1>4. ASSUME NEW b \in Batches, Begin(b)
      PROVE  txSpans'[t][s] = IF Hits(t, s)' = {} THEN spans'[t][s]
                              ELSE batch'[Max(Hits(t, s)')].version
  BY <1>4 DEF Begin, Hits
<1>5. CASE Upsert
  <2> DEFINE row == batch[done + 1]
  <2>1. InTx /\ batch \in Batches
    BY <1>5 DEF Upsert, StoreInv, StoreShape, InTx
  <2>2. done \in Nat /\ done + 1 \in 1..Len(batch) /\ row \in Row
    <3>1. done \in Nat /\ done + 1 \in 1..Len(batch)
      BY <1>5, <2>1, BatchIsRows DEF Upsert, StoreInv, StoreShape
    <3> QED
      BY <3>1, <2>1, BatchIsRows
  <2>3. txSpans[t] \in Rows /\ txSpans[row.trace] \in Rows
    BY <2>2 DEF StoreInv, StoreShape, Row
  <2>4. CASE row.trace = t /\ row.span = s
    <3>1. Hits(t, s)' = Hits(t, s) \union {done + 1}
      BY <1>5, <2>2, <2>4 DEF Upsert, Hits
    <3>2. Max(Hits(t, s)') = done + 1
      <4>1. Hits(t, s) \in SUBSET (1..done)
        BY DEF Hits
      <4>2. Max(Hits(t, s) \union {done + 1}) = done + 1
        BY <4>1, <2>2, MaxAdded
      <4> QED
        BY <3>1, <4>2
    <3>3. txSpans'[t][s] = row.version
      BY <1>5, <2>3, <2>4 DEF Upsert, StoreInv, StoreShape, Rows
    <3> QED
      BY <1>5, <3>1, <3>2, <3>3 DEF Upsert
  <2>5. CASE ~(row.trace = t /\ row.span = s)
    <3>1. Hits(t, s)' = Hits(t, s)
      BY <1>5, <2>2, <2>5 DEF Upsert, Hits
    <3>2. txSpans'[t][s] = txSpans[t][s]
      BY <1>5, <2>2, <2>3, <2>5 DEF Upsert, StoreInv, StoreShape, Rows, Row
    <3>3. spans' = spans /\ batch' = batch
      BY <1>5 DEF Upsert
    <3> QED
      BY <2>1, <3>1, <3>2, <3>3 DEF TxRows
  <2> QED
    BY <2>4, <2>5
<1>6. ASSUME NEW u \in Trace, Summarise(u)
      PROVE  UNCHANGED <<spans, txSpans, batch, done>>
  BY <1>6 DEF Summarise
<1>7. ~(Commit \/ Rollback \/ Crash)
  BY DEF Commit, Rollback, Crash, TxEnds, InTx
<1> QED
  BY <1>1, <1>2, <1>3, <1>4, <1>5, <1>6, <1>7 DEF StoreNext, StoreStep

LEMMA InitPromised == StoreInit => Promise!Init
  BY DEF StoreInit, Promise!Init

\* A commit stores the batch as promised: with its rows come the summaries of all traces.
LEMMA CommitPromised ==
  ASSUME StoreInv, TxRows, Commit
  PROVE  /\ batch \in Batches /\ spans' = Promise!After(batch)
         /\ summaries' = Promise!Exact(spans')
<1>1. batch \in Batches /\ InTx /\ done = Len(batch)
  BY DEF Commit, AllStatementsDone, StoreInv, StoreShape, InTx
<1>2. spans' = Promise!After(batch)
  <2>1. \A t \in Trace, s \in Span :
          LET hits == {i \in 1..Len(batch) : batch[i].trace = t /\ batch[i].span = s}
          IN  spans'[t][s] = IF hits = {} THEN spans[t][s] ELSE batch[Promise!Max(hits)].version
    BY <1>1 DEF Commit, TxRows, Hits, Max, Promise!Max
  <2>2. spans' \in [Trace -> Rows]
    BY DEF Commit, StoreInv, StoreShape
  <2>3. spans' = [t \in Trace |-> [s \in Span |-> spans'[t][s]]]
    BY <2>2 DEF Rows
  <2> QED
    BY <2>1, <2>3 DEF Promise!After
<1>3. summaries' = Promise!Exact(spans')
  <2>1. \A t \in Trace : summaries'[t] = Summary(spans'[t])
    BY <1>1 DEF Commit, AllStatementsDone, StoreInv, TxShape, TxExact
  <2>2. summaries' = [t \in Trace |-> summaries'[t]]
    BY DEF Commit, StoreInv, StoreShape
  <2> QED
    BY <2>1, <2>2 DEF Promise!Exact
<1> QED
  BY <1>1, <1>2, <1>3

\* Everything else that a transaction does is not seen.
LEMMA NextPromised == StoreInv /\ TxRows /\ [StoreNext]_storeVars => [Promise!Next]_(Promise!vars)
<1> SUFFICES ASSUME StoreInv, TxRows, StoreNext \/ UNCHANGED storeVars
             PROVE  Promise!Next \/ UNCHANGED Promise!vars
  OBVIOUS
<1>1. CASE UNCHANGED <<phase, spans, summaries>>
  BY <1>1 DEF Promise!vars
<1>2. CASE Migrate
  <2>1. \A t \in Trace : summaries'[t] = Summary(spans[t])
    BY <1>2 DEF Migrate, StoreInv, SummaryShape
  <2>2. summaries' = Promise!Exact(spans)
    <3>1. summaries' = [t \in Trace |-> summaries'[t]]
      BY <1>2 DEF Migrate, StoreInv, StoreShape
    <3> QED
      BY <2>1, <3>1 DEF Promise!Exact
  <2>3. Promise!Open
    BY <1>2, <2>2 DEF Migrate, Promise!Open
  <2> QED
    BY <2>3 DEF Promise!Next
<1>3. CASE Commit
  <2>1. /\ batch \in Batches /\ spans' = Promise!After(batch) /\ summaries' = Promise!Exact(spans')
        /\ phase = "ready" /\ UNCHANGED phase
    BY <1>3, CommitPromised DEF Commit, AllStatementsDone, StoreInv, TxShape, InTx
  <2>2. CASE spans' # spans
    BY <2>1, <2>2 DEF Promise!Store, Promise!Next
  <2>3. CASE spans' = spans
    <3>1. \A t \in Trace : summaries[t] = Summary(spans[t])
      BY <2>1 DEF StoreInv, SummaryShape
    <3>2. summaries = [t \in Trace |-> summaries[t]]
      BY DEF StoreInv, StoreShape
    <3>3. summaries = Promise!Exact(spans)
      BY <3>1, <3>2 DEF Promise!Exact
    <3> QED
      BY <2>1, <2>3, <3>3 DEF Promise!vars
  <2> QED
    BY <2>2, <2>3
<1>4. CASE Crash
  <2>1. phase' = "starting" /\ UNCHANGED <<spans, summaries>> /\ phase \in {"starting", "ready"}
    BY <1>4 DEF Crash, StoreInv, StoreShape
  <2> QED
    BY <2>1 DEF Promise!Die, Promise!Next, Promise!vars
<1>5. CASE Upsert \/ Rollback \/ \E b \in Batches : Begin(b)
  BY <1>1, <1>5 DEF Upsert, Rollback, Begin
<1>6. CASE \E t \in Trace : Summarise(t)
  BY <1>1, <1>6 DEF Summarise
<1> QED
  BY <1>1, <1>2, <1>3, <1>4, <1>5, <1>6 DEF StoreNext, StoreStep, storeVars

\* KeepsPromise: whatever fails and whenever the process dies, what is committed changes by whole
\* batches, the last version of each of their spans, and with it the summaries, in one step.
THEOREM StoreKeepsPromise == StoreSpec => KeepsPromise
<1>1. StoreInit => TxRows
  BY DEF StoreInit, TxRows, InTx
<1>2. StoreSpec => []TxRows
  BY <1>1, NextRows, StoreInvariant, PTL DEF StoreSpec
<1> QED
  BY <1>2, StoreInvariant, InitPromised, NextPromised, PTL DEF StoreSpec, KeepsPromise, Promise!Spec

-----------------------------------------------------------------------------
(* The readers and the store.                                               *)

\* A summary is the same function of the rows in every module.
LEMMA SameSummary ==
  ASSUME NEW r
  PROVE  Listing!Summary(r) = Summary(r) /\ Detail!Summary(r) = Summary(r) /\ Dash!Summary(r) = Summary(r)
<1>1. Listing!Summary(r) = Summary(r)
  BY Zenon DEF Listing!Summary, Summary, Listing!Present, Present, Listing!Min, Min, Listing!Max, Max,
     MapThenSumSet, Listing!MapThenSumSet, MapThenFoldSet, Listing!MapThenFoldSet,
     Cardinality, Listing!Cardinality
<1>2. Detail!Summary(r) = Summary(r)
  BY DEF Detail!Summary, Summary, Detail!Present, Present, Detail!Min, Min, Detail!Max, Max,
     MapThenSumSet, Detail!MapThenSumSet, MapThenFoldSet, Detail!MapThenFoldSet,
     Cardinality, Detail!Cardinality
<1>3. Dash!Summary(r) = Summary(r)
  BY DEF Dash!Summary, Summary, Dash!Present, Present, Dash!Min, Min, Dash!Max, Max,
     MapThenSumSet, Dash!MapThenSumSet, MapThenFoldSet, Dash!MapThenFoldSet,
     Cardinality, Dash!Cardinality
<1> QED
  BY <1>1, <1>2, <1>3

\* And so is a number of elements.
LEMMA SameCardinality ==
  ASSUME NEW S
  PROVE  /\ Listing!Cardinality(S) = Cardinality(S)
         /\ Detail!Cardinality(S) = Cardinality(S)
         /\ Dash!Cardinality(S) = Cardinality(S)
BY DEF Cardinality, Listing!Cardinality, Detail!Cardinality, Dash!Cardinality

\* What a reader's module calls a step of the store is one.
LEMMA SameSteps ==
  /\ Listing!StoreStep(Load) => StoreNext
  /\ Detail!StoreStep(Load) => StoreNext
  /\ Dash!StoreStep(BoardLoad) => StoreNext
<1>1. Listing!StoreStep(Load) => StoreNext
  <2>1. Listing!Migrate => Migrate
    BY SameSummary DEF Listing!Migrate, Migrate, Listing!txVars, txVars
  <2>2. Listing!Upsert => Upsert
    BY DEF Listing!Upsert, Upsert
  <2>3. /\ Listing!Commit => Commit
        /\ Listing!Rollback => Rollback
        /\ Listing!Crash => Crash
    BY DEF Listing!Commit, Commit, Listing!AllStatementsDone, AllStatementsDone,
       Listing!Rollback, Rollback, Listing!Crash, Crash, Listing!TxEnds, TxEnds
  <2>4. \A b : Listing!Begin(b) => Begin(b)
    BY DEF Listing!Begin, Begin, Listing!TracesOf, TracesOf
  <2>5. \A t : Listing!Summarise(t) => Summarise(t)
    BY SameSummary DEF Listing!Summarise, Summarise
  <2> QED
    BY <2>1, <2>2, <2>3, <2>4, <2>5, ReadsAssumption DEF Listing!StoreStep, StoreNext, StoreStep
<1>2. Detail!StoreStep(Load) => StoreNext
  <2>1. Detail!Migrate => Migrate
    BY SameSummary DEF Detail!Migrate, Migrate, Detail!txVars, txVars
  <2>2. Detail!Upsert => Upsert
    BY DEF Detail!Upsert, Upsert
  <2>3. /\ Detail!Commit => Commit
        /\ Detail!Rollback => Rollback
        /\ Detail!Crash => Crash
    BY DEF Detail!Commit, Commit, Detail!AllStatementsDone, AllStatementsDone,
       Detail!Rollback, Rollback, Detail!Crash, Crash, Detail!TxEnds, TxEnds
  <2>4. \A b : Detail!Begin(b) => Begin(b)
    BY DEF Detail!Begin, Begin, Detail!TracesOf, TracesOf
  <2>5. \A t : Detail!Summarise(t) => Summarise(t)
    BY SameSummary DEF Detail!Summarise, Summarise
  <2> QED
    BY <2>1, <2>2, <2>3, <2>4, <2>5, ReadsAssumption DEF Detail!StoreStep, StoreNext, StoreStep
<1>3. Dash!StoreStep(BoardLoad) => StoreNext
  <2>1. Dash!Migrate => Migrate
    BY SameSummary DEF Dash!Migrate, Migrate, Dash!txVars, txVars
  <2>2. Dash!Upsert => Upsert
    BY DEF Dash!Upsert, Upsert
  <2>3. /\ Dash!Commit => Commit
        /\ Dash!Rollback => Rollback
        /\ Dash!Crash => Crash
    BY DEF Dash!Commit, Commit, Dash!AllStatementsDone, AllStatementsDone,
       Dash!Rollback, Rollback, Dash!Crash, Crash, Dash!TxEnds, TxEnds
  <2>4. \A b : Dash!Begin(b) => Begin(b)
    BY DEF Dash!Begin, Begin, Dash!TracesOf, TracesOf
  <2>5. \A t : Dash!Summarise(t) => Summarise(t)
    BY SameSummary DEF Dash!Summarise, Summarise
  <2> QED
    BY <2>1, <2>2, <2>3, <2>4, <2>5, ReadsAssumption DEF Dash!StoreStep, StoreNext, StoreStep
<1> QED
  BY <1>1, <1>2, <1>3

\* The readers leave the store alone.
LEMMA ReadersOnlyRead == ReadsNext => [StoreNext]_storeVars
<1>1. StoreAlone => StoreNext
  BY DEF StoreAlone
<1>2. ListMoves => [StoreNext]_storeVars
  BY SameSteps DEF ListMoves, Listing!ListNext, Listing!StartListing, Listing!GetPage, Listing!StoreMoves,
     Listing!storeVars, storeVars, Listing!txVars, txVars
<1>3. TraceMoves => [StoreNext]_storeVars
  BY SameSteps DEF TraceMoves, Detail!DetailNext, Detail!OpenTrace, Detail!ReadPage, Detail!ReadSummary,
     Detail!StoreMoves, Detail!storeVars, storeVars, Detail!txVars, txVars
<1>4. DashboardMoves => [StoreNext]_storeVars
  <2>1. Dash!Read => UNCHANGED storeVars
    BY DEF Dash!Read, Dash!Ask, Dash!Count, Dash!Query, Dash!NextRow, Dash!RowsEnd, Dash!ReadUsage,
       Dash!Answer, Dash!storeVars, storeVars, Dash!txVars, txVars
  <2>2. Dash!StoreMoves => StoreNext
    BY SameSteps DEF Dash!StoreMoves
  <2> QED
    BY <2>1, <2>2 DEF DashboardMoves, Dash!Next
<1> QED
  BY <1>1, <1>2, <1>3, <1>4 DEF ReadsNext

LEMMA ReadersStartFresh == ReadsInit => StoreInit
BY DEF ReadsInit, StoreInit, Dash!Init, Listing!ListInit, Detail!DetailInit, Listing!StoreInit, Detail!StoreInit,
   Dash!StoreInit, Listing!Rows, Detail!Rows, Dash!Rows, Rows

\* Whoever reads, the store is as if it were alone.
THEOREM ReadersKeepStore == ReadsSpec => StoreSpec
<1>1. [ReadsNext]_readsVars => [StoreNext]_storeVars
  BY ReadersOnlyRead DEF readsVars
<1> QED
  BY <1>1, ReadersStartFresh, PTL DEF ReadsSpec, StoreSpec

\* SummaryExact and KeepsPromise hold under any readers too: what they read fits together,
\* and what they see of a batch is all of it.
THEOREM ReadersSeeExactSummaries == ReadsSpec => []SummaryExact
  BY ReadersKeepStore, SummariesExact, PTL

THEOREM ReadersSeePromise == ReadsSpec => KeepsPromise
  BY ReadersKeepStore, StoreKeepsPromise, PTL

-----------------------------------------------------------------------------
(* Pages of a finite set in a strict order R, a set of pairs.               *)

StrictOrder(R, S) ==
  /\ \A a \in S : <<a, a>> \notin R
  /\ \A a, b \in S : a # b => <<a, b>> \in R \/ <<b, a>> \in R
  /\ \A a, b, c \in S : <<a, b>> \in R /\ <<b, c>> \in R => <<a, c>> \in R

Ahead(R, S, k) == {other \in S : <<other, k>> \in R}

FirstOf(R, S, n) == {k \in S : Cardinality(Ahead(R, S, k)) < n}

IsLast(R, P, z) == z \in P /\ \A other \in P \ {z} : <<other, z>> \in R

\* A set of naturals that is not empty has a first element.
LEMMA FirstNat ==
  ASSUME NEW S \in SUBSET Nat, S # {}
  PROVE  \E n \in S : \A m \in S : n <= m
<1> DEFINE Less == {p \in Nat \X Nat : p[1] < p[2]}
<1>1. IsWellFoundedOn(Less, Nat)
  BY NatLessThanWellFounded, Zenon DEF OpToRel
<1>2. \A a, b \in Nat : a < b => <<a, b>> \in Less
  OBVIOUS
<1> HIDE DEF Less
<1>3. PICK n \in S : \A y \in S : <<y, n>> \notin Less
  BY <1>1, WFMin, Zenon
<1>4. ASSUME NEW m \in S PROVE n <= m
  <2>1. m \in Nat /\ n \in Nat /\ ~(m < n)
    BY <1>2, <1>3
  <2> QED
    BY <2>1
<1> QED
  BY <1>4

\* The elements ahead of another one grow with it, and are never all of them.
LEMMA AheadGrows ==
  ASSUME NEW R, NEW S, IsFiniteSet(S), StrictOrder(R, S)
  PROVE  /\ Cardinality(S) \in Nat
         /\ \A k \in S : Cardinality(Ahead(R, S, k)) \in Nat /\ Cardinality(Ahead(R, S, k)) < Cardinality(S)
         /\ \A j, k \in S : <<j, k>> \in R => Cardinality(Ahead(R, S, j)) < Cardinality(Ahead(R, S, k))
<1>1. Cardinality(S) \in Nat
  BY FS_CardinalityType
<1>2. \A k \in S : IsFiniteSet(Ahead(R, S, k)) /\ Cardinality(Ahead(R, S, k)) \in Nat
  <2> TAKE k \in S
  <2>1. IsFiniteSet(Ahead(R, S, k))
    BY FS_Subset DEF Ahead
  <2> QED
    BY <2>1, FS_CardinalityType
<1>3. \A T, U : IsFiniteSet(U) /\ T \subseteq U /\ T # U => Cardinality(T) < Cardinality(U)
  <2> SUFFICES ASSUME NEW T, NEW U, IsFiniteSet(U), T \subseteq U, T # U
               PROVE  Cardinality(T) < Cardinality(U)
    OBVIOUS
  <2>1. /\ IsFiniteSet(T) /\ Cardinality(T) <= Cardinality(U)
        /\ Cardinality(U) # Cardinality(T)
    BY FS_Subset
  <2>2. Cardinality(T) \in Nat /\ Cardinality(U) \in Nat
    BY <2>1, FS_CardinalityType
  <2> QED
    BY <2>1, <2>2
<1>4. \A k \in S : Cardinality(Ahead(R, S, k)) < Cardinality(S)
  <2> TAKE k \in S
  <2>1. Ahead(R, S, k) \subseteq S /\ k \notin Ahead(R, S, k)
    BY DEF Ahead, StrictOrder
  <2>2. Ahead(R, S, k) # S
    BY <2>1
  <2> QED
    BY <1>3, <2>1, <2>2
<1>5. ASSUME NEW j \in S, NEW k \in S, <<j, k>> \in R
      PROVE  Cardinality(Ahead(R, S, j)) < Cardinality(Ahead(R, S, k))
  <2>1. Ahead(R, S, j) \subseteq Ahead(R, S, k)
    BY <1>5 DEF Ahead, StrictOrder
  <2>2. j \in Ahead(R, S, k) /\ j \notin Ahead(R, S, j)
    BY <1>5 DEF Ahead, StrictOrder
  <2>3. Ahead(R, S, j) # Ahead(R, S, k)
    BY <2>2
  <2> QED
    BY <1>2, <1>3, <2>1, <2>3
<1> QED
  BY <1>1, <1>2, <1>4, <1>5

\* A part that is not empty has a first and a last element.
LEMMA Extremes ==
  ASSUME NEW R, NEW S, IsFiniteSet(S), StrictOrder(R, S), NEW P \in SUBSET S, P # {}
  PROVE  /\ \E z \in P : \A other \in P \ {z} : <<z, other>> \in R
         /\ \E z \in P : \A other \in P \ {z} : <<other, z>> \in R
<1> DEFINE rank(k) == Cardinality(Ahead(R, S, k))
           size == Cardinality(S)
<1>1. /\ size \in Nat
      /\ \A k \in S : rank(k) \in Nat /\ rank(k) < size
      /\ \A j, k \in S : <<j, k>> \in R => rank(j) < rank(k)
  BY AheadGrows
<1>2. \A j, k \in S : j # k => <<j, k>> \in R \/ <<k, j>> \in R
  BY DEF StrictOrder
<1> HIDE DEF rank, size
<1>3. \E z \in P : \A other \in P \ {z} : <<z, other>> \in R
  <2> DEFINE ranks == {rank(k) : k \in P}
  <2>1. ranks \in SUBSET Nat /\ ranks # {}
    BY <1>1
  <2> HIDE DEF ranks
  <2>2. PICK n \in ranks : \A m \in ranks : n <= m
    BY <2>1, FirstNat
  <2>3. PICK z \in P : n = rank(z)
    BY <2>2 DEF ranks
  <2>4. ASSUME NEW other \in P \ {z} PROVE <<z, other>> \in R
    <3>1. rank(z) <= rank(other)
      BY <2>2, <2>3 DEF ranks
    <3>2. ~(rank(other) < rank(z))
      BY <1>1, <3>1
    <3> QED
      BY <1>1, <1>2, <3>2
  <2> QED
    BY <2>4
<1>4. \E z \in P : \A other \in P \ {z} : <<other, z>> \in R
  <2> DEFINE ranks == {size - rank(k) : k \in P}
  <2>1. ranks \in SUBSET Nat /\ ranks # {}
    BY <1>1
  <2> HIDE DEF ranks
  <2>2. PICK n \in ranks : \A m \in ranks : n <= m
    BY <2>1, FirstNat
  <2>3. PICK z \in P : n = size - rank(z)
    BY <2>2 DEF ranks
  <2>4. ASSUME NEW other \in P \ {z} PROVE <<other, z>> \in R
    <3>1. size - rank(z) <= size - rank(other)
      BY <2>2, <2>3 DEF ranks
    <3>2. ~(rank(z) < rank(other))
      BY <1>1, <3>1
    <3> QED
      BY <1>1, <1>2, <3>2
  <2> QED
    BY <2>4
<1> QED
  BY <1>3, <1>4

HasEnds(R, S) ==
  /\ \E z \in S : \A other \in S \ {z} : <<z, other>> \in R
  /\ \E z \in S : \A other \in S \ {z} : <<other, z>> \in R

LEMMA LeastAndGreatest ==
  ASSUME NEW R, NEW S, IsFiniteSet(S), StrictOrder(R, S), S # {}
  PROVE  HasEnds(R, S)
<1>1. S \in SUBSET S
  OBVIOUS
<1> QED
  BY <1>1, Extremes DEF HasEnds

\* A page is a beginning of the set.  It is everything if everything fits, and otherwise it
\* has a last element, and something is left behind it.
LEMMA Paging ==
  ASSUME NEW R, NEW S, IsFiniteSet(S), StrictOrder(R, S), NEW n \in Nat \ {0},
         NEW P, P = FirstOf(R, S, n)
  PROVE  /\ P \subseteq S
         /\ S # {} => P # {}
         /\ ~(Cardinality(S) > n) => P = S
         /\ Cardinality(S) > n => \E z : IsLast(R, P, z)
<1> DEFINE rank(k) == Cardinality(Ahead(R, S, k))
           size == Cardinality(S)
<1>1. /\ size \in Nat
      /\ \A k \in S : rank(k) \in Nat /\ rank(k) < size
  BY AheadGrows
<1>2. /\ P \subseteq S
      /\ \A k \in S : k \in P <=> rank(k) < n
  BY DEF FirstOf
<1>3. ASSUME S # {} PROVE P # {}
  <2>1. PICK k \in S : \A other \in S \ {k} : <<k, other>> \in R
    BY <1>3, Extremes
  <2>2. Ahead(R, S, k) = {}
    BY <2>1 DEF Ahead, StrictOrder
  <2>3. rank(k) = 0
    BY <2>2, FS_EmptySet
  <2> QED
    BY <1>2, <2>3
<1>4. ASSUME ~(size > n) PROVE P = S
  BY <1>1, <1>2, <1>4
<1>5. ASSUME size > n PROVE \E z : IsLast(R, P, z)
  <2>1. S # {}
    BY <1>5, FS_EmptySet
  <2>2. P \in SUBSET S /\ P # {}
    BY <1>2, <1>3, <2>1
  <2>3. \E z \in P : \A other \in P \ {z} : <<other, z>> \in R
    BY <2>2, Extremes
  <2> QED
    BY <2>3 DEF IsLast
<1> QED
  BY <1>2, <1>3, <1>4, <1>5

LEMMA PageEnd ==
  ASSUME NEW R, NEW S, IsFiniteSet(S), StrictOrder(R, S), NEW n \in Nat \ {0}, Cardinality(S) > n,
         NEW P, P = FirstOf(R, S, n), NEW z, IsLast(R, P, z)
  PROVE  /\ \A k \in S : k \in P <=> <<z, k>> \notin R
         /\ \E k \in S : <<z, k>> \in R
<1> DEFINE rank(k) == Cardinality(Ahead(R, S, k))
           size == Cardinality(S)
<1>1. /\ size \in Nat
      /\ \A k \in S : rank(k) \in Nat /\ rank(k) < size
      /\ \A j, k \in S : <<j, k>> \in R => rank(j) < rank(k)
  BY AheadGrows
<1>2. P \subseteq S /\ \A k \in S : k \in P <=> rank(k) < n
  BY DEF FirstOf
<1>3. z \in P /\ \A k \in P : k = z \/ <<k, z>> \in R
  BY DEF IsLast
<1>4. \A k \in S : k \in P <=> <<z, k>> \notin R
  <2> TAKE k \in S
  <2>1. ASSUME k \in P PROVE <<z, k>> \notin R
    BY <1>2, <1>3, <2>1 DEF StrictOrder
  <2>2. ASSUME <<z, k>> \notin R PROVE k \in P
    <3>1. k = z \/ <<k, z>> \in R
      BY <1>2, <1>3, <2>2 DEF StrictOrder
    <3>2. CASE <<k, z>> \in R
      <4>1. rank(k) < rank(z) /\ rank(z) < n /\ rank(k) \in Nat /\ rank(z) \in Nat
        BY <1>1, <1>2, <1>3, <3>2
      <4> QED
        BY <1>2, <4>1
    <3> QED
      BY <1>3, <3>1, <3>2
  <2> QED
    BY <2>1, <2>2
<1>5. \E k \in S : <<z, k>> \in R
  <2> SUFFICES ASSUME \A k \in S : <<z, k>> \notin R PROVE FALSE
    OBVIOUS
  <2>1. P = S
    BY <1>2, <1>4
  <2>2. Ahead(R, S, z) = S \ {z}
    BY <1>3, <2>1 DEF Ahead, StrictOrder
  <2>3. rank(z) = size - 1
    BY <1>3, <2>1, <2>2, FS_RemoveElement
  <2> QED
    BY <1>1, <1>2, <1>3, <2>3
<1> QED
  BY <1>4, <1>5

-----------------------------------------------------------------------------
(* The two orders of keys.                                                  *)

Keys(Id) == [start : Int, id : Id]

Older(a, b) == a.start < b.start \/ (a.start = b.start /\ a.id < b.id)

\* By time, for the spans of a trace, and against time, for the list of traces.
Rising(Id)  == {p \in Keys(Id) \X Keys(Id) : Older(p[1], p[2])}
Falling(Id) == {p \in Keys(Id) \X Keys(Id) : Older(p[2], p[1])}

LEMMA KeysAreOrdered ==
  ASSUME NEW Id \in SUBSET Nat, NEW S \in SUBSET Keys(Id)
  PROVE  /\ StrictOrder(Rising(Id), S) /\ StrictOrder(Falling(Id), S)
         /\ \A a, b \in Keys(Id) : /\ <<a, b>> \in Rising(Id) <=> Older(a, b)
                                   /\ <<a, b>> \in Falling(Id) <=> Older(b, a)
         /\ \A a, b, c \in Keys(Id) : Older(a, b) /\ Older(b, c) => Older(a, c)
<1>1. \A a, b \in Keys(Id) : /\ <<a, b>> \in Rising(Id) <=> Older(a, b)
                             /\ <<a, b>> \in Falling(Id) <=> Older(b, a)
  BY DEF Rising, Falling
<1>2. \A a, b, c \in Keys(Id) : Older(a, b) /\ Older(b, c) => Older(a, c)
  <2> TAKE a, b, c \in Keys(Id)
  <2>1. /\ a.start \in Int /\ b.start \in Int /\ c.start \in Int
        /\ a.id \in Nat /\ b.id \in Nat /\ c.id \in Nat
    BY DEF Keys
  <2> QED
    BY <2>1 DEF Older
<1>3. \A a \in Keys(Id) : ~Older(a, a)
  <2> TAKE a \in Keys(Id)
  <2>1. a.start \in Int /\ a.id \in Nat
    BY DEF Keys
  <2> QED
    BY <2>1 DEF Older
<1>4. \A a, b \in Keys(Id) : a # b => Older(a, b) \/ Older(b, a)
  <2> TAKE a, b \in Keys(Id)
  <2>1. /\ a.start \in Int /\ b.start \in Int /\ a.id \in Nat /\ b.id \in Nat
        /\ a = [start |-> a.start, id |-> a.id] /\ b = [start |-> b.start, id |-> b.id]
    BY DEF Keys
  <2> QED
    BY <2>1 DEF Older
<1> QED
  BY <1>1, <1>2, <1>3, <1>4 DEF StrictOrder

\* The values of a function on a finite set are finitely many.
LEMMA FiniteImage ==
  ASSUME NEW f, IsFiniteSet(DOMAIN f)
  PROVE  IsFiniteSet({f[x] : x \in DOMAIN f})
<1> DEFINE T == {f[x] : x \in DOMAIN f}
<1>1. ASSUME f \in [DOMAIN f -> T] PROVE IsFiniteSet(T)
  <2>1. f \in Surjection(DOMAIN f, T)
    BY <1>1 DEF Surjection
  <2> QED
    BY <2>1, FS_Surjection
<1>2. ASSUME f \notin [DOMAIN f -> T] PROVE IsFiniteSet(T)
  <2> DEFINE g == [x \in DOMAIN f |-> f[x]]
  <2>1. g \in Surjection(DOMAIN f, T)
    BY DEF Surjection
  <2> QED
    BY <2>1, FS_Surjection
<1> QED
  BY <1>1, <1>2

\* A cursor holds a key or nothing.
Cursors(Id) == {c \in Seq(Keys(Id)) : Len(c) <= 1}

\* What a cursor lets through, and what one that is given out keeps for later.
After(R, c, k)  == c = <<>> \/ <<c[1], k>> \in R
Beyond(R, c, k) == c # <<>> /\ <<c[1], k>> \in R
UpTo(R, c, k)   == c # <<>> => k = c[1] \/ <<k, c[1]>> \in R

LEMMA CursorIs ==
  ASSUME NEW Id
  PROVE  /\ <<>> \in Cursors(Id)
         /\ \A k \in Keys(Id) : <<k>> \in Cursors(Id) /\ <<k>> # <<>> /\ <<k>>[1] = k
         /\ \A c \in Cursors(Id) : c # <<>> => c[1] \in Keys(Id) /\ DOMAIN c = {1}
<1>1. <<>> \in Cursors(Id) /\ \A k \in Keys(Id) : <<k>> \in Cursors(Id) /\ <<k>> # <<>> /\ <<k>>[1] = k
  BY DEF Cursors
<1>2. ASSUME NEW c \in Cursors(Id), c # <<>>
      PROVE  c[1] \in Keys(Id) /\ DOMAIN c = {1}
  <2>1. c \in Seq(Keys(Id)) /\ Len(c) <= 1
    BY <1>2 DEF Cursors
  <2>2. Len(c) \in Nat /\ Len(c) # 0
    BY <1>2, <2>1, EmptySeq
  <2>3. Len(c) = 1
    <3> DEFINE l == Len(c)
    <3>1. l \in Nat /\ l # 0 /\ l <= 1
      BY <2>1, <2>2
    <3> HIDE DEF l
    <3>2. l = 1
      BY <3>1
    <3> QED
      BY <3>2 DEF l
  <2>4. DOMAIN c = 1..Len(c) /\ \A i \in 1..Len(c) : c[i] \in Keys(Id)
    BY <2>1
  <2>5. 1..1 = {1}
    OBVIOUS
  <2> QED
    BY <2>3, <2>4, <2>5
<1> QED
  BY <1>1, <1>2

\* The next cursor is the last key of a page, if anything is left.
IsNext(R, S, P, n, new) ==
  IF Cardinality(S) > n THEN new # <<>> /\ IsLast(R, P, new[1]) ELSE new = <<>>

\* P and the cursor new are what a request with the cursor c is answered with, if S is
\* what c lets through.
IsPage(Id, R, c, S, n, P, new) ==
  /\ R = Rising(Id) \/ R = Falling(Id)
  /\ c \in Cursors(Id) /\ n \in Nat \ {0}
  /\ S \subseteq Keys(Id) /\ IsFiniteSet(S) /\ \A k \in S : After(R, c, k)
  /\ P = FirstOf(R, S, n) /\ IsNext(R, S, P, n, new)

\* A page ends where the next one begins.
LEMMA NextPage ==
  ASSUME NEW Id \in SUBSET Nat, NEW R, NEW c, NEW S, NEW n, NEW P, NEW new,
         IsPage(Id, R, c, S, n, P, new)
  PROVE  /\ P \subseteq S
         /\ P = {} => S = {}
         /\ \A k \in S : k \in P <=> ~Beyond(R, new, k)
         /\ \A k \in Keys(Id) : Beyond(R, new, k) => After(R, c, k)
         /\ new # <<>> => \E k \in S : Beyond(R, new, k)
         /\ \A k \in P : UpTo(R, new, k)
<1> USE DEF IsPage
<1>1. StrictOrder(R, S)
  BY KeysAreOrdered
<1>2. /\ P \subseteq S
      /\ S # {} => P # {}
      /\ ~(Cardinality(S) > n) => P = S
  BY <1>1, Paging
<1>3. CASE Cardinality(S) > n
  <2>1. new # <<>> /\ IsLast(R, P, new[1])
    BY <1>3 DEF IsNext
  <2>2. /\ \A k \in S : k \in P <=> <<new[1], k>> \notin R
        /\ \E k \in S : <<new[1], k>> \in R
    <3> DEFINE z == new[1]
    <3>1. IsLast(R, P, z)
      BY <2>1
    <3> HIDE DEF z
    <3>2. /\ \A k \in S : k \in P <=> <<z, k>> \notin R
          /\ \E k \in S : <<z, k>> \in R
      BY <1>1, <1>3, <3>1, PageEnd
    <3> QED
      BY <3>2 DEF z
  <2>3. new[1] \in P /\ \A k \in P : k = new[1] \/ <<k, new[1]>> \in R
    BY <2>1 DEF IsLast
  <2>4. \A k \in Keys(Id) : <<new[1], k>> \in R => After(R, c, k)
    <3> SUFFICES ASSUME NEW k \in Keys(Id), <<new[1], k>> \in R, c # <<>> PROVE <<c[1], k>> \in R
      BY DEF After
    <3>1. c[1] \in Keys(Id) /\ new[1] \in Keys(Id) /\ <<c[1], new[1]>> \in R
      BY <1>2, <2>3, CursorIs DEF After
    <3>2. StrictOrder(R, Keys(Id))
      BY KeysAreOrdered
    <3> QED
      BY <3>1, <3>2 DEF StrictOrder
  <2> QED
    BY <1>2, <2>1, <2>2, <2>3, <2>4 DEF Beyond, UpTo
<1>4. CASE ~(Cardinality(S) > n)
  BY <1>2, <1>4 DEF Beyond, UpTo, IsNext
<1> QED
  BY <1>3, <1>4

LEMMA LastIsLast ==
  ASSUME NEW Id \in SUBSET Nat, NEW R, NEW c, NEW S, NEW n, NEW P, NEW new,
         IsPage(Id, R, c, S, n, P, new)
  PROVE  \A k \in P : UpTo(R, new, k)
BY NextPage, ZenonT(40)

\* The pages that a client has an item on.
Holding(item) == {i \in 1..Len(pages) : \E key \in pages[i] : key.id = item}

\* It has it on one page.
Got(item) == \E i \in 1..Len(pages) : Holding(item) = {i}

LEMMA OnePageMore ==
  ASSUME NEW Id, pages \in Seq(SUBSET Keys(Id)), NEW P \in SUBSET Keys(Id), pages' = Append(pages, P),
         NEW item
  PROVE  /\ pages' \in Seq(SUBSET Keys(Id))
         /\ (\E key \in P : key.id = item) /\ Holding(item) = {} => Got(item)'
         /\ ~(\E key \in P : key.id = item) => Holding(item)' = Holding(item) /\ (Got(item) => Got(item)')
<1> DEFINE n == Len(pages)
           more == Append(pages, P)
<1>1. /\ n \in Nat /\ more \in Seq(SUBSET Keys(Id)) /\ Len(more) = n + 1
      /\ more[n + 1] = P /\ \A i \in 1..n : more[i] = pages[i]
  OBVIOUS
<1>2. 1..Len(pages') = 1..(n + 1) /\ \A i \in 1..(n + 1) : i \in 1..n \/ i = n + 1
  BY <1>1
<1>3. /\ \A i \in 1..n : i \in Holding(item)' <=> i \in Holding(item)
      /\ n + 1 \in Holding(item)' <=> \E key \in P : key.id = item
  <2> HIDE DEF n, more
  <2>1. pages' = more
    BY DEF more
  <2>2. Holding(item)' = {i \in 1..(n + 1) : \E key \in more[i] : key.id = item}
    BY <1>2, <2>1 DEF Holding
  <2>3. Holding(item) = {i \in 1..n : \E key \in pages[i] : key.id = item}
    BY DEF Holding, n
  <2>4. n + 1 \in 1..(n + 1) /\ 1..n \subseteq 1..(n + 1)
    BY <1>1
  <2> QED
    BY <1>1, <2>2, <2>3, <2>4
<1>4. Holding(item)' \subseteq 1..(n + 1) /\ Holding(item) \subseteq 1..n
  BY <1>2 DEF Holding
<1>5. n + 1 \notin 1..n /\ n + 1 \in 1..Len(pages') /\ 1..n \subseteq 1..Len(pages')
  BY <1>1, <1>2
<1>6. ASSUME \E key \in P : key.id = item, Holding(item) = {} PROVE Got(item)'
  <2>1. Holding(item)' = {n + 1}
    <3> HIDE DEF n
    <3> QED
      BY <1>2, <1>3, <1>4, <1>5, <1>6
  <2> QED
    BY <1>5, <2>1 DEF Got
<1>7. ASSUME ~(\E key \in P : key.id = item)
      PROVE  Holding(item)' = Holding(item) /\ (Got(item) => Got(item)')
  <2>1. Holding(item)' = Holding(item)
    <3> HIDE DEF n
    <3> QED
      BY <1>2, <1>3, <1>4, <1>5, <1>7
  <2> QED
    BY <1>5, <2>1 DEF Got
<1> QED
  BY <1>1, <1>6, <1>7

-----------------------------------------------------------------------------
(* What holds while a client pages.                                         *)

\* No row of a trace is lost to the transaction.
KeepsRows ==
  InTx => \A t \in Trace, s \in Span : spans[t][s] # Absent => txSpans[t][s] # Absent

PagerTypes(Id) ==
  /\ stage \in {"new", "first", "next", "end"}
  /\ cursor \in Cursors(Id)
  /\ pages \in Seq(SUBSET Keys(Id))
  /\ steady \subseteq Id
  /\ stage \in {"new", "first"} => pages = <<>> /\ cursor = <<>>
  /\ stage = "next" => cursor # <<>>

SpanKey(s) == [start |-> spans[Wanted][s].start, id |-> s]
SpanThere(s) == spans[Wanted][s] # Absent

\* Of the steady spans the client has those that the cursor has passed, on one page each.
HasSpans ==
  \A s \in steady :
    IF SpanThere(s) /\ (stage = "end" \/ ~After(Rising(Span), cursor, SpanKey(s)))
    THEN Got(s) ELSE Holding(s) = {}

\* The handler brings those between its cursor and the next.
PageHolds ==
  handler = "paged" =>
    /\ stage \in {"first", "next"} /\ phase = "ready"
    /\ \E s \in Span : SpanThere(s)
    /\ \A s \in steady :
         /\ (\E key \in page : key.id = s) <=>
              /\ SpanThere(s)
              /\ After(Rising(Span), cursor, SpanKey(s)) /\ ~Beyond(Rising(Span), next, SpanKey(s))
         /\ SpanThere(s) /\ Beyond(Rising(Span), next, SpanKey(s))
              => After(Rising(Span), cursor, SpanKey(s))

\* A cursor that is given out has something behind it, if nothing changes.
SomethingLeft ==
  steady = Span =>
    /\ stage = "next" => \E s \in Span : SpanThere(s) /\ After(Rising(Span), cursor, SpanKey(s))
    /\ handler = "paged" /\ next # <<>> =>
         \E s \in Span : SpanThere(s) /\ Beyond(Rising(Span), next, SpanKey(s))

TraceInv ==
  /\ PagerTypes(Span)
  /\ handler \in {"idle", "paged"} /\ page \in SUBSET Keys(Span) /\ next \in Cursors(Span)
  /\ HasSpans /\ PageHolds /\ SomethingLeft
  /\ status # "500"
  /\ status = "404" => stage = "end" /\ (pages = <<>> \/ steady # Span)

RowKey(t) == [start |-> summaries[t].start, id |-> t]
Shown(t)  == Listing!Matches(t)

\* The same of the steady traces that match the filter.
HasTraces ==
  \A t \in steady :
    IF Shown(t) /\ (stage = "end" \/ ~After(Falling(Trace), cursor, RowKey(t)))
    THEN Got(t) ELSE Holding(t) = {}

\* What was received is ahead of what the cursor lets through.
InOrder ==
  /\ \A i, j \in 1..Len(pages) : i < j =>
       \A a \in pages[i], b \in pages[j] : <<a, b>> \in Falling(Trace)
  /\ stage = "next" =>
       \A i \in 1..Len(pages) : \A a \in pages[i] : UpTo(Falling(Trace), cursor, a)

ListInv == PagerTypes(Trace) /\ HasTraces /\ InOrder

-----------------------------------------------------------------------------
(* A client that reads one trace.                                           *)

\* The keys of the spans that are there.
LEMMA SpanKeys ==
  ASSUME StoreShape
  PROVE  LET All == {SpanKey(s) : s \in {x \in Span : SpanThere(x)}} IN
         /\ \A s \in Span : SpanThere(s) => SpanKey(s) \in Keys(Span) /\ SpanKey(s) \in All
         /\ All \in SUBSET Keys(Span) /\ IsFiniteSet(All)
         /\ \A s \in Span : SpanKey(s).id = s
<1> DEFINE All == {SpanKey(s) : s \in {x \in Span : SpanThere(x)}}
<1>1. ASSUME NEW s \in Span, SpanThere(s) PROVE SpanKey(s) \in Keys(Span)
  <2>1. spans[Wanted] \in Rows
    BY ReadsAssumption DEF StoreShape
  <2>2. spans[Wanted][s] \in Version
    BY <1>1, <2>1 DEF Rows, SpanThere
  <2> QED
    BY <2>2, ReadsAssumption DEF SpanKey, Keys
<1>2. IsFiniteSet(All)
  <2> DEFINE f == [s \in {x \in Span : SpanThere(x)} |-> SpanKey(s)]
  <2>1. IsFiniteSet({x \in Span : SpanThere(x)})
    <3>1. {x \in Span : SpanThere(x)} \in SUBSET Span
      OBVIOUS
    <3> QED
      BY <3>1, FS_Subset, ReadsAssumption
  <2>2. DOMAIN f = {x \in Span : SpanThere(x)} /\ All = {f[x] : x \in DOMAIN f}
    OBVIOUS
  <2> HIDE DEF f, All
  <2> QED
    BY <2>1, <2>2, FiniteImage
<1>3. \A s \in Span : SpanKey(s).id = s
  BY DEF SpanKey
<1> QED
  BY <1>1, <1>2, <1>3

\* What a page has, and what it leaves.
LEMMA TracePage ==
  ASSUME StoreShape, cursor \in Cursors(Span)
  PROVE  LET P == Detail!FirstPage  new == Detail!NextCursor  R == Rising(Span) IN
         /\ P \in SUBSET Keys(Span) /\ new \in Cursors(Span)
         /\ \A s \in Span : (\E key \in P : key.id = s) <=>
              SpanThere(s) /\ After(R, cursor, SpanKey(s)) /\ ~Beyond(R, new, SpanKey(s))
         /\ \A s \in Span : SpanThere(s) /\ Beyond(R, new, SpanKey(s)) => After(R, cursor, SpanKey(s))
         /\ new # <<>> => \E s \in Span : SpanThere(s) /\ Beyond(R, new, SpanKey(s))
         /\ P = {} => \A s \in Span : SpanThere(s) => ~After(R, cursor, SpanKey(s))
<1> DEFINE All  == {SpanKey(s) : s \in {x \in Span : SpanThere(x)}}
           rest == Detail!Rest
           P    == Detail!FirstPage
           z    == CHOOSE key \in P : \A other \in P \ {key} : Detail!Before(other, key)
           new  == Detail!NextCursor
           R    == Rising(Span)
<1>1. /\ \A s \in Span : SpanThere(s) => SpanKey(s) \in Keys(Span) /\ SpanKey(s) \in All
      /\ All \in SUBSET Keys(Span) /\ IsFiniteSet(All)
      /\ \A s \in Span : SpanKey(s).id = s
  BY SpanKeys
<1>2. Span \in SUBSET Nat /\ PageSize \in Nat \ {0}
  BY ReadsAssumption
<1>3. \A a, b \in Keys(Span) : <<a, b>> \in R <=> Detail!Before(a, b)
  BY <1>2, KeysAreOrdered DEF Detail!Before, Older
<1>4. \A k \in Keys(Span) : After(R, cursor, k) <=> Detail!AfterCursor(k)
  BY <1>3, CursorIs DEF Detail!AfterCursor, After
<1>5. \A k : k \in rest <=> k \in All /\ After(R, cursor, k)
  <2>1. All = {Detail!Key(s) : s \in Detail!Present(spans[Wanted])}
    BY DEF Detail!Key, Detail!Present, SpanKey, SpanThere
  <2> HIDE DEF All
  <2> QED
    BY <1>1, <1>4, <2>1 DEF Detail!Rest
<1>6. P = FirstOf(R, rest, PageSize)
  <2>1. rest \subseteq Keys(Span)
    BY <1>1, <1>5
  <2>2. \A key \in rest : {other \in rest : Detail!Before(other, key)} = Ahead(R, rest, key)
    BY <1>3, <2>1 DEF Ahead
  <2>3. \A key \in rest : Detail!Cardinality({other \in rest : Detail!Before(other, key)})
                            = Cardinality(Ahead(R, rest, key))
    BY <2>2, SameCardinality
  <2> QED
    BY <2>3 DEF FirstOf, Detail!FirstPage
<1>7. P \subseteq Keys(Span)
  BY <1>1, <1>5, <1>6 DEF FirstOf
<1>8. rest \in SUBSET Keys(Span) /\ IsFiniteSet(rest)
  <2>1. rest \in SUBSET All
    BY <1>5
  <2> HIDE DEF rest, All
  <2> QED
    BY <1>1, <2>1, FS_Subset
<1>9. IsNext(R, rest, P, PageSize, new)
  <2>1. \A y \in P : (\A other \in P \ {y} : Detail!Before(other, y)) <=> (\A other \in P \ {y} : <<other, y>> \in R)
    <3> HIDE DEF P
    <3> QED
      BY <1>3, <1>7
  <2>2. CASE Cardinality(rest) > PageSize
    <3>1. new = <<z>>
      BY <2>2, SameCardinality DEF Detail!NextCursor, Detail!HasMore
    <3>2. \E y : IsLast(R, P, y)
      <4> HIDE DEF rest, P, R
      <4>1. R = Rising(Span) \/ R = Falling(Span)
        BY DEF R
      <4>2. StrictOrder(R, rest)
        BY <1>2, <1>8, <4>1, KeysAreOrdered
      <4> QED
        BY <1>2, <1>6, <1>8, <2>2, <4>2, Paging
    <3>3. IsLast(R, P, z)
      <4> HIDE DEF P
      <4> QED
        BY <2>1, <3>2 DEF IsLast
    <3> QED
      BY <2>2, <3>1, <3>3 DEF IsNext
  <2>3. CASE ~(Cardinality(rest) > PageSize)
    BY <2>3, SameCardinality DEF IsNext, Detail!NextCursor, Detail!HasMore
  <2> QED
    BY <2>2, <2>3
<1> HIDE DEF All, rest, P, z, new
<1>10. /\ P \subseteq rest
       /\ P = {} => rest = {}
       /\ \A k \in rest : k \in P <=> ~Beyond(R, new, k)
       /\ \A k \in Keys(Span) : Beyond(R, new, k) => After(R, cursor, k)
       /\ new # <<>> => \E k \in rest : Beyond(R, new, k)
  <2>1. IsPage(Span, R, cursor, rest, PageSize, P, new)
    BY <1>2, <1>5, <1>6, <1>8, <1>9 DEF IsPage
  <2> HIDE DEF R
  <2>2. P \subseteq rest /\ (P = {} => rest = {})
    BY <1>2, <2>1, NextPage
  <2>3. \A k \in rest : k \in P <=> ~Beyond(R, new, k)
    BY <1>2, <2>1, NextPage
  <2>4. \A k \in Keys(Span) : Beyond(R, new, k) => After(R, cursor, k)
    BY <1>2, <2>1, NextPage
  <2>5. new # <<>> => \E k \in rest : Beyond(R, new, k)
    BY <1>2, <2>1, NextPage
  <2> QED
    BY <2>2, <2>3, <2>4, <2>5
<1>11. \A k \in All : \E s \in Span : SpanThere(s) /\ k = SpanKey(s)
  BY DEF All
<1> HIDE DEF R
<1>12. \A s \in Span : (\E key \in P : key.id = s) <=>
         SpanThere(s) /\ After(R, cursor, SpanKey(s)) /\ ~Beyond(R, new, SpanKey(s))
  <2> TAKE s \in Span
  <2>1. ASSUME NEW key \in P, key.id = s PROVE SpanThere(s) /\ SpanKey(s) = key
    BY <1>1, <1>5, <1>10, <1>11, <2>1
  <2> QED
    BY <1>1, <1>5, <1>10, <2>1
<1>13. \A s \in Span : SpanThere(s) /\ Beyond(R, new, SpanKey(s)) => After(R, cursor, SpanKey(s))
  BY <1>1, <1>10
<1>14. new # <<>> => \E s \in Span : SpanThere(s) /\ Beyond(R, new, SpanKey(s))
  BY <1>5, <1>10, <1>11
<1>15. P = {} => \A s \in Span : SpanThere(s) => ~After(R, cursor, SpanKey(s))
  BY <1>1, <1>5, <1>10
<1>16. P \in SUBSET Keys(Span) /\ new \in Cursors(Span)
  <2>1. CASE Cardinality(rest) > PageSize
    <3>1. new # <<>> /\ new[1] \in P
      BY <1>9, <2>1 DEF IsNext, IsLast
    <3>2. new = <<z>>
      BY <2>1, SameCardinality DEF Detail!NextCursor, Detail!HasMore, new, z, P, rest
    <3> QED
      BY <1>7, <3>1, <3>2, CursorIs
  <2>2. CASE ~(Cardinality(rest) > PageSize)
    BY <1>7, <1>9, <2>2, CursorIs DEF IsNext
  <2> QED
    BY <2>1, <2>2
<1> QED
  BY <1>12, <1>13, <1>14, <1>15, <1>16, Zenon DEF P, new, R

LEMMA NoPages == ASSUME pages = <<>>, NEW item PROVE Holding(item) = {} /\ ~Got(item)
BY DEF Holding, Got

\* Opening a trace starts afresh from what it finds, whatever was listed before.
LEMMA OpenTraceKeeps ==
  ASSUME StoreInv, TraceInv, Detail!OpenTrace
  PROVE  TraceInv'
<1>1. /\ stage = "new" /\ stage' = "first" /\ steady' = Span
      /\ UNCHANGED <<spans, handler, cursor, page, next, pages, status>>
  BY DEF Detail!OpenTrace, Detail!storeVars
<1>2. pages = <<>> /\ cursor = <<>> /\ handler = "idle" /\ status # "404" /\ status # "500"
  BY <1>1 DEF TraceInv, PagerTypes, PageHolds
<1>3. PagerTypes(Span)'
  BY <1>1, <1>2 DEF TraceInv, PagerTypes
<1>4. HasSpans'
  <2> SUFFICES ASSUME NEW s \in Span PROVE Holding(s)' = {} /\ After(Rising(Span), cursor, SpanKey(s))'
    BY <1>1 DEF HasSpans
  <2> QED
    BY <1>1, <1>2 DEF Holding, After
<1>5. PageHolds' /\ SomethingLeft'
  BY <1>1, <1>2 DEF PageHolds, SomethingLeft
<1> QED
  BY <1>1, <1>2, <1>3, <1>4, <1>5 DEF TraceInv

LEMMA ReadPageKeeps ==
  ASSUME StoreInv, TraceInv, Detail!ReadPage
  PROVE  TraceInv'
<1> DEFINE P == Detail!FirstPage
           new == Detail!NextCursor
           R == Rising(Span)
<1>1. /\ stage \in {"first", "next"} /\ phase = "ready" /\ handler = "idle"
      /\ page' = P /\ next' = new
      /\ UNCHANGED <<phase, spans, cursor, pages, steady>>
      /\ \/ P = {} /\ status' = "404" /\ stage' = "end" /\ handler' = handler
         \/ P # {} /\ handler' = "paged" /\ status' = status /\ stage' = stage
  BY DEF Detail!ReadPage, Detail!storeVars
<1>2. /\ P \in SUBSET Keys(Span) /\ new \in Cursors(Span)
      /\ \A s \in Span : (\E key \in P : key.id = s) <=>
           SpanThere(s) /\ After(R, cursor, SpanKey(s)) /\ ~Beyond(R, new, SpanKey(s))
      /\ \A s \in Span : SpanThere(s) /\ Beyond(R, new, SpanKey(s)) => After(R, cursor, SpanKey(s))
      /\ new # <<>> => \E s \in Span : SpanThere(s) /\ Beyond(R, new, SpanKey(s))
      /\ P = {} => \A s \in Span : SpanThere(s) => ~After(R, cursor, SpanKey(s))
  BY TracePage DEF StoreInv, TraceInv, PagerTypes
<1> HIDE DEF P, new
<1>3. /\ PagerTypes(Span)'
      /\ handler' \in {"idle", "paged"} /\ page' \in SUBSET Keys(Span) /\ next' \in Cursors(Span)
  BY <1>1, <1>2 DEF TraceInv, PagerTypes
<1>4. \A s : /\ SpanThere(s)' <=> SpanThere(s)
             /\ SpanKey(s)' = SpanKey(s)
             /\ Holding(s)' = Holding(s)
             /\ Got(s)' <=> Got(s)
             /\ After(R, cursor, SpanKey(s))' <=> After(R, cursor, SpanKey(s))
             /\ Beyond(R, next, SpanKey(s))' <=> Beyond(R, new, SpanKey(s))
  BY <1>1 DEF SpanThere, SpanKey, Holding, Got, After, Beyond
<1>5. steady \subseteq Span
  BY DEF TraceInv, PagerTypes
<1>6. CASE P = {}
  <2>1. HasSpans'
    BY <1>1, <1>2, <1>4, <1>5, <1>6 DEF HasSpans, TraceInv
  <2>2. PageHolds' /\ SomethingLeft'
    BY <1>1, <1>6 DEF PageHolds, SomethingLeft
  <2>3. pages = <<>> \/ steady # Span
    BY <1>1, <1>2, <1>6 DEF TraceInv, PagerTypes, SomethingLeft
  <2> QED
    BY <1>1, <1>3, <1>6, <2>1, <2>2, <2>3 DEF TraceInv
<1>7. CASE P # {}
  <2>1. HasSpans'
    BY <1>1, <1>4, <1>7 DEF HasSpans, TraceInv
  <2>2. \E s \in Span : SpanThere(s)
    <3>1. PICK key \in P : TRUE
      BY <1>7
    <3>2. key.id \in Span
      BY <1>2 DEF Keys
    <3> QED
      BY <1>2, <3>2
  <2>3. PageHolds'
    <3> SUFFICES ASSUME NEW s \in steady
                 PROVE  /\ (\E key \in P : key.id = s) <=>
                             SpanThere(s) /\ After(R, cursor, SpanKey(s)) /\ ~Beyond(R, new, SpanKey(s))
                        /\ SpanThere(s) /\ Beyond(R, new, SpanKey(s)) => After(R, cursor, SpanKey(s))
      BY <1>1, <1>4, <1>5, <1>7, <2>2 DEF PageHolds
    <3> QED
      BY <1>2, <1>5
  <2>4. SomethingLeft'
    <3>1. new # <<>> => \E s \in Span : SpanThere(s)' /\ Beyond(R, next, SpanKey(s))'
      BY <1>2, <1>4
    <3>2. steady = Span /\ stage = "next" => \E s \in Span : SpanThere(s)' /\ After(R, cursor, SpanKey(s))'
      BY <1>4 DEF TraceInv, SomethingLeft
    <3> QED
      BY <1>1, <1>7, <3>1, <3>2 DEF SomethingLeft
  <2>5. status' # "404" /\ status' # "500"
    BY <1>1, <1>7 DEF TraceInv
  <2> QED
    BY <1>3, <2>1, <2>3, <2>4, <2>5 DEF TraceInv
<1> QED
  BY <1>6, <1>7

\* The summary is there, because the spans are.
LEMMA ReadSummaryKeeps ==
  ASSUME StoreInv, TraceInv, Detail!ReadSummary
  PROVE  TraceInv'
<1> DEFINE R == Rising(Span)
<1>1. handler = "paged" /\ handler' = "idle" /\ UNCHANGED <<spans, page, next, steady>>
  BY DEF Detail!ReadSummary, Detail!storeVars
<1>2. /\ stage \in {"first", "next"} /\ phase = "ready"
      /\ \E s \in Span : SpanThere(s)
      /\ \A s \in steady :
           /\ (\E key \in page : key.id = s) <=>
                SpanThere(s) /\ After(R, cursor, SpanKey(s)) /\ ~Beyond(R, next, SpanKey(s))
           /\ SpanThere(s) /\ Beyond(R, next, SpanKey(s)) => After(R, cursor, SpanKey(s))
  BY <1>1 DEF TraceInv, PageHolds
<1>3. summaries[Wanted] # Absent
  <2>1. spans[Wanted] \in Rows /\ Wanted \in Trace
    BY ReadsAssumption DEF StoreInv, StoreShape
  <2>2. Present(spans[Wanted]) # {}
    BY <1>2 DEF Present, SpanThere
  <2>3. summaries[Wanted] = Summary(spans[Wanted])
    BY <1>2, <2>1 DEF StoreInv, SummaryShape
  <2> QED
    BY <2>1, <2>2, <2>3, ReadsAssumption
<1>4. /\ status' = "200" /\ pages' = Append(pages, page) /\ cursor' = next
      /\ stage' = IF next = <<>> THEN "end" ELSE "next"
  BY <1>3 DEF Detail!ReadSummary
<1>5. /\ pages \in Seq(SUBSET Keys(Span)) /\ page \in SUBSET Keys(Span) /\ next \in Cursors(Span)
      /\ steady \subseteq Span
  BY DEF TraceInv, PagerTypes
<1>6. /\ pages' \in Seq(SUBSET Keys(Span))
      /\ \A s : /\ (\E key \in page : key.id = s) /\ Holding(s) = {} => Got(s)'
                /\ ~(\E key \in page : key.id = s) => Holding(s)' = Holding(s) /\ (Got(s) => Got(s)')
  BY <1>4, <1>5, OnePageMore
<1>7. PagerTypes(Span)'
  BY <1>1, <1>4, <1>5, <1>6 DEF PagerTypes
<1>8. \A s : /\ SpanThere(s)' <=> SpanThere(s)
             /\ SpanKey(s)' = SpanKey(s)
             /\ After(R, cursor, SpanKey(s))' <=> (next = <<>> \/ Beyond(R, next, SpanKey(s)))
             /\ Beyond(R, next, SpanKey(s)) => next # <<>>
  BY <1>1, <1>4 DEF SpanThere, SpanKey, After, Beyond
<1>9. HasSpans'
  <2> SUFFICES ASSUME NEW s \in steady
               PROVE  IF SpanThere(s) /\ ~Beyond(R, next, SpanKey(s)) THEN Got(s)' ELSE Holding(s)' = {}
    BY <1>1, <1>4, <1>8 DEF HasSpans
  <2>1. IF SpanThere(s) /\ ~After(R, cursor, SpanKey(s)) THEN Got(s) ELSE Holding(s) = {}
    BY <1>2 DEF TraceInv, HasSpans
  <2> QED
    BY <1>2, <1>6, <2>1
<1>10. PageHolds' /\ SomethingLeft'
  <2>1. next # <<>> /\ steady = Span => \E s \in Span : SpanThere(s)' /\ After(R, cursor, SpanKey(s))'
    BY <1>1, <1>8 DEF TraceInv, SomethingLeft
  <2> QED
    BY <1>1, <1>4, <2>1 DEF PageHolds, SomethingLeft
<1> QED
  BY <1>1, <1>4, <1>5, <1>7, <1>9, <1>10 DEF TraceInv

\* The store takes away nothing from those spans that stay as they are.
LEMMA StoreKeepsTrace ==
  ASSUME StoreInv, KeepsRows, TraceInv, Detail!StoreMoves
  PROVE  TraceInv'
<1> DEFINE R == Rising(Span)
<1>1. /\ steady' = {s \in steady : spans'[Wanted][s] = spans[Wanted][s]}
      /\ handler' = (IF phase' = "ready" THEN handler ELSE "idle")
      /\ UNCHANGED <<stage, cursor, page, next, pages, status>>
  BY DEF Detail!StoreMoves
<1>2. StoreNext
  BY SameSteps DEF Detail!StoreMoves
<1>3. \A s \in Span : SpanThere(s) => SpanThere(s)'
  <2>1. Wanted \in Trace
    BY ReadsAssumption
  <2>2. spans' = spans \/ (spans' = txSpans /\ InTx)
    BY <1>2 DEF StoreNext, StoreStep, Migrate, txVars, Begin, Upsert, Summarise, Commit, AllStatementsDone,
       Rollback, Crash, InTx
  <2> QED
    BY <2>1, <2>2 DEF KeepsRows, SpanThere
<1>4. steady' \subseteq steady /\ steady \subseteq Span
  BY <1>1 DEF TraceInv, PagerTypes
<1>5. \A s : Holding(s)' = Holding(s) /\ (Got(s)' <=> Got(s))
  BY <1>1 DEF Holding, Got
<1>6. \A s \in steady' : /\ SpanThere(s)' <=> SpanThere(s)
                         /\ After(R, cursor, SpanKey(s))' <=> After(R, cursor, SpanKey(s))
                         /\ Beyond(R, next, SpanKey(s))' <=> Beyond(R, next, SpanKey(s))
  BY <1>1 DEF SpanThere, SpanKey, After, Beyond
<1>7. PagerTypes(Span)'
  BY <1>1, <1>4 DEF TraceInv, PagerTypes
<1>8. HasSpans'
  BY <1>1, <1>4, <1>5, <1>6 DEF TraceInv, HasSpans
<1>9. PageHolds'
  <2> SUFFICES ASSUME handler' = "paged" PROVE PageHolds'
    BY DEF PageHolds
  <2>1. handler = "paged" /\ phase' = "ready"
    BY <1>1
  <2>2. \E s \in Span : SpanThere(s)'
    BY <1>3, <2>1 DEF TraceInv, PageHolds
  <2>3. \A s \in steady' :
         /\ (\E key \in page : key.id = s) <=>
              SpanThere(s)' /\ After(R, cursor, SpanKey(s))' /\ ~Beyond(R, next, SpanKey(s))'
         /\ SpanThere(s)' /\ Beyond(R, next, SpanKey(s))' => After(R, cursor, SpanKey(s))'
    BY <1>4, <1>6, <2>1 DEF TraceInv, PageHolds
  <2> QED
    BY <1>1, <2>1, <2>2, <2>3 DEF TraceInv, PageHolds
<1>10. SomethingLeft'
  <2> SUFFICES ASSUME steady' = Span PROVE SomethingLeft'
    BY DEF SomethingLeft
  <2>1. steady = Span
    BY <1>4
  <2> QED
    BY <1>1, <1>6, <2>1 DEF TraceInv, SomethingLeft
<1>11. /\ handler' \in {"idle", "paged"} /\ status' # "500"
       /\ status' = "404" => stage' = "end" /\ (pages' = <<>> \/ steady' # Span)
  BY <1>1, <1>4 DEF TraceInv
<1> QED
  BY <1>1, <1>7, <1>8, <1>9, <1>10, <1>11 DEF TraceInv

-----------------------------------------------------------------------------
(* A client that lists the traces.                                          *)

\* A finite set of integers that is not empty has a least element.
LEMMA LeastInt ==
  ASSUME NEW S \in SUBSET Int, IsFiniteSet(S), S # {}
  PROVE  Min(S) \in S /\ \A y \in S : Min(S) <= y
<1> DEFINE R == {p \in Int \X Int : p[1] < p[2]}
<1>1. \A a, b \in Int : <<a, b>> \in R <=> a < b
  OBVIOUS
<1> HIDE DEF R
<1>2. StrictOrder(R, S)
  BY <1>1 DEF StrictOrder
<1>3. PICK z \in S : \A other \in S \ {z} : <<z, other>> \in R
  <2>1. HasEnds(R, S)
    BY <1>2, LeastAndGreatest
  <2> QED
    BY <2>1 DEF HasEnds
<1>4. \A y \in S : z <= y
  <2> TAKE y \in S
  <2>1. y \in Int /\ z \in Int /\ (y = z \/ z < y)
    BY <1>1, <1>3
  <2> QED
    BY <2>1
<1> QED
  BY <1>4 DEF Min

\* A summary starts with the first of its spans.
LEMMA SummaryStarts ==
  ASSUME StoreInv, NEW t \in Trace, summaries[t] # Absent
  PROVE  summaries[t].start \in Int
<1> DEFINE here == Present(spans[t])
           starts == {spans[t][s].start : s \in here}
<1>1. summaries[t] = Summary(spans[t]) /\ spans[t] \in Rows
  BY DEF StoreInv, SummaryShape, StoreShape
<1>2. here # {}
  BY <1>1 DEF Summary
<1>3. summaries[t].start = Min(starts)
  BY <1>1, <1>2 DEF Summary
<1>4. IsFiniteSet(here) /\ here \subseteq Span
  <2>1. here \in SUBSET Span
    BY DEF Present
  <2> HIDE DEF here
  <2> QED
    BY <2>1, FS_Subset, ReadsAssumption
<1>5. \A s \in here : spans[t][s].start \in Int
  BY <1>1, ReadsAssumption DEF Rows, Present
<1>6. IsFiniteSet(starts)
  <2> DEFINE f == [s \in here |-> spans[t][s].start]
  <2>1. DOMAIN f = here /\ starts = {f[x] : x \in DOMAIN f}
    OBVIOUS
  <2> HIDE DEF f, starts, here
  <2> QED
    BY <1>4, <2>1, FiniteImage
<1>7. starts \in SUBSET Int /\ starts # {}
  BY <1>2, <1>5
<1> HIDE DEF starts
<1> QED
  BY <1>3, <1>6, <1>7, LeastInt

\* The keys of the traces that match.
LEMMA RowKeys ==
  ASSUME StoreInv
  PROVE  LET All == {RowKey(t) : t \in {x \in Trace : Shown(x)}} IN
         /\ \A t \in Trace : Shown(t) => RowKey(t) \in Keys(Trace) /\ RowKey(t) \in All
         /\ All \in SUBSET Keys(Trace) /\ IsFiniteSet(All)
         /\ \A t \in Trace : RowKey(t).id = t
<1> DEFINE All == {RowKey(t) : t \in {x \in Trace : Shown(x)}}
<1>1. ASSUME NEW t \in Trace, Shown(t) PROVE RowKey(t) \in Keys(Trace)
  BY <1>1, SummaryStarts DEF Shown, Listing!Matches, RowKey, Keys
<1>2. IsFiniteSet(All)
  <2> DEFINE f == [t \in {x \in Trace : Shown(x)} |-> RowKey(t)]
  <2>1. IsFiniteSet({x \in Trace : Shown(x)})
    <3>1. {x \in Trace : Shown(x)} \in SUBSET Trace
      OBVIOUS
    <3> QED
      BY <3>1, FS_Subset, ReadsAssumption
  <2>2. DOMAIN f = {x \in Trace : Shown(x)} /\ All = {f[x] : x \in DOMAIN f}
    OBVIOUS
  <2> HIDE DEF f, All
  <2> QED
    BY <2>1, <2>2, FiniteImage
<1>3. \A t \in Trace : RowKey(t).id = t
  BY DEF RowKey
<1> QED
  BY <1>1, <1>2, <1>3

\* What a page has, and what it leaves.
LEMMA ListPage ==
  ASSUME StoreInv, cursor \in Cursors(Trace)
  PROVE  LET P == Listing!Page  new == Listing!NextCursor  R == Falling(Trace) IN
         /\ P \in SUBSET Keys(Trace) /\ new \in Cursors(Trace)
         /\ new = <<>> <=> ~Listing!HasMore
         /\ \A t \in Trace : (\E key \in P : key.id = t) <=>
              Shown(t) /\ After(R, cursor, RowKey(t)) /\ ~Beyond(R, new, RowKey(t))
         /\ \A t \in Trace : Shown(t) /\ Beyond(R, new, RowKey(t)) => After(R, cursor, RowKey(t))
         /\ \A k \in P : After(R, cursor, k) /\ UpTo(R, new, k)
         /\ new # <<>> => After(R, cursor, new[1])
<1> DEFINE All  == {RowKey(t) : t \in {x \in Trace : Shown(x)}}
           rest == Listing!Rest
           P    == Listing!Page
           z    == CHOOSE key \in P : \A other \in P \ {key} : Listing!Newer(other, key)
           new  == Listing!NextCursor
           R    == Falling(Trace)
<1>1. /\ \A t \in Trace : Shown(t) => RowKey(t) \in Keys(Trace) /\ RowKey(t) \in All
      /\ All \in SUBSET Keys(Trace) /\ IsFiniteSet(All)
      /\ \A t \in Trace : RowKey(t).id = t
  BY RowKeys
<1>2. Trace \in SUBSET Nat /\ Limit \in Nat \ {0}
  BY ReadsAssumption, StoreAssumption
<1>3. \A a, b \in Keys(Trace) : <<a, b>> \in R <=> Listing!Newer(a, b)
  <2> TAKE a, b \in Keys(Trace)
  <2>1. <<a, b>> \in R <=> Older(b, a)
    BY <1>2, KeysAreOrdered
  <2>2. a.start \in Int /\ b.start \in Int /\ a.id \in Nat /\ b.id \in Nat
    BY <1>2 DEF Keys
  <2> QED
    BY <2>1, <2>2 DEF Listing!Newer, Older
<1>4. \A k \in Keys(Trace) : After(R, cursor, k) <=> Listing!AfterCursor(k)
  BY <1>3, CursorIs DEF Listing!AfterCursor, After
<1>5. \A k : k \in rest <=> k \in All /\ After(R, cursor, k)
  <2>1. All = {Listing!KeyOf(t) : t \in {u \in Trace : Listing!Matches(u)}}
    BY DEF Listing!KeyOf, RowKey, Shown
  <2> HIDE DEF All
  <2> QED
    BY <1>1, <1>4, <2>1 DEF Listing!Rest
<1>6. P = FirstOf(R, rest, Limit)
  <2>1. rest \subseteq Keys(Trace)
    BY <1>1, <1>5
  <2>2. \A key \in rest : {other \in rest : Listing!Newer(other, key)} = Ahead(R, rest, key)
    BY <1>3, <2>1 DEF Ahead
  <2>3. \A key \in rest : Listing!Cardinality({other \in rest : Listing!Newer(other, key)})
                            = Cardinality(Ahead(R, rest, key))
    BY <2>2, SameCardinality
  <2> QED
    BY <2>3 DEF FirstOf, Listing!Page
<1>7. P \subseteq Keys(Trace)
  BY <1>1, <1>5, <1>6 DEF FirstOf
<1>8. rest \in SUBSET Keys(Trace) /\ IsFiniteSet(rest)
  <2>1. rest \in SUBSET All
    BY <1>5
  <2> HIDE DEF rest, All
  <2> QED
    BY <1>1, <2>1, FS_Subset
<1>9. IsNext(R, rest, P, Limit, new)
  <2>1. \A y \in P : (\A other \in P \ {y} : Listing!Newer(other, y)) <=> (\A other \in P \ {y} : <<other, y>> \in R)
    <3> HIDE DEF P
    <3> QED
      BY <1>3, <1>7
  <2>2. CASE Cardinality(rest) > Limit
    <3>1. new = <<z>>
      BY <2>2, SameCardinality DEF Listing!NextCursor, Listing!HasMore
    <3>2. \E y : IsLast(R, P, y)
      <4> HIDE DEF rest, P, R
      <4>1. R = Rising(Trace) \/ R = Falling(Trace)
        BY DEF R
      <4>2. StrictOrder(R, rest)
        BY <1>2, <1>8, <4>1, KeysAreOrdered
      <4> QED
        BY <1>2, <1>6, <1>8, <2>2, <4>2, Paging
    <3>3. IsLast(R, P, z)
      <4> HIDE DEF P
      <4> QED
        BY <2>1, <3>2 DEF IsLast
    <3> QED
      BY <2>2, <3>1, <3>3 DEF IsNext
  <2>3. CASE ~(Cardinality(rest) > Limit)
    BY <2>3, SameCardinality DEF IsNext, Listing!NextCursor, Listing!HasMore
  <2> QED
    BY <2>2, <2>3
<1>10. new = <<>> <=> ~Listing!HasMore
  BY <1>9, SameCardinality DEF IsNext, Listing!HasMore
<1> HIDE DEF All, rest, P, z, new
<1>11. /\ P \subseteq rest
       /\ \A k \in rest : k \in P <=> ~Beyond(R, new, k)
       /\ \A k \in Keys(Trace) : Beyond(R, new, k) => After(R, cursor, k)
       /\ \A k \in P : UpTo(R, new, k)
  <2>1. IsPage(Trace, R, cursor, rest, Limit, P, new)
    BY <1>2, <1>5, <1>6, <1>8, <1>9 DEF IsPage
  <2> HIDE DEF R
  <2>2. P \subseteq rest
    BY <1>2, <2>1, NextPage, ZenonT(40)
  <2>3. \A k \in rest : k \in P <=> ~Beyond(R, new, k)
    BY <1>2, <2>1, NextPage, ZenonT(40)
  <2>4. \A k \in Keys(Trace) : Beyond(R, new, k) => After(R, cursor, k)
    BY <1>2, <2>1, NextPage, ZenonT(40)
  <2>5. \A k \in P : UpTo(R, new, k)
    BY <1>2, <2>1, LastIsLast
  <2> QED
    BY <2>2, <2>3, <2>4, <2>5
<1>12. \A k \in All : \E t \in Trace : Shown(t) /\ k = RowKey(t)
  BY DEF All
<1> HIDE DEF R
<1>13. \A t \in Trace : (\E key \in P : key.id = t) <=>
         Shown(t) /\ After(R, cursor, RowKey(t)) /\ ~Beyond(R, new, RowKey(t))
  <2> TAKE t \in Trace
  <2>1. ASSUME NEW key \in P, key.id = t PROVE Shown(t) /\ RowKey(t) = key
    BY <1>1, <1>5, <1>11, <1>12, <2>1
  <2> QED
    BY <1>1, <1>5, <1>11, <2>1
<1>14. \A t \in Trace : Shown(t) /\ Beyond(R, new, RowKey(t)) => After(R, cursor, RowKey(t))
  BY <1>1, <1>11
<1>15. \A k \in P : After(R, cursor, k) /\ UpTo(R, new, k)
  BY <1>5, <1>11
<1>16. /\ P \in SUBSET Keys(Trace) /\ new \in Cursors(Trace)
       /\ new # <<>> => After(R, cursor, new[1])
  <2>1. CASE Cardinality(rest) > Limit
    <3>1. new # <<>> /\ new[1] \in P
      BY <1>9, <2>1 DEF IsNext, IsLast
    <3>2. new = <<z>>
      BY <2>1, SameCardinality DEF Listing!NextCursor, Listing!HasMore, new, z, P, rest
    <3> QED
      BY <1>7, <1>15, <3>1, <3>2, CursorIs
  <2>2. CASE ~(Cardinality(rest) > Limit)
    BY <1>7, <1>9, <2>2, CursorIs DEF IsNext
  <2> QED
    BY <2>1, <2>2
<1> QED
  BY <1>10, <1>13, <1>14, <1>15, <1>16, Zenon DEF P, new, R

LEMMA StartListingKeeps ==
  ASSUME ListInv, NEW f, Listing!StartListing(f)
  PROVE  ListInv'
<1>1. /\ stage = "new" /\ stage' = "first" /\ steady' = Trace
      /\ UNCHANGED <<cursor, pages>>
  BY DEF Listing!StartListing, Listing!storeVars
<1>2. pages = <<>> /\ cursor = <<>>
  BY <1>1 DEF ListInv, PagerTypes
<1>3. PagerTypes(Trace)'
  BY <1>1, <1>2 DEF ListInv, PagerTypes
<1>4. HasTraces'
  <2> SUFFICES ASSUME NEW t \in Trace PROVE Holding(t)' = {} /\ After(Falling(Trace), cursor, RowKey(t))'
    BY <1>1 DEF HasTraces
  <2> QED
    BY <1>1, <1>2 DEF Holding, After
<1>5. InOrder'
  BY <1>1, <1>2 DEF InOrder
<1> QED
  BY <1>3, <1>4, <1>5 DEF ListInv

LEMMA GetPageKeeps ==
  ASSUME StoreInv, ListInv, Listing!GetPage
  PROVE  ListInv'
<1> DEFINE P == Listing!Page
           new == Listing!NextCursor
           R == Falling(Trace)
<1>1. /\ stage \in {"first", "next"} /\ pages' = Append(pages, P) /\ cursor' = new
      /\ stage' = (IF Listing!HasMore THEN "next" ELSE "end")
      /\ UNCHANGED <<spans, summaries, filter, steady>>
  BY DEF Listing!GetPage, Listing!storeVars
<1>2. pages \in Seq(SUBSET Keys(Trace)) /\ cursor \in Cursors(Trace) /\ steady \subseteq Trace
  BY DEF ListInv, PagerTypes
<1>3. /\ P \in SUBSET Keys(Trace) /\ new \in Cursors(Trace)
      /\ new = <<>> <=> ~Listing!HasMore
      /\ \A t \in Trace : (\E key \in P : key.id = t) <=>
           Shown(t) /\ After(R, cursor, RowKey(t)) /\ ~Beyond(R, new, RowKey(t))
      /\ \A t \in Trace : Shown(t) /\ Beyond(R, new, RowKey(t)) => After(R, cursor, RowKey(t))
      /\ \A k \in P : After(R, cursor, k) /\ UpTo(R, new, k)
      /\ new # <<>> => After(R, cursor, new[1])
  BY <1>2, ListPage
<1> HIDE DEF P, new
<1>4. /\ pages' \in Seq(SUBSET Keys(Trace))
      /\ \A t : /\ (\E key \in P : key.id = t) /\ Holding(t) = {} => Got(t)'
                /\ ~(\E key \in P : key.id = t) => Holding(t)' = Holding(t) /\ (Got(t) => Got(t)')
  BY <1>1, <1>2, <1>3, OnePageMore
<1>5. stage' = IF new = <<>> THEN "end" ELSE "next"
  BY <1>1, <1>3
<1>6. PagerTypes(Trace)'
  BY <1>1, <1>2, <1>3, <1>4, <1>5 DEF PagerTypes
<1>7. HasTraces'
  <2>1. \A t : /\ Shown(t)' <=> Shown(t)
               /\ RowKey(t)' = RowKey(t)
               /\ After(R, cursor, RowKey(t))' <=> (new = <<>> \/ Beyond(R, new, RowKey(t)))
               /\ Beyond(R, new, RowKey(t)) => new # <<>>
    BY <1>1 DEF Shown, Listing!Matches, Listing!HasStatus, Listing!HasKind, RowKey, After, Beyond
  <2> SUFFICES ASSUME NEW t \in steady
               PROVE  IF Shown(t) /\ ~Beyond(R, new, RowKey(t)) THEN Got(t)' ELSE Holding(t)' = {}
    BY <1>1, <1>5, <2>1 DEF HasTraces
  <2>2. IF Shown(t) /\ ~After(R, cursor, RowKey(t)) THEN Got(t) ELSE Holding(t) = {}
    BY <1>1 DEF ListInv, HasTraces
  <2> QED
    BY <1>2, <1>3, <1>4, <2>2
<1>8. InOrder'
  <2> DEFINE n == Len(pages)
             more == Append(pages, P)
  <2>1. /\ n \in Nat /\ Len(more) = n + 1
        /\ more[n + 1] = P /\ \A i \in 1..n : more[i] = pages[i] /\ pages[i] \subseteq Keys(Trace)
    BY <1>2, <1>3
  <2>2. pages' = more
    BY <1>1
  <2>3. StrictOrder(R, Keys(Trace))
    <3>1. Trace \in SUBSET Nat
      BY StoreAssumption
    <3> QED
      BY <3>1, KeysAreOrdered
  <2>4. 1..Len(pages') = 1..(n + 1) /\ \A i \in 1..(n + 1) : i \in 1..n \/ i = n + 1
    BY <2>1, <2>2
  <2>5. n = 0 \/ (stage = "next" /\ cursor # <<>> /\ cursor[1] \in Keys(Trace))
    BY <1>1, <1>2, CursorIs DEF ListInv, PagerTypes
  <2>6. /\ \A i, j \in 1..n : i < j => \A a \in pages[i], b \in pages[j] : <<a, b>> \in R
        /\ stage = "next" => \A i \in 1..n : \A a \in pages[i] : UpTo(R, cursor, a)
    BY DEF ListInv, InOrder
  <2> HIDE DEF n, more
  <2>7. ASSUME NEW i \in 1..n, NEW a \in more[i], NEW b \in Keys(Trace), After(R, cursor, b)
        PROVE  <<a, b>> \in R
    <3>1. stage = "next" /\ cursor # <<>> /\ cursor[1] \in Keys(Trace) /\ a \in Keys(Trace)
      BY <2>1, <2>5, <2>7
    <3>2. a = cursor[1] \/ <<a, cursor[1]>> \in R
      BY <2>1, <2>6, <3>1 DEF UpTo
    <3>3. <<cursor[1], b>> \in R
      BY <2>7, <3>1 DEF After
    <3> QED
      BY <2>3, <3>1, <3>2, <3>3 DEF StrictOrder
  <2>8. \A i, j \in 1..(n + 1) : i < j => \A a \in more[i], b \in more[j] : <<a, b>> \in R
    <3> SUFFICES ASSUME NEW i \in 1..(n + 1), NEW j \in 1..(n + 1), i < j, NEW a \in more[i], NEW b \in more[j]
                 PROVE  <<a, b>> \in R
      OBVIOUS
    <3>1. i \in 1..n
      BY <2>1
    <3>2. CASE j \in 1..n
      BY <2>1, <2>6, <3>1, <3>2
    <3>3. CASE j = n + 1
      BY <1>3, <2>1, <2>7, <3>1, <3>3
    <3> QED
      BY <2>4, <3>2, <3>3
  <2>9. ASSUME new # <<>>, NEW i \in 1..(n + 1), NEW a \in more[i]
        PROVE  UpTo(R, new, a)
    <3>1. CASE i \in 1..n
      <4>1. new[1] \in Keys(Trace) /\ After(R, cursor, new[1])
        BY <1>3, <2>9, CursorIs
      <4> QED
        BY <2>7, <2>9, <3>1, <4>1 DEF UpTo
    <3>2. CASE i = n + 1
      BY <1>3, <2>1, <2>9, <3>2
    <3> QED
      BY <2>4, <3>1, <3>2
  <2> QED
    BY <1>1, <1>5, <2>2, <2>4, <2>8, <2>9 DEF InOrder
<1> QED
  BY <1>6, <1>7, <1>8 DEF ListInv

LEMMA StoreKeepsList ==
  ASSUME ListInv, Listing!StoreMoves
  PROVE  ListInv'
<1> DEFINE R == Falling(Trace)
<1>1. /\ steady' = {t \in steady : summaries'[t] = summaries[t] /\ (Shown(t)' <=> Shown(t))}
      /\ UNCHANGED <<filter, stage, cursor, pages>>
  BY DEF Listing!StoreMoves, Shown
<1>2. \A t : Holding(t)' = Holding(t) /\ (Got(t)' <=> Got(t))
  BY <1>1 DEF Holding, Got
<1>3. \A t \in steady' : /\ t \in steady /\ (Shown(t)' <=> Shown(t))
                         /\ After(R, cursor, RowKey(t))' <=> After(R, cursor, RowKey(t))
  BY <1>1 DEF RowKey, After
<1>4. PagerTypes(Trace)'
  BY <1>1 DEF ListInv, PagerTypes
<1>5. HasTraces'
  BY <1>1, <1>2, <1>3 DEF ListInv, HasTraces
<1>6. InOrder'
  BY <1>1 DEF ListInv, InOrder
<1> QED
  BY <1>4, <1>5, <1>6 DEF ListInv

-----------------------------------------------------------------------------
(* The dashboard's sample of the latencies.                                 *)

IsBag(B) == B \in [DOMAIN B -> Nat \ {0}]
Copies(B, l) == IF l \in DOMAIN B THEN B[l] ELSE 0

\* The places of a value in a sequence, and their number.
Places(seq, l) == {i \in DOMAIN seq : seq[i] = l}
Count(seq, l)  == Cardinality(Places(seq, l))

\* While there is room every row that was returned is in the sample; after that rows are
\* missing, and no row is there twice.
SampleFits ==
  /\ sample \in Seq(DOMAIN snapshot) /\ DOMAIN rows \subseteq DOMAIN snapshot
  /\ \A l \in DOMAIN snapshot : Count(sample, l) + Copies(rows, l) <= snapshot[l]
  /\ seen <= MaxSamples =>
       /\ Len(sample) = seen
       /\ \A l \in DOMAIN snapshot : Count(sample, l) + Copies(rows, l) = snapshot[l]
  /\ seen > MaxSamples =>
       /\ Len(sample) = MaxSamples
       /\ \E l \in DOMAIN snapshot : Count(sample, l) + Copies(rows, l) < snapshot[l]

BoardInv ==
  /\ stage \in {"idle", "count", "query", "scan", "usage", "done"}
  /\ seen \in Nat /\ IsBag(rows) /\ IsBag(snapshot)
  /\ stage \in {"idle", "count", "query"} => sample = <<>> /\ seen = 0
  /\ stage \in {"scan", "usage", "done"} => SampleFits
  /\ stage \in {"usage", "done"} => DOMAIN rows = {} /\ (latency.sampled <=> seen > MaxSamples)

LEMMA CountType ==
  ASSUME NEW D, NEW seq \in Seq(D), NEW l
  PROVE  /\ Count(seq, l) \in Nat /\ IsFiniteSet(Places(seq, l))
         /\ Count(seq, l) = 0 <=> \A i \in 1..Len(seq) : seq[i] # l
<1>1. Len(seq) \in Nat /\ DOMAIN seq = 1..Len(seq)
  OBVIOUS
<1>2. IsFiniteSet(1..Len(seq))
  BY <1>1, FS_Interval
<1>3. Places(seq, l) \in SUBSET (1..Len(seq))
  BY <1>1 DEF Places
<1>4. IsFiniteSet(Places(seq, l))
  BY <1>2, <1>3, FS_Subset
<1>5. Count(seq, l) = 0 <=> Places(seq, l) = {}
  BY <1>4, FS_EmptySet DEF Count
<1> QED
  BY <1>1, <1>4, <1>5, FS_CardinalityType DEF Count, Places

LEMMA CountNone == \A l : Count(<<>>, l) = 0
<1>1. \A l : Places(<<>>, l) = {}
  BY DEF Places
<1> QED
  BY <1>1, FS_EmptySet DEF Count

LEMMA CountAppend ==
  ASSUME NEW D, NEW seq \in Seq(D), NEW x \in D, NEW l
  PROVE  Count(Append(seq, x), l) = IF x = l THEN Count(seq, l) + 1 ELSE Count(seq, l)
<1> DEFINE n == Len(seq)
           more == Append(seq, x)
<1>1. /\ n \in Nat /\ DOMAIN seq = 1..n /\ DOMAIN more = 1..(n + 1)
      /\ more[n + 1] = x /\ \A i \in 1..n : more[i] = seq[i]
  OBVIOUS
<1>2. \A i : i \in 1..(n + 1) <=> i \in 1..n \/ i = n + 1
  BY <1>1
<1>3. n + 1 \notin 1..n
  BY <1>1
<1>4. IsFiniteSet(Places(seq, l)) /\ n + 1 \notin Places(seq, l)
  <2>1. n + 1 \notin Places(seq, l)
    BY <1>1, <1>3 DEF Places
  <2>2. IsFiniteSet(Places(seq, l))
    BY CountType
  <2> QED
    BY <2>1, <2>2
<1> HIDE DEF n, more
<1>5. Places(more, l) = IF x = l THEN Places(seq, l) \cup {n + 1} ELSE Places(seq, l)
  BY <1>1, <1>2, <1>3 DEF Places
<1>6. Cardinality(Places(seq, l) \cup {n + 1}) = Cardinality(Places(seq, l)) + 1
  BY <1>4, FS_AddElement
<1>7. Count(more, l) = IF x = l THEN Count(seq, l) + 1 ELSE Count(seq, l)
  BY <1>5, <1>6 DEF Count
<1> QED
  BY <1>7 DEF more

LEMMA CountReplace ==
  ASSUME NEW D, NEW seq \in Seq(D), NEW x \in D, NEW i \in 1..Len(seq), NEW l
  PROVE  Count([seq EXCEPT ![i] = x], l) =
           Count(seq, l) + (IF x = l THEN 1 ELSE 0) - (IF seq[i] = l THEN 1 ELSE 0)
<1> DEFINE new == [seq EXCEPT ![i] = x]
<1>1. /\ DOMAIN new = DOMAIN seq /\ i \in DOMAIN seq
      /\ new[i] = x /\ \A j \in DOMAIN seq : j # i => new[j] = seq[j]
  OBVIOUS
<1>2. IsFiniteSet(Places(seq, l)) /\ Count(seq, l) \in Nat
  BY CountType
<1>3. i \in Places(seq, l) <=> seq[i] = l
  BY <1>1 DEF Places
<1> HIDE DEF new
<1>4. CASE x # l
  <2>1. Places(new, l) = Places(seq, l) \ {i}
    BY <1>1, <1>4 DEF Places
  <2>2. Count(new, l) = IF seq[i] = l THEN Count(seq, l) - 1 ELSE Count(seq, l)
    BY <1>2, <1>3, <2>1, FS_RemoveElement DEF Count
  <2> QED
    BY <1>2, <1>4, <2>2 DEF new
<1>5. CASE x = l
  <2>1. Places(new, l) = Places(seq, l) \cup {i}
    BY <1>1, <1>5 DEF Places
  <2>2. Count(new, l) = IF seq[i] = l THEN Count(seq, l) ELSE Count(seq, l) + 1
    BY <1>2, <1>3, <2>1, FS_AddElement DEF Count
  <2> QED
    BY <1>2, <1>5, <2>2 DEF new
<1> QED
  BY <1>4, <1>5

LEMMA GoneKeeps == Dash!RequestGone => BoardInv'
<1> SUFFICES ASSUME Dash!RequestGone PROVE BoardInv'
  OBVIOUS
<1>1. /\ stage' = "idle" /\ DOMAIN rows' = {} /\ seen' = 0 /\ sample' = <<>> /\ DOMAIN snapshot' = {}
      /\ rows' = Dash!EmptyBag /\ snapshot' = Dash!EmptyBag
  BY DEF Dash!RequestGone, Dash!EmptyBag, Dash!SetToBag
<1>2. Dash!EmptyBag \in [{} -> Nat \ {0}]
  BY DEF Dash!EmptyBag, Dash!SetToBag
<1> QED
  BY <1>1, <1>2 DEF BoardInv, IsBag

\* The statement returns all latencies of one moment.
LEMMA QueryKeeps ==
  ASSUME BoardInv, Dash!Query
  PROVE  BoardInv'
<1> DEFINE lat == {Dash!Latency(t) : t \in Dash!Listed}
<1>1. /\ stage = "query" /\ stage' = "scan"
      /\ rows' = [l \in lat |-> Dash!Cardinality({t \in Dash!Listed : Dash!Latency(t) = l})]
      /\ snapshot' = rows' /\ UNCHANGED <<seen, sample>>
  BY DEF Dash!Query
<1>2. IsFiniteSet(Dash!Listed)
  <2>1. Dash!Listed \in SUBSET Trace
    BY DEF Dash!Listed
  <2> QED
    BY <2>1, FS_Subset, ReadsAssumption
<1>3. \A l \in lat : Dash!Cardinality({t \in Dash!Listed : Dash!Latency(t) = l}) \in Nat \ {0}
  <2> TAKE l \in lat
  <2> DEFINE T == {t \in Dash!Listed : Dash!Latency(t) = l}
  <2>1. T \in SUBSET Dash!Listed /\ T # {}
    OBVIOUS
  <2> HIDE DEF T
  <2>2. IsFiniteSet(T)
    BY <1>2, <2>1, FS_Subset
  <2>3. Cardinality(T) \in Nat /\ Cardinality(T) # 0
    BY <2>1, <2>2, FS_CardinalityType, FS_EmptySet
  <2>4. Dash!Cardinality(T) \in Nat \ {0}
    BY <2>3, SameCardinality
  <2> QED
    BY <2>4 DEF T
<1>4. IsBag(rows') /\ IsBag(snapshot')
  BY <1>1, <1>3 DEF IsBag
<1>5. sample = <<>> /\ seen = 0 /\ MaxSamples \in Nat \ {0}
  BY <1>1, ReadsAssumption DEF BoardInv
<1>6. SampleFits'
  <2>1. sample' \in Seq(DOMAIN snapshot') /\ sample' = <<>> /\ Len(sample') = 0 /\ seen' = 0
    BY <1>1, <1>5
  <2>2. \A l \in DOMAIN snapshot' : Count(sample', l) = 0
    BY <2>1, CountNone
  <2>3. \A l \in DOMAIN snapshot' : Copies(rows', l) = snapshot'[l] /\ snapshot'[l] \in Nat
    BY <1>1, <1>4 DEF Copies, IsBag
  <2> QED
    BY <1>1, <1>5, <2>1, <2>2, <2>3 DEF SampleFits
<1> QED
  BY <1>1, <1>4, <1>5, <1>6 DEF BoardInv

\* One row less is left.
LEMMA OneRowLess ==
  ASSUME IsBag(rows), NEW l \in DOMAIN rows, rows' = Dash!\ominus(rows, Dash!SetToBag({l}))
  PROVE  /\ IsBag(rows') /\ DOMAIN rows' \subseteq DOMAIN rows
         /\ Copies(rows, l) \in Nat /\ Copies(rows', l) = Copies(rows, l) - 1
         /\ \A k : k # l => Copies(rows', k) = Copies(rows, k)
         /\ \A k : Copies(rows, k) \in Nat /\ Copies(rows', k) \in Nat
<1> DEFINE B == [e \in DOMAIN rows |-> IF e = l THEN rows[e] - 1 ELSE rows[e]]
<1>1. rows' = [e \in {d \in DOMAIN rows : B[d] > 0} |-> B[e]]
  BY DEF Dash!\ominus, Dash!SetToBag
<1>2. \A e \in DOMAIN rows : rows[e] \in Nat \ {0}
  BY DEF IsBag
<1>3. \A e \in DOMAIN rows : B[e] = (IF e = l THEN rows[e] - 1 ELSE rows[e]) /\ B[e] \in Nat
  BY <1>2
<1> HIDE DEF B
<1>4. /\ DOMAIN rows' = {d \in DOMAIN rows : B[d] > 0}
      /\ \A e \in DOMAIN rows' : rows'[e] = B[e]
  BY <1>1
<1>5. IsBag(rows') /\ DOMAIN rows' \subseteq DOMAIN rows
  <2> DEFINE T == {d \in DOMAIN rows : B[d] > 0}
  <2>1. T \subseteq DOMAIN rows /\ \A e \in T : B[e] \in Nat \ {0}
    BY <1>3
  <2>2. rows' = [e \in T |-> B[e]]
    BY <1>1
  <2> HIDE DEF T
  <2>3. DOMAIN rows' = T /\ rows' \in [T -> Nat \ {0}]
    BY <2>1, <2>2
  <2> QED
    BY <2>1, <2>3 DEF IsBag
<1>6. \A k \in DOMAIN rows : Copies(rows, k) = rows[k] /\ Copies(rows', k) = B[k]
  BY <1>3, <1>4 DEF Copies
<1>7. \A k : k \notin DOMAIN rows => Copies(rows, k) = 0 /\ Copies(rows', k) = 0
  BY <1>4 DEF Copies
<1> QED
  BY <1>2, <1>3, <1>5, <1>6, <1>7

\* It takes a place of its own, or that of another one, or is left out.
LEMMA NextRowKeeps ==
  ASSUME BoardInv, Dash!NextRow
  PROVE  BoardInv'
<1>1. PICK l \in DOMAIN rows :
        /\ stage = "scan" /\ stage' = "scan" /\ seen' = seen + 1 /\ UNCHANGED snapshot
        /\ sample' \in Dash!Sampled(l)
        /\ rows' = Dash!\ominus(rows, Dash!SetToBag({l}))
  BY DEF Dash!NextRow, Dash!BagToSet
<1>2. /\ IsBag(rows) /\ IsBag(snapshot) /\ seen \in Nat /\ SampleFits
      /\ sample \in Seq(DOMAIN snapshot) /\ l \in DOMAIN snapshot
      /\ MaxSamples \in Nat \ {0} /\ seen' \in Nat
  BY <1>1, ReadsAssumption DEF BoardInv, SampleFits
<1>3. /\ IsBag(rows') /\ DOMAIN rows' \subseteq DOMAIN rows
      /\ Copies(rows, l) \in Nat /\ Copies(rows', l) = Copies(rows, l) - 1
      /\ \A k : k # l => Copies(rows', k) = Copies(rows, k)
      /\ \A k : Copies(rows, k) \in Nat /\ Copies(rows', k) \in Nat
  BY <1>1, <1>2, OneRowLess
<1>4. \A k \in DOMAIN snapshot : Count(sample, k) \in Nat /\ snapshot[k] \in Nat
  BY <1>2, CountType DEF IsBag
<1>5. Len(sample) = IF seen <= MaxSamples THEN seen ELSE MaxSamples
  BY <1>2 DEF SampleFits
<1> DEFINE total(k) == Count(sample, k) + Copies(rows, k)
           left(k)  == Count(sample', k) + Copies(rows', k)
<1>6. CASE Len(sample) < MaxSamples
  <2>1. sample' = Append(sample, l)
    BY <1>1, <1>6 DEF Dash!Sampled
  <2>2. /\ sample' \in Seq(DOMAIN snapshot) /\ Len(sample') = seen + 1
        /\ seen' <= MaxSamples /\ seen <= MaxSamples
    BY <1>1, <1>2, <1>5, <1>6, <2>1
  <2>3. \A k \in DOMAIN snapshot : left(k) = snapshot[k]
    <3> TAKE k \in DOMAIN snapshot
    <3>1. total(k) = snapshot[k]
      BY <1>2, <2>2 DEF SampleFits
    <3>2. Count(sample', k) = IF l = k THEN Count(sample, k) + 1 ELSE Count(sample, k)
      BY <1>2, <2>1, CountAppend
    <3> QED
      BY <1>3, <1>4, <3>1, <3>2
  <2>4. SampleFits'
    <3>1. sample' \in Seq(DOMAIN snapshot') /\ DOMAIN rows' \subseteq DOMAIN snapshot'
      BY <1>1, <1>2, <1>3, <2>2 DEF SampleFits
    <3>2. \A k \in DOMAIN snapshot' : left(k) = snapshot'[k] /\ left(k) <= snapshot'[k]
      <4> HIDE DEF left
      <4> QED
        BY <1>1, <1>4, <2>3
    <3>3. Len(sample') = seen' /\ ~(seen' > MaxSamples)
      BY <1>1, <1>2, <2>2
    <3> QED
      BY <3>1, <3>2, <3>3 DEF SampleFits
  <2> QED
    BY <1>1, <1>2, <1>3, <2>4 DEF BoardInv
<1>7. CASE ~(Len(sample) < MaxSamples)
  <2>1. seen >= MaxSamples /\ Len(sample) = MaxSamples /\ seen' > MaxSamples
    BY <1>1, <1>2, <1>5, <1>7
  <2>2. \A k \in DOMAIN snapshot : total(k) <= snapshot[k]
    BY <1>2 DEF SampleFits
  <2>3. /\ sample' \in Seq(DOMAIN snapshot) /\ Len(sample') = MaxSamples
        /\ \A k \in DOMAIN snapshot : left(k) <= total(k)
        /\ \E k \in DOMAIN snapshot : left(k) < total(k)
    <3>1. PICK i \in 1..(seen + 1) : sample' = IF i <= MaxSamples THEN [sample EXCEPT ![i] = l] ELSE sample
      BY <1>1, <1>7 DEF Dash!Sampled
    <3>2. CASE i <= MaxSamples
      <4>1. i \in 1..Len(sample) /\ sample' = [sample EXCEPT ![i] = l]
        BY <1>2, <2>1, <3>1, <3>2
      <4>2. sample[i] \in DOMAIN snapshot
        BY <1>2, <4>1
      <4>3. sample' \in Seq(DOMAIN snapshot) /\ Len(sample') = Len(sample)
        BY <1>2, <4>1
      <4>4. \A k \in DOMAIN snapshot : left(k) = IF sample[i] = k THEN total(k) - 1 ELSE total(k)
        <5> TAKE k \in DOMAIN snapshot
        <5>1. Count(sample, k) \in Nat /\ Copies(rows, k) \in Nat
          BY <1>3, <1>4
        <5>2. Count(sample', k) = Count(sample, k) + (IF l = k THEN 1 ELSE 0) - (IF sample[i] = k THEN 1 ELSE 0)
          <6>1. sample \in Seq(DOMAIN snapshot) /\ l \in DOMAIN snapshot /\ i \in 1..Len(sample)
            BY <1>2, <4>1
          <6>2. Count([sample EXCEPT ![i] = l], k) =
                  Count(sample, k) + (IF l = k THEN 1 ELSE 0) - (IF sample[i] = k THEN 1 ELSE 0)
            BY <6>1, CountReplace
          <6> QED
            BY <4>1, <6>2
        <5>3. CASE l = k
          BY <1>3, <5>1, <5>2, <5>3
        <5>4. CASE l # k
          BY <1>3, <5>1, <5>2, <5>4
        <5> QED
          BY <5>3, <5>4
      <4>5. \A k \in DOMAIN snapshot : total(k) \in Nat
        BY <1>3, <1>4
      <4> HIDE DEF left, total
      <4> QED
        BY <2>1, <4>2, <4>3, <4>4, <4>5, SMTT(40)
    <3>3. CASE ~(i <= MaxSamples)
      <4>1. sample' = sample
        BY <3>1, <3>3
      <4>2. \A k \in DOMAIN snapshot : left(k) = IF k = l THEN total(k) - 1 ELSE total(k)
        <5> TAKE k \in DOMAIN snapshot
        <5>1. Count(sample, k) \in Nat /\ Copies(rows, k) \in Nat
          BY <1>3, <1>4
        <5> QED
          BY <1>3, <4>1, <5>1
      <4>3. \A k \in DOMAIN snapshot : total(k) \in Nat
        BY <1>3, <1>4
      <4> HIDE DEF left, total
      <4> QED
        BY <1>2, <2>1, <4>1, <4>2, <4>3
    <3> QED
      BY <3>2, <3>3
  <2>4. \A k \in DOMAIN snapshot : total(k) \in Nat /\ left(k) \in Int /\ snapshot[k] \in Nat
    <3> TAKE k \in DOMAIN snapshot
    <3>1. Count(sample', k) \in Nat
      BY <2>3, CountType
    <3> QED
      BY <1>3, <1>4, <3>1
  <2>5. \A k \in DOMAIN snapshot : left(k) <= snapshot[k]
    <3> HIDE DEF left, total
    <3> QED
      BY <2>2, <2>3, <2>4
  <2>6. \E k \in DOMAIN snapshot : left(k) < snapshot[k]
    <3> HIDE DEF left, total
    <3> QED
      BY <2>2, <2>3, <2>4
  <2>7. SampleFits'
    <3>1. sample' \in Seq(DOMAIN snapshot') /\ DOMAIN rows' \subseteq DOMAIN snapshot'
      BY <1>1, <1>2, <1>3, <2>3 DEF SampleFits
    <3>2. /\ \A k \in DOMAIN snapshot' : left(k) <= snapshot'[k]
          /\ \E k \in DOMAIN snapshot' : left(k) < snapshot'[k]
      <4> HIDE DEF left
      <4> QED
        BY <1>1, <2>5, <2>6
    <3>3. Len(sample') = MaxSamples /\ ~(seen' <= MaxSamples)
      BY <1>2, <2>1, <2>3
    <3> QED
      BY <3>1, <3>2, <3>3 DEF SampleFits
  <2> QED
    BY <1>1, <1>2, <1>3, <2>7 DEF BoardInv
<1> QED
  BY <1>6, <1>7

\* When no row is left, the sample is all there was or says that it is not.
LEMMA RowsEndKeeps ==
  ASSUME BoardInv, Dash!RowsEnd
  PROVE  BoardInv'
<1>1. /\ stage = "scan" /\ stage' = "usage" /\ rows = Dash!EmptyBag
      /\ UNCHANGED <<rows, seen, sample, snapshot>>
      /\ latency'.sampled = IF sample = <<>> THEN FALSE ELSE seen > MaxSamples
  BY DEF Dash!RowsEnd, Dash!NoLatency
<1>2. DOMAIN rows' = {}
  BY <1>1 DEF Dash!EmptyBag, Dash!SetToBag
<1>3. /\ SampleFits /\ seen \in Nat /\ MaxSamples \in Nat \ {0}
      /\ sample = <<>> => ~(seen > MaxSamples)
  <2>1. SampleFits /\ seen \in Nat /\ MaxSamples \in Nat \ {0}
    BY <1>1, ReadsAssumption DEF BoardInv
  <2>2. ASSUME sample = <<>> PROVE ~(seen > MaxSamples)
    <3>1. Len(sample) = 0
      BY <2>2
    <3> QED
      BY <2>1, <3>1 DEF SampleFits
  <2> QED
    BY <2>1, <2>2
<1>4. latency'.sampled <=> seen' > MaxSamples
  BY <1>1, <1>3
<1>5. SampleFits'
  BY <1>1, <1>3 DEF SampleFits
<1>6. seen' \in Nat /\ IsBag(rows)' /\ IsBag(snapshot)'
  BY <1>1 DEF BoardInv, IsBag
<1> QED
  BY <1>1, <1>2, <1>4, <1>5, <1>6 DEF BoardInv

LEMMA BoardRests ==
  ASSUME BoardInv, UNCHANGED <<rows, seen, sample, snapshot, latency>>,
         \/ stage' = stage
         \/ stage \in {"idle", "count"} /\ stage' \in {"count", "query"}
         \/ stage = "usage" /\ stage' = "done"
  PROVE  BoardInv'
<1>1. SampleFits' <=> SampleFits
  BY DEF SampleFits
<1>2. seen' \in Nat /\ IsBag(rows)' /\ IsBag(snapshot)'
  BY DEF BoardInv, IsBag
<1> QED
  BY <1>1, <1>2 DEF BoardInv

LEMMA NextBoard == BoardInv /\ Dash!Next => BoardInv'
<1> SUFFICES ASSUME BoardInv, Dash!Next PROVE BoardInv'
  OBVIOUS
<1>1. ASSUME NEW s, NEW e, Dash!Ask(s, e) PROVE BoardInv'
  BY <1>1, BoardRests DEF Dash!Ask
<1>2. CASE Dash!Count
  BY <1>2, BoardRests DEF Dash!Count
<1>3. CASE Dash!ReadUsage
  BY <1>3, BoardRests DEF Dash!ReadUsage
<1>4. CASE Dash!Answer
  BY <1>4, GoneKeeps DEF Dash!Answer
<1>5. CASE Dash!StoreMoves
  BY <1>5, BoardRests, GoneKeeps DEF Dash!StoreMoves
<1> QED
  BY <1>1, <1>2, <1>3, <1>4, <1>5, QueryKeeps, NextRowKeeps, RowsEndKeeps DEF Dash!Next, Dash!Read

-----------------------------------------------------------------------------
(* All clients together.                                                    *)

ReadsInv ==
  /\ StoreInv /\ KeepsRows
  /\ client = "trace" => TraceInv
  /\ client = "list" => ListInv
  /\ client = "dashboard" => BoardInv

LEMMA RowsKept == StoreInv /\ KeepsRows /\ [StoreNext]_storeVars => KeepsRows'
<1> SUFFICES ASSUME StoreInv, KeepsRows, [StoreNext]_storeVars, InTx', NEW t \in Trace, NEW s \in Span,
                    spans'[t][s] # Absent
             PROVE  txSpans'[t][s] # Absent
  BY DEF KeepsRows
<1>1. CASE UNCHANGED <<spans, txSpans, batch>>
  BY <1>1 DEF KeepsRows, InTx
<1>2. CASE UNCHANGED storeVars \/ Migrate
  BY <1>1, <1>2 DEF storeVars, txVars, Migrate
<1>3. ASSUME NEW b \in Batches, Begin(b) PROVE txSpans'[t][s] # Absent
  BY <1>3 DEF Begin
<1>4. CASE Upsert
  <2> DEFINE row == batch[done + 1]
  <2>1. InTx /\ batch \in Batches
    BY <1>4 DEF Upsert, StoreInv, StoreShape, InTx
  <2>2. row \in Row
    <3>1. done + 1 \in 1..Len(batch)
      BY <1>4, <2>1, BatchIsRows DEF Upsert, StoreInv, StoreShape
    <3> QED
      BY <2>1, <3>1, BatchIsRows
  <2>3. txSpans[t] \in Rows /\ txSpans[row.trace] \in Rows /\ txSpans[t][s] # Absent
    BY <1>4, <2>1, <2>2 DEF StoreInv, StoreShape, Row, KeepsRows, Upsert
  <2>4. row.version # Absent
    BY <2>2, StoreAssumption DEF Row
  <2> QED
    BY <1>4, <2>2, <2>3, <2>4 DEF Upsert, StoreInv, StoreShape, Rows, Row
<1>5. ASSUME NEW u \in Trace, Summarise(u) PROVE UNCHANGED <<spans, txSpans, batch>>
  BY <1>5 DEF Summarise
<1>6. ~(Commit \/ Rollback \/ Crash)
  BY DEF Commit, Rollback, Crash, TxEnds, InTx
<1> QED
  BY <1>1, <1>2, <1>3, <1>4, <1>5, <1>6 DEF StoreNext, StoreStep

LEMMA InitReads == ReadsInit => ReadsInv
<1> SUFFICES ASSUME ReadsInit PROVE ReadsInv
  OBVIOUS
<1>1. StoreInv /\ KeepsRows
  BY InitStore, ReadersStartFresh DEF StoreInit, KeepsRows, InTx
<1>2. <<>> \in Cursors(Span) /\ <<>> \in Cursors(Trace)
  BY CursorIs
<1>3. client = "trace" => TraceInv
  <2> SUFFICES ASSUME client = "trace" PROVE TraceInv
    OBVIOUS
  <2>1. Detail!DetailInit
    BY DEF ReadsInit
  <2>2. /\ stage = "new" /\ handler = "idle" /\ status = "none"
        /\ cursor = <<>> /\ page = {} /\ next = <<>> /\ pages = <<>> /\ steady = {}
    BY <2>1 DEF Detail!DetailInit
  <2> QED
    BY <1>2, <2>2 DEF TraceInv, PagerTypes, HasSpans, PageHolds, SomethingLeft
<1>4. client = "list" => ListInv
  <2> SUFFICES ASSUME client = "list" PROVE ListInv
    OBVIOUS
  <2>1. Listing!ListInit
    BY DEF ReadsInit
  <2>2. stage = "new" /\ cursor = <<>> /\ pages = <<>> /\ steady = {}
    BY <2>1 DEF Listing!ListInit
  <2> QED
    BY <1>2, <2>2 DEF ListInv, PagerTypes, HasTraces, InOrder
<1>5. client = "dashboard" => BoardInv
  <2> SUFFICES ASSUME client = "dashboard" PROVE BoardInv
    OBVIOUS
  <2>1. Dash!Init
    BY DEF ReadsInit
  <2>2. /\ stage = "idle" /\ seen = 0 /\ sample = <<>>
        /\ rows = Dash!EmptyBag /\ snapshot = Dash!EmptyBag
    BY <2>1 DEF Dash!Init, Dash!NoRequest
  <2>3. Dash!EmptyBag \in [{} -> Nat \ {0}]
    BY DEF Dash!EmptyBag, Dash!SetToBag
  <2> QED
    BY <2>2, <2>3 DEF BoardInv, IsBag
<1> QED
  BY <1>1, <1>3, <1>4, <1>5 DEF ReadsInv

LEMMA NextReads == ReadsInv /\ [ReadsNext]_readsVars => ReadsInv'
<1> SUFFICES ASSUME ReadsInv, [ReadsNext]_readsVars PROVE ReadsInv'
  OBVIOUS
<1>1. [StoreNext]_storeVars
  BY ReadersOnlyRead DEF readsVars
<1>2. StoreInv' /\ KeepsRows'
  BY <1>1, NextStore, RowsKept DEF ReadsInv
<1>3. UNCHANGED client
  BY DEF ReadsNext, StoreAlone, ListMoves, TraceMoves, DashboardMoves, readsVars
<1>4. ASSUME client = "trace" PROVE TraceInv'
  <2>1. StoreInv /\ KeepsRows /\ TraceInv
    BY <1>4 DEF ReadsInv
  <2>2. CASE TraceMoves
    BY <2>1, <2>2, OpenTraceKeeps, ReadPageKeeps, ReadSummaryKeeps, StoreKeepsTrace
       DEF TraceMoves, Detail!DetailNext
  <2>3. CASE UNCHANGED readsVars
    <3>1. UNCHANGED <<phase, spans, stage, cursor, pages, steady, handler, page, next, status>>
      BY <2>3 DEF readsVars, storeVars, pagerVars, traceVars
    <3>2. PagerTypes(Span)'
      BY <2>1, <3>1 DEF TraceInv, PagerTypes
    <3>3. HasSpans'
      BY <2>1, <3>1 DEF TraceInv, HasSpans, SpanThere, SpanKey, Holding, Got, After
    <3>4. PageHolds'
      BY <2>1, <3>1 DEF TraceInv, PageHolds, SpanThere, SpanKey, After, Beyond
    <3>5. SomethingLeft'
      BY <2>1, <3>1 DEF TraceInv, SomethingLeft, SpanThere, SpanKey, After, Beyond
    <3> QED
      BY <2>1, <3>1, <3>2, <3>3, <3>4, <3>5 DEF TraceInv
  <2> QED
    BY <1>4, <2>2, <2>3 DEF ReadsNext, StoreAlone, ListMoves, DashboardMoves
<1>5. ASSUME client = "list" PROVE ListInv'
  <2>1. StoreInv /\ ListInv
    BY <1>5 DEF ReadsInv
  <2>2. CASE ListMoves
    BY <2>1, <2>2, StartListingKeeps, GetPageKeeps, StoreKeepsList DEF ListMoves, Listing!ListNext
  <2>3. CASE UNCHANGED readsVars
    <3>1. UNCHANGED <<spans, summaries, filter, stage, cursor, pages, steady>>
      BY <2>3 DEF readsVars, storeVars, pagerVars
    <3>2. PagerTypes(Trace)'
      BY <2>1, <3>1 DEF ListInv, PagerTypes
    <3>3. HasTraces'
      <4>1. \A t : /\ Holding(t)' = Holding(t) /\ (Got(t)' <=> Got(t)) /\ (Shown(t)' <=> Shown(t))
                   /\ After(Falling(Trace), cursor, RowKey(t))' <=> After(Falling(Trace), cursor, RowKey(t))
        BY <3>1 DEF Shown, Listing!Matches, Listing!HasStatus, Listing!HasKind, RowKey, Holding, Got, After
      <4> QED
        BY <2>1, <3>1, <4>1 DEF ListInv, HasTraces
    <3>4. InOrder'
      BY <2>1, <3>1 DEF ListInv, InOrder
    <3> QED
      BY <3>2, <3>3, <3>4 DEF ListInv
  <2> QED
    BY <1>5, <2>2, <2>3 DEF ReadsNext, StoreAlone, TraceMoves, DashboardMoves
<1>6. ASSUME client = "dashboard" PROVE BoardInv'
  <2>1. BoardInv
    BY <1>6 DEF ReadsInv
  <2>2. CASE DashboardMoves
    BY <2>1, <2>2, NextBoard DEF DashboardMoves
  <2>3. CASE UNCHANGED readsVars
    <3>1. UNCHANGED <<stage, rows, seen, sample, latency, snapshot>>
      BY <2>3 DEF readsVars, boardVars, pagerVars
    <3> QED
      BY <2>1, <3>1, BoardRests
  <2> QED
    BY <1>6, <2>2, <2>3 DEF ReadsNext, StoreAlone, ListMoves, TraceMoves
<1> QED
  BY <1>2, <1>3, <1>4, <1>5, <1>6 DEF ReadsInv

\* What a client has so far, what it is to get, and the rows of the store fit together.
THEOREM ReadsInvariant == ReadsSpec => []ReadsInv
  BY InitReads, NextReads, PTL DEF ReadsSpec

\* SteadySpanOnce: for any number of spans, pages and commits in between, a span that stays
\* as it is is received exactly once by a client that pages through its trace.
THEOREM SpansListedOnce == ReadsSpec => []SteadySpanOnce
<1>1. ReadsInv => SteadySpanOnce
  <2> SUFFICES ASSUME TraceInv, stage = "end", NEW s \in steady
               PROVE  Detail!Cardinality(Detail!PagesWith(s)) = IF spans[Wanted][s] = Absent THEN 0 ELSE 1
    BY DEF ReadsInv, SteadySpanOnce, Detail!SteadySpanOnce
  <2>1. Detail!PagesWith(s) = Holding(s)
    BY DEF Detail!PagesWith, Holding
  <2>2. IF SpanThere(s) THEN \E i : Holding(s) = {i} ELSE Holding(s) = {}
    BY DEF TraceInv, HasSpans, Got
  <2>3. Cardinality(Holding(s)) = IF spans[Wanted][s] = Absent THEN 0 ELSE 1
    BY <2>2, FS_Singleton, FS_EmptySet DEF SpanThere
  <2> QED
    BY <2>1, <2>3, SameCardinality
<1> QED
  BY <1>1, ReadsInvariant, PTL

\* SteadyListedOnce: the same of the list of traces and its filter.
THEOREM TracesListedOnce == ReadsSpec => []SteadyListedOnce
<1>1. ReadsInv => SteadyListedOnce
  <2> SUFFICES ASSUME ListInv, stage = "end", NEW t \in steady
               PROVE  Listing!Cardinality(Listing!PagesWith(t)) = IF Listing!Matches(t) THEN 1 ELSE 0
    BY DEF ReadsInv, SteadyListedOnce, Listing!SteadyListedOnce
  <2>1. Listing!PagesWith(t) = Holding(t) /\ (Listing!Matches(t) <=> Shown(t))
    BY DEF Listing!PagesWith, Holding, Shown
  <2>2. IF Shown(t) THEN \E i : Holding(t) = {i} ELSE Holding(t) = {}
    BY DEF ListInv, HasTraces, Got
  <2>3. Cardinality(Holding(t)) = IF Shown(t) THEN 1 ELSE 0
    BY <2>2, FS_Singleton, FS_EmptySet
  <2> QED
    BY <2>1, <2>3, SameCardinality
<1> QED
  BY <1>1, ReadsInvariant, PTL

\* PagesInOrder: whatever is inserted or moves meanwhile, the pages are in the order of the list.
THEOREM PagesFollow == ReadsSpec => []PagesInOrder
<1>1. ReadsInv => PagesInOrder
  <2> SUFFICES ASSUME ListInv, NEW i \in 1..Len(pages), NEW j \in 1..Len(pages), i < j,
                      NEW a \in pages[i], NEW b \in pages[j]
               PROVE  Listing!Newer(a, b)
    BY DEF ReadsInv, PagesInOrder, Listing!PagesInOrder
  <2>1. <<a, b>> \in Falling(Trace)
    BY DEF ListInv, InOrder
  <2>2. Older(b, a) /\ a \in Keys(Trace) /\ b \in Keys(Trace)
    BY <2>1 DEF Falling
  <2>3. a.start \in Int /\ b.start \in Int /\ a.id \in Nat /\ b.id \in Nat
    BY <2>2, StoreAssumption DEF Keys
  <2> QED
    BY <2>2, <2>3 DEF Older, Listing!Newer
<1> QED
  BY <1>1, ReadsInvariant, PTL

\* SummaryFound: whatever is committed between the two reads of a request, the second one finds
\* the summary of the spans that the first one has found.
THEOREM SummaryIsFound == ReadsSpec => []SummaryFound
<1>1. ReadsInv => SummaryFound
  BY DEF ReadsInv, TraceInv, SummaryFound, Detail!SummaryFound
<1> QED
  BY <1>1, ReadsInvariant, PTL

\* NotFoundOnlyIfChanged: a client that follows the cursors through a trace that stays as it is
\* never gets 404.
THEOREM CursorsLeadOn == ReadsSpec => []NotFoundOnlyIfChanged
<1>1. ReadsInv => NotFoundOnlyIfChanged
  <2> SUFFICES ASSUME TraceInv, status = "404", Detail!Listed # {} PROVE steady # Span
    BY DEF ReadsInv, NotFoundOnlyIfChanged, Detail!NotFoundOnlyIfChanged
  <2>1. pages # <<>>
    BY DEF Detail!Listed
  <2> QED
    BY <2>1 DEF TraceInv
<1> QED
  BY <1>1, ReadsInvariant, PTL

\* SampleOfSnapshot: for any number of traces and any size of the sample, and whatever is drawn, the
\* percentiles are of all latencies of one moment, or of as many as are allowed, each at most once.
THEOREM SampleIsHonest == ReadsSpec => []SampleOfSnapshot
<1>1. ReadsInv => SampleOfSnapshot
  <2> SUFFICES ASSUME BoardInv, stage \in {"usage", "done"}
               PROVE  /\ Dash!\sqsubseteq(Dash!AsBag(sample), snapshot)
                      /\ latency.sampled <=> Dash!AsBag(sample) # snapshot
                      /\ latency.sampled => Len(sample) = MaxSamples
    BY DEF ReadsInv, SampleOfSnapshot, Dash!SampleOfSnapshot
  <2> DEFINE D == DOMAIN snapshot
             B == Dash!AsBag(sample)
  <2>1. /\ sample \in Seq(D) /\ seen \in Nat /\ MaxSamples \in Nat \ {0}
        /\ latency.sampled <=> seen > MaxSamples
        /\ \A l \in D : Copies(rows, l) = 0 /\ snapshot[l] \in Nat \ {0} /\ Count(sample, l) \in Nat
    BY CountType, ReadsAssumption DEF BoardInv, SampleFits, Copies, IsBag
  <2>2. /\ \A l \in D : Count(sample, l) <= snapshot[l]
        /\ ~latency.sampled => \A l \in D : Count(sample, l) = snapshot[l]
        /\ latency.sampled => Len(sample) = MaxSamples /\ \E l \in D : Count(sample, l) < snapshot[l]
    BY <2>1 DEF BoardInv, SampleFits
  <2>3. /\ DOMAIN B = {sample[i] : i \in DOMAIN sample}
        /\ \A l \in DOMAIN B : B[l] = Count(sample, l)
        /\ B = [l \in DOMAIN B |-> B[l]]
    BY SameCardinality DEF Dash!AsBag, Count, Places
  <2>4. DOMAIN sample = 1..Len(sample) /\ \A i \in DOMAIN sample : sample[i] \in D
    BY <2>1
  <2>5. \A l \in D : Count(sample, l) # 0 <=> l \in DOMAIN B
    BY <2>1, <2>3, <2>4, CountType
  <2>6. DOMAIN B \subseteq D
    BY <2>3, <2>4
  <2>7. snapshot = [l \in D |-> snapshot[l]]
    BY DEF BoardInv, IsBag
  <2> HIDE DEF B
  <2>8. Dash!\sqsubseteq(B, snapshot)
    BY <2>2, <2>3, <2>6 DEF Dash!\sqsubseteq
  <2>9. ASSUME ~latency.sampled PROVE B = snapshot
    <3>1. \A l \in D : l \in DOMAIN B
      BY <2>1, <2>2, <2>5, <2>9
    <3>2. DOMAIN B = D
      BY <2>6, <3>1
    <3>3. \A l \in D : B[l] = snapshot[l]
      BY <2>2, <2>3, <2>9, <3>2
    <3> QED
      BY <2>3, <2>7, <3>2, <3>3
  <2>10. ASSUME latency.sampled, B = snapshot PROVE FALSE
    <3>1. PICK l \in D : Count(sample, l) < snapshot[l]
      BY <2>2, <2>10
    <3>2. B[l] = Count(sample, l)
      BY <2>3, <2>10
    <3> QED
      BY <2>1, <2>10, <3>1, <3>2
  <2> QED
    BY <2>2, <2>8, <2>9, <2>10 DEF B
<1> QED
  BY <1>1, ReadsInvariant, PTL

-----------------------------------------------------------------------------
(* Sums over finite sets.  They are the folds that the model is written     *)
(* with, taken of a function.                                               *)

\* An element of a set, as the folds choose it.
Some(s) == CHOOSE x \in s : TRUE

\* iter sums up the values of g over each of the parts.
SumsUp(g, Parts, iter) ==
  iter = [s \in Parts |-> IF s = {} THEN 0 ELSE g[Some(s)] + iter[s \ {Some(s)}]]

\* The sum of the values of g over S, as the model takes it.
SumOver(g, S) == MapThenSumSet(LAMBDA x : g[x], S)

\* Of some parts of a finite set one is smallest.  This is how sums are reasoned about: what is
\* false of some part is false of one of which it is true when any element is taken away.
LEMMA SmallestPart ==
  ASSUME NEW S, IsFiniteSet(S), NEW bad \in SUBSET SUBSET S, bad # {}
  PROVE  \E T \in bad : IsFiniteSet(T) /\ \A x \in T : T \ {x} \notin bad
<1> DEFINE sizes == {Cardinality(T) : T \in bad}
<1>1. \A T \in SUBSET S : IsFiniteSet(T) /\ Cardinality(T) \in Nat
  BY FS_Subset, FS_CardinalityType
<1>2. sizes \in SUBSET Nat /\ sizes # {}
  BY <1>1
<1> HIDE DEF sizes
<1>3. PICK n \in sizes : \A m \in sizes : n <= m
  BY <1>2, FirstNat
<1>4. PICK T \in bad : n = Cardinality(T)
  BY <1>3 DEF sizes
<1>5. ASSUME NEW x \in T, T \ {x} \in bad PROVE FALSE
  <2>1. Cardinality(T \ {x}) = n - 1
    BY <1>1, <1>4, FS_RemoveElement
  <2>2. n - 1 \in sizes
    BY <1>5, <2>1 DEF sizes
  <2> QED
    BY <1>2, <1>3, <2>2
<1> QED
  BY <1>1, <1>4, <1>5

\* The parts of S of at most n elements.
PartsUpTo(S, n) == {s \in SUBSET S : Cardinality(s) <= n}

LEMMA PartsGrow ==
  ASSUME NEW S, IsFiniteSet(S), NEW n \in Nat
  PROVE  /\ PartsUpTo(S, 0) = {{}}
         /\ \A s \in PartsUpTo(S, n) : s \in PartsUpTo(S, n + 1)
         /\ \A s \in PartsUpTo(S, n + 1) : s # {} => Some(s) \in s /\ s \ {Some(s)} \in PartsUpTo(S, n)
         /\ \E m \in Nat : PartsUpTo(S, m) = SUBSET S
<1>1. \A T \in SUBSET S : IsFiniteSet(T) /\ Cardinality(T) \in Nat /\ Cardinality(T) <= Cardinality(S)
  BY FS_Subset, FS_CardinalityType
<1>2. ASSUME NEW T \in SUBSET S, Cardinality(T) <= 0 PROVE T = {}
  <2>1. Cardinality(T) = 0
    BY <1>1, <1>2
  <2> QED
    BY <1>1, <2>1, FS_EmptySet
<1>3. Cardinality({}) = 0
  BY FS_EmptySet
<1>4. PartsUpTo(S, 0) = {{}}
  BY <1>2, <1>3 DEF PartsUpTo
<1>5. \A s \in PartsUpTo(S, n) : s \in PartsUpTo(S, n + 1)
  BY <1>1 DEF PartsUpTo
<1>6. ASSUME NEW s \in PartsUpTo(S, n + 1), s # {}
      PROVE  Some(s) \in s /\ s \ {Some(s)} \in PartsUpTo(S, n)
  <2>1. Some(s) \in s
    BY <1>6 DEF Some
  <2>2. s \in SUBSET S /\ Cardinality(s) <= n + 1
    BY DEF PartsUpTo
  <2>3. Cardinality(s \ {Some(s)}) = Cardinality(s) - 1
    BY <1>1, <2>1, <2>2, FS_RemoveElement
  <2>4. s \ {Some(s)} \in SUBSET S
    BY <2>2
  <2>5. Cardinality(s) - 1 <= n
    BY <1>1, <2>2
  <2> QED
    BY <2>1, <2>3, <2>4, <2>5 DEF PartsUpTo
<1>7. PartsUpTo(S, Cardinality(S)) = SUBSET S /\ Cardinality(S) \in Nat
  BY <1>1 DEF PartsUpTo
<1> QED
  BY <1>4, <1>5, <1>6, <1>7

\* There is one way to sum up, and there is only one.
LEMMA SumsExist ==
  ASSUME NEW S, IsFiniteSet(S), NEW g
  PROVE  \E iter : SumsUp(g, SUBSET S, iter)
<1> DEFINE Can(k) == \E iter : SumsUp(g, PartsUpTo(S, k), iter)
           bad == {k \in Nat : ~Can(k)}
<1>1. Can(0)
  <2> DEFINE none == [s \in PartsUpTo(S, 0) |-> 0]
  <2>1. \A s \in PartsUpTo(S, 0) : s = {}
    BY PartsGrow
  <2>2. SumsUp(g, PartsUpTo(S, 0), none)
    BY <2>1 DEF SumsUp
  <2> QED
    BY <2>2
<1>2. ASSUME NEW n \in Nat, Can(n) PROVE Can(n + 1)
  <2>1. PICK i : SumsUp(g, PartsUpTo(S, n), i)
    BY <1>2
  <2> DEFINE more == [s \in PartsUpTo(S, n + 1) |-> IF s = {} THEN 0 ELSE g[Some(s)] + i[s \ {Some(s)}]]
  <2>2. \A s \in PartsUpTo(S, n) : more[s] = i[s]
    BY <2>1, PartsGrow DEF SumsUp
  <2>3. SumsUp(g, PartsUpTo(S, n + 1), more)
    BY <2>2, PartsGrow DEF SumsUp
  <2> QED
    BY <2>3
<1> HIDE DEF Can
<1>3. bad = {}
  <2> SUFFICES ASSUME bad # {} PROVE FALSE
    OBVIOUS
  <2>1. bad \in SUBSET Nat
    OBVIOUS
  <2>2. PICK n \in bad : \A m \in bad : n <= m
    <3> HIDE DEF bad
    <3> QED
      BY <2>1, FirstNat
  <2>3. n # 0 /\ n \in Nat /\ ~Can(n)
    BY <1>1, <2>2
  <2>4. n - 1 \in Nat /\ n - 1 \notin bad /\ (n - 1) + 1 = n
    BY <2>2, <2>3
  <2>5. Can(n - 1)
    BY <2>4
  <2> QED
    BY <1>2, <2>3, <2>4, <2>5
<1>4. PICK m \in Nat : PartsUpTo(S, m) = SUBSET S
  BY PartsGrow
<1>5. Can(m)
  BY <1>3
<1> QED
  BY <1>4, <1>5 DEF Can

LEMMA SumsUnique ==
  ASSUME NEW S, IsFiniteSet(S), NEW g, NEW h, \A x \in S : g[x] = h[x],
         NEW i, NEW j, SumsUp(g, SUBSET S, i), SumsUp(h, SUBSET S, j)
  PROVE  i = j
<1> DEFINE bad == {T \in SUBSET S : i[T] # j[T]}
<1>1. \A s \in SUBSET S : s # {} => Some(s) \in s /\ Some(s) \in S
  BY DEF Some
<1>2. \A s \in SUBSET S : /\ i[s] = IF s = {} THEN 0 ELSE g[Some(s)] + i[s \ {Some(s)}]
                          /\ j[s] = IF s = {} THEN 0 ELSE h[Some(s)] + j[s \ {Some(s)}]
  BY DEF SumsUp
<1>3. bad = {}
  <2> SUFFICES ASSUME bad # {} PROVE FALSE
    OBVIOUS
  <2>1. PICK T \in bad : \A x \in T : T \ {x} \notin bad
    <3>1. bad \in SUBSET SUBSET S
      OBVIOUS
    <3> HIDE DEF bad
    <3> QED
      BY <3>1, SmallestPart
  <2>2. T # {}
    BY <1>2, <2>1
  <2>3. i[T \ {Some(T)}] = j[T \ {Some(T)}]
    BY <1>1, <2>1, <2>2
  <2> QED
    BY <1>1, <1>2, <2>1, <2>2, <2>3
<1>4. /\ i = [s \in SUBSET S |-> i[s]]
      /\ j = [s \in SUBSET S |-> j[s]]
  BY DEF SumsUp
<1> QED
  BY <1>3, <1>4

\* A fold of the model is where a way to sum up ends.
LEMMA SumIs ==
  ASSUME NEW S, IsFiniteSet(S), NEW g, NEW iter, SumsUp(g, SUBSET S, iter)
  PROVE  SumOver(g, S) = iter[S]
<1> DEFINE Body(i) == [s \in SUBSET S |-> IF s = {} THEN 0 ELSE g[CHOOSE x \in s : TRUE] + i[s \ {CHOOSE x \in s : TRUE}]]
           it == CHOOSE i : i = Body(i)
<1>1. SumOver(g, S) = it[S]
  BY Zenon DEF SumOver, MapThenSumSet, MapThenFoldSet
<1>2. iter = Body(iter)
  BY DEF SumsUp, Some
<1> HIDE DEF Body
<1>3. it = Body(it)
  BY <1>2
<1>4. SumsUp(g, SUBSET S, it)
  BY <1>3 DEF Body, SumsUp, Some
<1> HIDE DEF it
<1>5. it = iter
  BY <1>4, SumsUnique
<1> QED
  BY <1>1, <1>5

LEMMA SumOfPart ==
  ASSUME NEW S, IsFiniteSet(S), NEW g, NEW iter, SumsUp(g, SUBSET S, iter), NEW T \in SUBSET S
  PROVE  SumOver(g, T) = iter[T]
<1> DEFINE part == [s \in SUBSET T |-> iter[s]]
<1>1. \A s \in SUBSET T : s \in SUBSET S /\ s \ {Some(s)} \in SUBSET T
  OBVIOUS
<1>2. SumsUp(g, SUBSET T, part)
  BY <1>1 DEF SumsUp
<1>3. IsFiniteSet(T)
  BY FS_Subset
<1>4. part[T] = iter[T]
  OBVIOUS
<1> HIDE DEF part
<1> QED
  BY <1>2, <1>3, <1>4, SumIs

LEMMA SumEmpty ==
  ASSUME NEW g PROVE SumOver(g, {}) = 0
<1>1. IsFiniteSet({})
  BY FS_EmptySet
<1>2. PICK iter : SumsUp(g, SUBSET {}, iter)
  BY <1>1, SumsExist
<1>3. iter[{}] = 0
  BY <1>2 DEF SumsUp
<1> QED
  BY <1>1, <1>2, <1>3, SumIs

LEMMA SumStep ==
  ASSUME NEW S, IsFiniteSet(S), NEW g, S # {}
  PROVE  SumOver(g, S) = g[Some(S)] + SumOver(g, S \ {Some(S)})
<1>1. PICK iter : SumsUp(g, SUBSET S, iter)
  BY SumsExist
<1>2. iter[S] = g[Some(S)] + iter[S \ {Some(S)}]
  BY <1>1 DEF SumsUp
<1>3. S \in SUBSET S /\ S \ {Some(S)} \in SUBSET S
  OBVIOUS
<1> QED
  BY <1>1, <1>2, <1>3, SumOfPart

\* The sum depends on the values at the elements.
LEMMA SumSame ==
  ASSUME NEW S, IsFiniteSet(S), NEW g, NEW h, \A x \in S : g[x] = h[x]
  PROVE  SumOver(g, S) = SumOver(h, S)
<1>1. PICK i : SumsUp(g, SUBSET S, i)
  BY SumsExist
<1>2. PICK j : SumsUp(h, SUBSET S, j)
  BY SumsExist
<1>3. i = j
  BY <1>1, <1>2, SumsUnique
<1> QED
  BY <1>1, <1>2, <1>3, SumIs

LEMMA SumType ==
  ASSUME NEW S, IsFiniteSet(S), NEW g, \A x \in S : g[x] \in Int
  PROVE  SumOver(g, S) \in Int
<1> DEFINE bad == {T \in SUBSET S : SumOver(g, T) \notin Int}
<1>1. SUFFICES ASSUME bad # {} PROVE FALSE
  OBVIOUS
<1>2. bad \in SUBSET SUBSET S
  OBVIOUS
<1>3. PICK T \in bad : IsFiniteSet(T) /\ \A x \in T : T \ {x} \notin bad
  <2> HIDE DEF bad
  <2> QED
    BY <1>1, <1>2, SmallestPart
<1>4. T # {}
  BY <1>3, SumEmpty
<1>5. Some(T) \in T
  BY <1>4 DEF Some
<1>6. SumOver(g, T \ {Some(T)}) \in Int /\ g[Some(T)] \in Int
  BY <1>3, <1>5
<1>7. SumOver(g, T) = g[Some(T)] + SumOver(g, T \ {Some(T)})
  BY <1>3, <1>4, SumStep
<1> QED
  BY <1>3, <1>6, <1>7

\* Any element may be taken out.
LEMMA SumPick ==
  ASSUME NEW S, IsFiniteSet(S), NEW g, \A x \in S : g[x] \in Int, NEW a \in S
  PROVE  SumOver(g, S) = g[a] + SumOver(g, S \ {a})
<1> DEFINE bad == {T \in SUBSET S : \E x \in T : SumOver(g, T) # g[x] + SumOver(g, T \ {x})}
<1>1. SUFFICES ASSUME bad # {} PROVE FALSE
  OBVIOUS
<1>2. bad \in SUBSET SUBSET S
  OBVIOUS
<1>3. PICK T \in bad : IsFiniteSet(T) /\ \A x \in T : T \ {x} \notin bad
  <2> HIDE DEF bad
  <2> QED
    BY <1>1, <1>2, SmallestPart
<1>4. PICK x \in T : SumOver(g, T) # g[x] + SumOver(g, T \ {x})
  BY <1>3
<1> DEFINE y == Some(T)
<1>5. y \in T
  BY <1>4 DEF Some
<1>6. SumOver(g, T) = g[y] + SumOver(g, T \ {y})
  BY <1>3, <1>4, SumStep
<1>7. x # y /\ x \in T \ {y} /\ y \in T \ {x}
  BY <1>4, <1>5, <1>6
<1> HIDE DEF y
<1>8. SumOver(g, T \ {y}) = g[x] + SumOver(g, (T \ {y}) \ {x})
  BY <1>3, <1>5, <1>7
<1>9. SumOver(g, T \ {x}) = g[y] + SumOver(g, (T \ {x}) \ {y})
  BY <1>3, <1>4, <1>7
<1>10. (T \ {y}) \ {x} = (T \ {x}) \ {y}
  OBVIOUS
<1>11. SumOver(g, (T \ {x}) \ {y}) \in Int
  <2>1. (T \ {x}) \ {y} \in SUBSET S
    BY <1>3
  <2> QED
    BY <2>1, FS_Subset, SumType
<1>12. g[x] \in Int /\ g[y] \in Int
  BY <1>3, <1>4, <1>5
<1>13. SumOver(g, T \ {x}) = g[y] + SumOver(g, (T \ {y}) \ {x})
  BY <1>9, <1>10
<1>14. SumOver(g, (T \ {y}) \ {x}) \in Int
  BY <1>10, <1>11
<1> HIDE DEF bad
<1> QED
  BY <1>4, <1>6, <1>8, <1>12, <1>13, <1>14

\* A sum of ones counts.
LEMMA SumOnes ==
  ASSUME NEW S, IsFiniteSet(S), NEW g, \A x \in S : g[x] = 1
  PROVE  SumOver(g, S) = Cardinality(S)
<1> DEFINE bad == {T \in SUBSET S : SumOver(g, T) # Cardinality(T)}
<1>1. SUFFICES ASSUME bad # {} PROVE FALSE
  OBVIOUS
<1>2. bad \in SUBSET SUBSET S
  OBVIOUS
<1>3. PICK T \in bad : IsFiniteSet(T) /\ \A x \in T : T \ {x} \notin bad
  <2> HIDE DEF bad
  <2> QED
    BY <1>1, <1>2, SmallestPart
<1>4. T # {}
  BY <1>3, SumEmpty, FS_EmptySet
<1>5. Some(T) \in T
  BY <1>4 DEF Some
<1>6. SumOver(g, T \ {Some(T)}) = Cardinality(T \ {Some(T)}) /\ g[Some(T)] = 1
  BY <1>3, <1>5
<1>7. SumOver(g, T) = g[Some(T)] + SumOver(g, T \ {Some(T)})
  BY <1>3, <1>4, SumStep
<1>8. Cardinality(T \ {Some(T)}) = Cardinality(T) - 1 /\ Cardinality(T) \in Nat
  BY <1>3, <1>5, FS_RemoveElement, FS_CardinalityType
<1> QED
  BY <1>3, <1>6, <1>7, <1>8

\* The sum over a part and over the rest.
LEMMA SumSplit ==
  ASSUME NEW S, IsFiniteSet(S), NEW g, \A x \in S : g[x] \in Int, NEW P \in SUBSET S
  PROVE  SumOver(g, S) = SumOver(g, P) + SumOver(g, S \ P)
<1> DEFINE bad == {T \in SUBSET S : SumOver(g, S) # SumOver(g, T) + SumOver(g, S \ T)}
<1>1. SUFFICES ASSUME bad # {} PROVE FALSE
  OBVIOUS
<1>2. bad \in SUBSET SUBSET S
  OBVIOUS
<1>3. PICK T \in bad : IsFiniteSet(T) /\ \A x \in T : T \ {x} \notin bad
  <2> HIDE DEF bad
  <2> QED
    BY <1>1, <1>2, SmallestPart
<1>4. \A Q \in SUBSET S : IsFiniteSet(Q) /\ SumOver(g, Q) \in Int
  BY FS_Subset, SumType
<1>5. S \ {} = S
  OBVIOUS
<1>6. T # {}
  <2> SUFFICES ASSUME T = {} PROVE FALSE
    OBVIOUS
  <2>1. SumOver(g, T) = 0 /\ SumOver(g, S \ T) = SumOver(g, S)
    BY SumEmpty, <1>5
  <2>2. SumOver(g, S) \in Int
    BY <1>4
  <2> QED
    BY <1>3, <2>1, <2>2
<1>7. PICK a \in T : TRUE
  BY <1>6
<1>8. SumOver(g, S) = SumOver(g, T \ {a}) + SumOver(g, S \ (T \ {a}))
  BY <1>3, <1>7
<1>9. SumOver(g, T) = g[a] + SumOver(g, T \ {a})
  BY <1>3, <1>7, SumPick
<1>10. (S \ (T \ {a})) \ {a} = S \ T
  OBVIOUS
<1>11. SumOver(g, S \ (T \ {a})) = g[a] + SumOver(g, S \ T)
  <2>1. a \in S \ (T \ {a}) /\ S \ (T \ {a}) \in SUBSET S
    BY <1>3, <1>7
  <2> HIDE DEF bad
  <2> QED
    BY <1>4, <1>10, <2>1, SumPick
<1>12. g[a] \in Int /\ SumOver(g, T \ {a}) \in Int /\ SumOver(g, S \ T) \in Int
  BY <1>3, <1>4, <1>7
<1>13. SumOver(g, S) # SumOver(g, T) + SumOver(g, S \ T)
  BY <1>3
<1> HIDE DEF bad
<1> QED
  BY <1>8, <1>9, <1>11, <1>12, <1>13

\* The elements of a kind.
Part(S, kind, i) == {x \in S : kind[x] = i}

\* The sum over the elements of each kind, summed up over the kinds.
LEMMA SumByKind ==
  ASSUME NEW S, IsFiniteSet(S), NEW g, \A x \in S : g[x] \in Int,
         NEW I, IsFiniteSet(I), NEW kind, \A x \in S : kind[x] \in I,
         NEW h, \A i \in I : h[i] = SumOver(g, Part(S, kind, i))
  PROVE  SumOver(g, S) = SumOver(h, I)
<1> DEFINE Of(J) == {x \in S : kind[x] \in J}
           bad == {J \in SUBSET I : SumOver(g, Of(J)) # SumOver(h, J)}
<1>1. \A Q \in SUBSET S : IsFiniteSet(Q) /\ SumOver(g, Q) \in Int
  BY FS_Subset, SumType
<1>2. \A i \in I : h[i] \in Int
  BY <1>1 DEF Part
<1>3. bad = {}
  <2> SUFFICES ASSUME bad # {} PROVE FALSE
    OBVIOUS
  <2>1. bad \in SUBSET SUBSET I
    OBVIOUS
  <2>2. PICK J \in bad : IsFiniteSet(J) /\ \A i \in J : J \ {i} \notin bad
    <3> HIDE DEF bad
    <3> QED
      BY <2>1, SmallestPart
  <2>3. J # {}
    <3>1. Of({}) = {}
      OBVIOUS
    <3> QED
      BY <2>2, <3>1, SumEmpty
  <2>4. PICK i \in J : TRUE
    BY <2>3
  <2>5. SumOver(g, Of(J \ {i})) = SumOver(h, J \ {i})
    BY <2>2, <2>4
  <2>6. i \in I /\ J \in SUBSET I /\ SumOver(g, Of(J)) # SumOver(h, J)
    BY <2>2, <2>4
  <2> HIDE DEF bad
  <2>7. Part(S, kind, i) \in SUBSET Of(J) /\ Of(J) \ Part(S, kind, i) = Of(J \ {i})
    BY <2>4 DEF Part
  <2>8. Of(J) \in SUBSET S
    OBVIOUS
  <2> HIDE DEF Of
  <2>9. SumOver(g, Of(J)) = SumOver(g, Part(S, kind, i)) + SumOver(g, Of(J) \ Part(S, kind, i))
    BY <1>1, <2>7, <2>8, SumSplit
  <2>10. SumOver(h, J) = h[i] + SumOver(h, J \ {i})
    BY <1>2, <2>2, <2>4, <2>6, SumPick
  <2> QED
    BY <2>5, <2>6, <2>7, <2>9, <2>10
<1>4. I \in SUBSET I /\ Of(I) = S
  OBVIOUS
<1> QED
  BY <1>3, <1>4

\* The elements may be renamed.
LEMMA SumRenamed ==
  ASSUME NEW S, IsFiniteSet(S), NEW name, \A x, y \in S : name[x] = name[y] => x = y,
         NEW g, NEW h, \A x \in S : h[x] \in Int /\ g[name[x]] = h[x]
  PROVE  SumOver(g, {name[x] : x \in S}) = SumOver(h, S)
<1> DEFINE Named(T) == {name[x] : x \in T}
           bad == {T \in SUBSET S : SumOver(g, Named(T)) # SumOver(h, T)}
<1>1. bad = {}
  <2> SUFFICES ASSUME bad # {} PROVE FALSE
    OBVIOUS
  <2>1. bad \in SUBSET SUBSET S
    OBVIOUS
  <2>2. PICK T \in bad : IsFiniteSet(T) /\ \A i \in T : T \ {i} \notin bad
    <3> HIDE DEF bad
    <3> QED
      BY <2>1, SmallestPart
  <2>3. T # {}
    <3>1. Named({}) = {}
      OBVIOUS
    <3> QED
      BY <2>2, <3>1, SumEmpty
  <2>4. PICK a \in T : TRUE
    BY <2>3
  <2>5. SumOver(g, Named(T \ {a})) = SumOver(h, T \ {a})
    BY <2>2, <2>4
  <2>6. a \in S /\ T \in SUBSET S /\ SumOver(g, Named(T)) # SumOver(h, T)
    BY <2>2, <2>4
  <2> HIDE DEF bad
  <2>7. name[a] \in Named(T) /\ Named(T) \ {name[a]} = Named(T \ {a})
    BY <2>4, <2>6
  <2>8. \A n \in Named(T) : g[n] \in Int
    BY <2>6
  <2>9. IsFiniteSet(Named(T))
    <3> DEFINE f == [x \in T |-> name[x]]
    <3>1. DOMAIN f = T /\ {f[x] : x \in DOMAIN f} = Named(T)
      OBVIOUS
    <3> HIDE DEF f, Named
    <3> QED
      BY <2>2, <3>1, FiniteImage
  <2> HIDE DEF Named
  <2>10. SumOver(g, Named(T)) = g[name[a]] + SumOver(g, Named(T) \ {name[a]})
    BY <2>7, <2>8, <2>9, SumPick
  <2>11. SumOver(h, T) = h[a] + SumOver(h, T \ {a})
    <3>1. \A x \in T : h[x] \in Int
      BY <2>6
    <3> QED
      BY <2>2, <2>4, <3>1, SumPick
  <2> QED
    BY <2>5, <2>6, <2>7, <2>10, <2>11
<1>2. S \in SUBSET S /\ Named(S) = {name[x] : x \in S}
  OBVIOUS
<1> QED
  BY <1>1, <1>2

-----------------------------------------------------------------------------
(* The sums of the model.                                                   *)

\* The tokens of a summary are those of its rows.
LEMMA SummaryTokens ==
  ASSUME NEW r, Present(r) # {}, IsFiniteSet(Present(r))
  PROVE  Summary(r).tokens = SumOver([s \in Present(r) |-> r[s].tokens], Present(r))
<1> DEFINE S == Present(r)
           g == [s \in S |-> r[s].tokens]
           Body(i) == [s \in SUBSET S |-> IF s = {} THEN 0
                                          ELSE r[CHOOSE x \in s : TRUE].tokens + i[s \ {CHOOSE x \in s : TRUE}]]
           it == CHOOSE i : i = Body(i)
<1>1. Summary(r).tokens = MapThenSumSet(LAMBDA s : r[s].tokens, S)
  BY DEF Summary
<1>2. MapThenSumSet(LAMBDA s : r[s].tokens, S) = it[S]
  BY Zenon DEF MapThenSumSet, MapThenFoldSet
<1>3. \A s \in SUBSET S : s # {} => Some(s) \in S
  BY DEF Some
<1> HIDE DEF S
<1>4. \A i : SumsUp(g, SUBSET S, i) <=> i = Body(i)
  BY <1>3 DEF SumsUp, Some
<1>5. \E i : SumsUp(g, SUBSET S, i)
  BY SumsExist DEF S
<1> HIDE DEF Body
<1>6. it = Body(it)
  BY <1>4, <1>5
<1>7. SumsUp(g, SUBSET S, it)
  BY <1>4, <1>6
<1> HIDE DEF it, g
<1>8. SumOver(g, S) = it[S]
  BY <1>7, SumIs DEF S
<1> QED
  BY <1>1, <1>2, <1>8 DEF S, g

ListedTokens == SumOver([t \in Dash!Listed |-> summaries[t].tokens], Dash!Listed)
UsedTokens   == SumOver([p \in Dash!Used |-> Dash!SpanAt(p).tokens], Dash!Used)
UsageSum(field) == SumOver([item \in usage |-> item[field]], usage)

\* What Metrics adds up in its first statement,
LEMMA CountedTokens ==
  ASSUME IsFiniteSet(Dash!Listed)
  PROVE  Dash!MapThenSumSet(LAMBDA t : summaries[t].tokens, Dash!Listed) = ListedTokens
<1> DEFINE S == Dash!Listed
           g == [t \in S |-> summaries[t].tokens]
           Body(i) == [s \in SUBSET S |-> IF s = {} THEN 0
                         ELSE summaries[CHOOSE x \in s : TRUE].tokens + i[s \ {CHOOSE x \in s : TRUE}]]
           it == CHOOSE i : i = Body(i)
<1> HIDE DEF S
<1>1. Dash!MapThenSumSet(LAMBDA t : summaries[t].tokens, S) = it[S]
  BY Zenon DEF Dash!MapThenSumSet, Dash!MapThenFoldSet
<1>2. \A s \in SUBSET S : s # {} => Some(s) \in S
  BY DEF Some
<1>3. \A i : SumsUp(g, SUBSET S, i) <=> i = Body(i)
  BY <1>2 DEF SumsUp, Some
<1>4. \E i : SumsUp(g, SUBSET S, i)
  BY SumsExist DEF S
<1> HIDE DEF Body
<1>5. it = Body(it)
  BY <1>3, <1>4
<1>6. SumsUp(g, SUBSET S, it)
  BY <1>3, <1>5
<1> HIDE DEF it, g
<1>7. SumOver(g, S) = it[S]
  BY <1>6, SumIs DEF S
<1> QED
  BY <1>1, <1>7 DEF S, g, ListedTokens

\* in its third,
LEMMA KindTokens ==
  ASSUME NEW S, IsFiniteSet(S)
  PROVE  Dash!TokensOf(S) = SumOver([p \in S |-> Dash!SpanAt(p).tokens], S)
<1> DEFINE g == [p \in S |-> Dash!SpanAt(p).tokens]
           Body(i) == [s \in SUBSET S |-> IF s = {} THEN 0
                         ELSE Dash!SpanAt(CHOOSE x \in s : TRUE).tokens + i[s \ {CHOOSE x \in s : TRUE}]]
           it == CHOOSE i : i = Body(i)
<1>1. Dash!TokensOf(S) = it[S]
  BY Zenon DEF Dash!TokensOf, Dash!MapThenSumSet, Dash!MapThenFoldSet
<1>2. \A s \in SUBSET S : s # {} => Some(s) \in S
  BY DEF Some
<1>3. \A i : SumsUp(g, SUBSET S, i) <=> i = Body(i)
  BY <1>2 DEF SumsUp, Some
<1>4. \E i : SumsUp(g, SUBSET S, i)
  BY SumsExist
<1> HIDE DEF Body
<1>5. it = Body(it)
  BY <1>3, <1>4
<1>6. SumsUp(g, SUBSET S, it)
  BY <1>3, <1>5
<1> HIDE DEF it, g
<1>7. SumOver(g, S) = it[S]
  BY <1>6, SumIs
<1> QED
  BY <1>1, <1>7 DEF g

\* and what the page adds up of its answer.
LEMMA UsageSums ==
  ASSUME NEW field, IsFiniteSet(usage)
  PROVE  Dash!UsedIn(field) = UsageSum(field)
<1> DEFINE g == [item \in usage |-> item[field]]
           Body(i) == [s \in SUBSET usage |-> IF s = {} THEN 0
                         ELSE (CHOOSE x \in s : TRUE)[field] + i[s \ {CHOOSE x \in s : TRUE}]]
           it == CHOOSE i : i = Body(i)
<1>1. Dash!UsedIn(field) = it[usage]
  BY Zenon DEF Dash!UsedIn, Dash!MapThenSumSet, Dash!MapThenFoldSet
<1>2. \A s \in SUBSET usage : s # {} => Some(s) \in usage
  BY DEF Some
<1>3. \A i : SumsUp(g, SUBSET usage, i) <=> i = Body(i)
  BY <1>2 DEF SumsUp, Some
<1>4. \E i : SumsUp(g, SUBSET usage, i)
  BY SumsExist
<1> HIDE DEF Body
<1>5. it = Body(it)
  BY <1>3, <1>4
<1>6. SumsUp(g, SUBSET usage, it)
  BY <1>3, <1>5
<1> HIDE DEF it, g
<1>7. SumOver(g, usage) = it[usage]
  BY <1>6, SumIs
<1> QED
  BY <1>1, <1>7 DEF g, UsageSum

-----------------------------------------------------------------------------
(* One state of the store.                                                  *)

\* What the summary of some rows says of them: there is one if there are rows, and it starts
\* where one of them does.
LEMMA SummaryOf ==
  ASSUME NEW r \in Rows
  PROVE  /\ IsFiniteSet(Present(r)) /\ Present(r) \subseteq Span
         /\ Summary(r) # Absent <=> Present(r) # {}
         /\ Summary(r) # Absent => \E s \in Present(r) : r[s].start = Summary(r).start
<1> DEFINE here == Present(r)
           starts == {r[s].start : s \in here}
<1>1. Summary(r) # Absent <=> here # {}
  BY ReadsAssumption DEF Summary
<1>2. IsFiniteSet(here) /\ here \subseteq Span
  <2>1. here \in SUBSET Span
    BY DEF Present
  <2> HIDE DEF here
  <2> QED
    BY <2>1, FS_Subset, ReadsAssumption
<1>3. ASSUME here # {} PROVE Summary(r).start \in starts
  <2>1. Summary(r).start = Min(starts)
    BY <1>3 DEF Summary
  <2>2. \A s \in here : r[s].start \in Int
    BY ReadsAssumption DEF Rows, Present
  <2>3. IsFiniteSet(starts)
    <3> DEFINE f == [s \in here |-> r[s].start]
    <3>1. DOMAIN f = here /\ starts = {f[x] : x \in DOMAIN f}
      OBVIOUS
    <3> HIDE DEF f, starts, here
    <3> QED
      BY <1>2, <3>1, FiniteImage
  <2>4. starts \in SUBSET Int /\ starts # {}
    BY <1>3, <2>2
  <2> HIDE DEF starts
  <2> QED
    BY <2>1, <2>3, <2>4, LeastInt
<1> QED
  BY <1>1, <1>2, <1>3

LEMMA SummaryFacts ==
  ASSUME StoreInv, phase = "ready", NEW t \in Trace
  PROVE  /\ IsFiniteSet(Present(spans[t])) /\ Present(spans[t]) \subseteq Span
         /\ summaries[t] # Absent <=> Present(spans[t]) # {}
         /\ summaries[t] # Absent => \E s \in Present(spans[t]) : spans[t][s].start = summaries[t].start
<1>1. summaries[t] = Summary(spans[t]) /\ spans[t] \in Rows
  BY DEF StoreInv, SummaryShape, StoreShape
<1> QED
  BY <1>1, SummaryOf

LEMMA WindowFinite ==
  /\ IsFiniteSet(Dash!Listed) /\ Dash!Listed \subseteq Trace
  /\ IsFiniteSet(Dash!Used) /\ Dash!Used \subseteq Trace \X Span
<1>1. Dash!Listed \in SUBSET Trace
  BY DEF Dash!Listed
<1>2. Dash!Used \in SUBSET (Trace \X Span)
  BY DEF Dash!Used, Dash!Stored
<1>3. IsFiniteSet(Trace \X Span)
  BY FS_Product, ReadsAssumption
<1> QED
  BY <1>1, <1>2, <1>3, FS_Subset, ReadsAssumption

\* A span in the window is a stored version.
LEMMA UsedAre ==
  ASSUME StoreInv, NEW p \in Dash!Used
  PROVE  /\ p \in Trace \X Span /\ p[2] \in Present(spans[p[1]])
         /\ Dash!SpanAt(p) \in Version
         /\ Dash!SpanAt(p).tokens \in Int /\ Dash!SpanAt(p).kind \in Int
<1>1. p \in Trace \X Span /\ spans[p[1]][p[2]] # Absent
  BY DEF Dash!Used, Dash!Stored
<1>2. spans[p[1]] \in Rows
  BY <1>1 DEF StoreInv, StoreShape
<1>3. spans[p[1]][p[2]] \in Version
  BY <1>1, <1>2 DEF Rows
<1> QED
  BY <1>1, <1>3, ReadsAssumption DEF Present, Dash!SpanAt

\* No more traces than spans start in the window.
LEMMA RequestsAreSpans ==
  ASSUME StoreInv, phase = "ready"
  PROVE  Cardinality(Dash!Listed) <= Cardinality(Dash!Used)
<1> DEFINE one(t) == CHOOSE s \in Present(spans[t]) : spans[t][s].start = summaries[t].start
           f == [t \in Dash!Listed |-> <<t, one(t)>>]
<1>1. \A t \in Dash!Listed : <<t, one(t)>> \in Dash!Used
  <2> TAKE t \in Dash!Listed
  <2>1. t \in Trace /\ summaries[t] # Absent /\ Dash!InWindow(summaries[t].start)
    BY DEF Dash!Listed
  <2>2. one(t) \in Present(spans[t]) /\ spans[t][one(t)].start = summaries[t].start
    <3>1. \E s \in Present(spans[t]) : spans[t][s].start = summaries[t].start
      BY <2>1, SummaryFacts
    <3> QED
      BY <3>1
  <2> HIDE DEF one
  <2> QED
    BY <2>1, <2>2 DEF Dash!Used, Dash!Stored, Dash!SpanAt, Present
<1> HIDE DEF one
<1>2. f \in [Dash!Listed -> Dash!Used]
  BY <1>1
<1>3. \A t, u \in Dash!Listed : f[t] = f[u] => t = u
  OBVIOUS
<1> HIDE DEF f
<1>4. f \in Injection(Dash!Listed, Dash!Used)
  BY <1>2, <1>3 DEF Injection, IsInjective
<1> QED
  BY <1>4, WindowFinite, FS_Injection

\* In a window of everything all traces and all spans are listed, and their tokens are the same.
LEMMA TokensOfAll ==
  ASSUME StoreInv, phase = "ready", Dash!CoversAll
  PROVE  ListedTokens = UsedTokens
<1> DEFINE L == Dash!Listed
           U == Dash!Used
           g == [p \in U |-> Dash!SpanAt(p).tokens]
           of == [p \in U |-> p[1]]
           h == [t \in L |-> summaries[t].tokens]
<1>1. /\ \A t \in Trace : Present(spans[t]) # {} => t \in L
      /\ \A t \in L : t \in Trace /\ summaries[t] # Absent /\ Present(spans[t]) # {}
  <2>1. \A t \in Trace : summaries[t] # Absent => Dash!InWindow(summaries[t].start)
    <3> SUFFICES ASSUME NEW t \in Trace, summaries[t] # Absent PROVE Dash!InWindow(summaries[t].start)
      OBVIOUS
    <3>1. PICK s \in Present(spans[t]) : spans[t][s].start = summaries[t].start
      BY SummaryFacts
    <3>2. spans[t][s] \in Version
      BY DEF StoreInv, StoreShape, Rows, Present
    <3> QED
      BY <3>1, <3>2 DEF Dash!CoversAll
  <2> QED
    BY <2>1, SummaryFacts DEF Dash!Listed
<1>2. \A t \in Trace, s \in Span : <<t, s>> \in U <=> s \in Present(spans[t])
  <2> TAKE t \in Trace, s \in Span
  <2>1. spans[t][s] # Absent => spans[t][s] \in Version
    BY DEF StoreInv, StoreShape, Rows
  <2> QED
    BY <2>1 DEF Dash!Used, Dash!Stored, Dash!SpanAt, Present, Dash!CoversAll
<1>3. IsFiniteSet(L) /\ IsFiniteSet(U) /\ U \subseteq Trace \X Span
  BY WindowFinite
<1>4. \A p \in U : p = <<p[1], p[2]>> /\ p[1] \in L /\ g[p] \in Int /\ of[p] = p[1]
  BY <1>1, <1>3, UsedAre
<1>5. \A t \in L : h[t] = SumOver(g, Part(U, of, t))
  <2> TAKE t \in L
  <2> DEFINE here == Present(spans[t])
             name == [s \in here |-> <<t, s>>]
             v == [s \in here |-> spans[t][s].tokens]
             named == {name[s] : s \in here}
  <2>1. t \in Trace /\ here # {} /\ IsFiniteSet(here) /\ here \subseteq Span
    BY <1>1, SummaryFacts DEF Present
  <2>2. summaries[t].tokens = SumOver(v, here)
    <3>1. summaries[t] = Summary(spans[t])
      BY <2>1 DEF StoreInv, SummaryShape
    <3> QED
      BY <2>1, <3>1, SummaryTokens
  <2>3. named = Part(U, of, t)
    <3>1. ASSUME NEW s \in here PROVE <<t, s>> \in U /\ of[<<t, s>>] = t
      BY <1>2, <2>1
    <3>2. ASSUME NEW p \in U, of[p] = t PROVE p[2] \in here /\ p = <<t, p[2]>>
      BY <1>4, <3>2, UsedAre
    <3> HIDE DEF of, U, here
    <3>3. \A p \in named : p \in U /\ of[p] = t
      BY <3>1
    <3>4. \A p \in U : of[p] = t => p \in named
      BY <3>2
    <3> HIDE DEF named
    <3> QED
      BY <3>3, <3>4 DEF Part
  <2>4. \A s \in here : v[s] \in Int /\ g[name[s]] = v[s]
    <3> TAKE s \in here
    <3>1. <<t, s>> \in U
      BY <1>2, <2>1
    <3>2. g[<<t, s>>] = Dash!SpanAt(<<t, s>>).tokens /\ Dash!SpanAt(<<t, s>>) = spans[t][s]
      BY <3>1 DEF Dash!SpanAt
    <3> QED
      BY <1>4, <3>1, <3>2
  <2>5. \A x, y \in here : name[x] = name[y] => x = y
    OBVIOUS
  <2> HIDE DEF here, name, v, g
  <2>6. SumOver(g, named) = SumOver(v, here)
    BY <2>1, <2>4, <2>5, SumRenamed
  <2> HIDE DEF named, of
  <2> QED
    BY <2>2, <2>3, <2>6
<1> HIDE DEF L, U, g, of, h
<1>6. \A p \in U : g[p] \in Int
  BY <1>4
<1>7. \A p \in U : of[p] \in L
  BY <1>4
<1>8. SumOver(g, U) = SumOver(h, L)
  BY <1>3, <1>5, <1>6, <1>7, SumByKind
<1> QED
  BY <1>8 DEF ListedTokens, UsedTokens, L, U, g, h

\* If fewer are taken than are allowed, all are.
LEMMA FirstAreAll ==
  ASSUME NEW R, NEW S, IsFiniteSet(S), StrictOrder(R, S), NEW n \in Nat \ {0},
         NEW P, P = FirstOf(R, S, n), Cardinality(P) < n
  PROVE  P = S
<1> DEFINE rest == S \ P
<1>1. SUFFICES ASSUME rest # {} PROVE FALSE
  BY DEF FirstOf
<1>2. rest \in SUBSET S
  OBVIOUS
<1> HIDE DEF rest
<1>3. PICK z \in rest : \A other \in rest \ {z} : <<z, other>> \in R
  BY <1>1, <1>2, Extremes
<1>4. z \in S /\ z \notin P
  BY <1>3 DEF rest
<1>5. Ahead(R, S, z) \in SUBSET P
  <2> SUFFICES ASSUME NEW j \in Ahead(R, S, z), j \notin P PROVE FALSE
    OBVIOUS
  <2>1. j \in S /\ <<j, z>> \in R /\ j \in rest
    BY DEF Ahead, rest
  <2>2. j # z
    BY <1>4, <2>1 DEF StrictOrder
  <2>3. <<z, j>> \in R
    BY <1>3, <2>1, <2>2
  <2> QED
    BY <1>4, <2>1, <2>3 DEF StrictOrder
<1>6. IsFiniteSet(P) /\ Cardinality(P) \in Nat
  <2>1. P \in SUBSET S
    BY DEF FirstOf
  <2> QED
    BY <2>1, FS_Subset, FS_CardinalityType
<1>7. Cardinality(Ahead(R, S, z)) <= Cardinality(P) /\ Cardinality(Ahead(R, S, z)) \in Nat
  BY <1>5, <1>6, FS_Subset, FS_CardinalityType
<1>8. ~(Cardinality(Ahead(R, S, z)) < n)
  BY <1>4 DEF FirstOf
<1> QED
  BY <1>6, <1>7, <1>8

\* The kinds of the spans in the window, and their order in the breakdown.
Kinds == {Dash!SpanAt(p).kind : p \in Dash!Used}
ByUse == {q \in Int \X Int : Dash!Before(q[1], q[2])}

LEMMA KindsOrdered ==
  ASSUME StoreInv
  PROVE  /\ IsFiniteSet(Kinds) /\ Kinds \subseteq Int
         /\ StrictOrder(ByUse, Kinds)
         /\ \A k \in Kinds : Ahead(ByUse, Kinds, k) = {other \in Kinds : Dash!Before(other, k)}
<1>1. Kinds \subseteq Int
  BY UsedAre DEF Kinds
<1>2. IsFiniteSet(Kinds)
  <2> DEFINE f == [p \in Dash!Used |-> Dash!SpanAt(p).kind]
  <2>1. DOMAIN f = Dash!Used /\ Kinds = {f[x] : x \in DOMAIN f}
    BY DEF Kinds
  <2> HIDE DEF f
  <2> QED
    BY <2>1, WindowFinite, FiniteImage
<1> DEFINE n(k) == Cardinality(Dash!OfKind(k))
<1>3. \A k : n(k) \in Nat
  <2> TAKE k
  <2>1. Dash!OfKind(k) \in SUBSET Dash!Used
    BY DEF Dash!OfKind
  <2> QED
    BY <2>1, WindowFinite, FS_Subset, FS_CardinalityType
<1>4. \A j, k : Dash!Before(j, k) <=> n(j) > n(k) \/ (n(j) = n(k) /\ j < k)
  BY SameCardinality DEF Dash!Before
<1> HIDE DEF n
<1>5. \A j, k \in Kinds : <<j, k>> \in ByUse <=> Dash!Before(j, k)
  BY <1>1 DEF ByUse
<1>6. StrictOrder(ByUse, Kinds)
  <2>1. \A j, k \in Kinds : <<j, k>> \in ByUse <=> n(j) > n(k) \/ (n(j) = n(k) /\ j < k)
    BY <1>4, <1>5
  <2> QED
    BY <1>1, <1>3, <2>1 DEF StrictOrder
<1>7. \A k \in Kinds : Ahead(ByUse, Kinds, k) = {other \in Kinds : Dash!Before(other, k)}
  BY <1>5 DEF Ahead
<1> QED
  BY <1>1, <1>2, <1>6, <1>7

\* Counted kind by kind, the spans are all there, and so are their tokens.
LEMMA UsageIs ==
  ASSUME StoreInv, Dash!ReadUsage
  PROVE  /\ IsFiniteSet(usage')
         /\ Cardinality(usage') < MaxKinds => UsageSum("spans")' = Cardinality(Dash!Used)
         /\ Cardinality(usage') < MaxKinds => UsageSum("tokens")' = UsedTokens
<1> DEFINE item(k) == [kind |-> k, spans |-> Dash!Cardinality(Dash!OfKind(k)),
                       tokens |-> Dash!TokensOf(Dash!OfKind(k))]
           first == FirstOf(ByUse, Kinds, MaxKinds)
           name == [k \in first |-> item(k)]
           named == {name[k] : k \in first}
<1>1. usage' = named
  <2>1. usage' = {item(k) : k \in {j \in Kinds :
                    Dash!Cardinality({other \in Kinds : Dash!Before(other, j)}) < MaxKinds}}
    BY DEF Dash!ReadUsage, Kinds
  <2>2. first = {j \in Kinds : Dash!Cardinality({other \in Kinds : Dash!Before(other, j)}) < MaxKinds}
    BY KindsOrdered, SameCardinality DEF FirstOf
  <2> HIDE DEF item, first
  <2> QED
    BY <2>1, <2>2
<1>2. first \in SUBSET Kinds /\ IsFiniteSet(first)
  <2>1. first \in SUBSET Kinds
    BY DEF FirstOf
  <2> QED
    BY <2>1, KindsOrdered, FS_Subset
<1>3. \A k \in first : name[k] = item(k)
  OBVIOUS
<1>4. DOMAIN name = first /\ \A j, k \in first : name[j] = name[k] => j = k
  <2>1. \A k \in first : name[k].kind = k
    OBVIOUS
  <2> QED
    BY <2>1
<1> HIDE DEF first, name
<1>5. IsFiniteSet(named) /\ Cardinality(named) = Cardinality(first)
  <2>1. name \in [first -> named] /\ \A x \in named : \E k \in first : name[k] = x
    <3>1. name = [k \in first |-> name[k]]
      BY DEF name
    <3> QED
      BY <3>1
  <2> HIDE DEF named
  <2>2. name \in Surjection(first, named) /\ name \in Injection(first, named)
    BY <1>4, <2>1 DEF Surjection, Injection, IsInjective
  <2> QED
    BY <1>2, <2>2, FS_Surjection
<1>6. ASSUME Cardinality(usage') < MaxKinds
      PROVE  /\ UsageSum("spans")' = Cardinality(Dash!Used)
             /\ UsageSum("tokens")' = UsedTokens
  <2> DEFINE U == Dash!Used
             kind == [p \in U |-> Dash!SpanAt(p).kind]
             one == [p \in U |-> 1]
             tokens == [p \in U |-> Dash!SpanAt(p).tokens]
             number == [k \in Kinds |-> Cardinality(Dash!OfKind(k))]
             burnt == [k \in Kinds |-> Dash!TokensOf(Dash!OfKind(k))]
             spansOf == [x \in named |-> x["spans"]]
             tokensOf == [x \in named |-> x["tokens"]]
  <2>1. first = Kinds
    <3>1. Cardinality(first) < MaxKinds /\ MaxKinds \in Nat \ {0}
      BY <1>1, <1>5, <1>6, ReadsAssumption
    <3> QED
      BY <3>1, KindsOrdered, FirstAreAll DEF first
  <2>2. IsFiniteSet(U) /\ IsFiniteSet(Kinds) /\ Kinds \subseteq Int
    BY WindowFinite, KindsOrdered
  <2>3. \A p \in U : kind[p] \in Kinds /\ one[p] = 1 /\ tokens[p] \in Int
    BY UsedAre DEF Kinds
  <2>4. \A k : Part(U, kind, k) = Dash!OfKind(k) /\ IsFiniteSet(Part(U, kind, k)) /\ Part(U, kind, k) \subseteq U
    <3> TAKE k
    <3>1. Part(U, kind, k) \in SUBSET U
      BY DEF Part
    <3>2. Part(U, kind, k) = Dash!OfKind(k)
      BY DEF Part, Dash!OfKind
    <3> QED
      BY <2>2, <3>1, <3>2, FS_Subset
  <2>5. \A k \in Kinds : number[k] = SumOver(one, Part(U, kind, k)) /\ number[k] \in Int
    <3> TAKE k \in Kinds
    <3> HIDE DEF U, one, kind
    <3>1. SumOver(one, Part(U, kind, k)) = Cardinality(Part(U, kind, k))
      BY <2>3, <2>4, SumOnes
    <3> QED
      BY <2>4, <3>1, FS_CardinalityType
  <2>6. \A k \in Kinds : burnt[k] = SumOver(tokens, Part(U, kind, k)) /\ burnt[k] \in Int
    <3> TAKE k \in Kinds
    <3> DEFINE P == Part(U, kind, k)
               own == [p \in P |-> Dash!SpanAt(p).tokens]
    <3>1. burnt[k] = SumOver(own, P)
      <4>1. P = Dash!OfKind(k) /\ IsFiniteSet(P)
        BY <2>4
      <4>2. Dash!TokensOf(P) = SumOver(own, P)
        <5> HIDE DEF P
        <5> QED
          BY <4>1, KindTokens
      <4> QED
        BY <4>1, <4>2
    <3>2. \A p \in P : own[p] = tokens[p] /\ tokens[p] \in Int
      BY <2>3, <2>4
    <3>3. IsFiniteSet(P)
      BY <2>4
    <3> HIDE DEF P, own, tokens, burnt
    <3>4. SumOver(own, P) = SumOver(tokens, P)
      BY <3>2, <3>3, SumSame
    <3>5. SumOver(tokens, P) \in Int
      BY <3>2, <3>3, SumType
    <3> QED
      BY <3>1, <3>4, <3>5 DEF P
  <2>7. \A k \in first : /\ spansOf[name[k]] = number[k] /\ number[k] \in Int
                         /\ tokensOf[name[k]] = burnt[k] /\ burnt[k] \in Int
    <3> TAKE k \in first
    <3>1. name[k] \in named /\ k \in Kinds
      BY <2>1
    <3>2. name[k]["spans"] = number[k] /\ name[k]["tokens"] = burnt[k]
      <4>1. number[k] = Dash!Cardinality(Dash!OfKind(k)) /\ burnt[k] = Dash!TokensOf(Dash!OfKind(k))
        BY <3>1, SameCardinality
      <4>2. name[k] = item(k)
        BY <1>3
      <4> HIDE DEF number, burnt
      <4> QED
        BY <4>1, <4>2
    <3> HIDE DEF number, burnt, item, named
    <3> QED
      BY <2>5, <2>6, <3>1, <3>2
  <2> HIDE DEF number, burnt, item, spansOf, tokensOf, kind, one, tokens, U
  <2>8. SumOver(spansOf, named) = SumOver(number, first)
    BY <1>2, <1>4, <2>7, SumRenamed
  <2>9. SumOver(tokensOf, named) = SumOver(burnt, first)
    BY <1>2, <1>4, <2>7, SumRenamed
  <2>10. SumOver(one, U) = SumOver(number, Kinds)
    <3>1. \A p \in U : one[p] \in Int
      BY <2>3
    <3>2. \A p \in U : kind[p] \in Kinds
      BY <2>3
    <3>3. \A k \in Kinds : number[k] = SumOver(one, Part(U, kind, k))
      BY <2>5
    <3>4. IsFiniteSet(U) /\ IsFiniteSet(Kinds)
      BY <2>2
    <3> QED
      BY <3>1, <3>2, <3>3, <3>4, SumByKind
  <2>11. SumOver(tokens, U) = SumOver(burnt, Kinds)
    <3>1. \A p \in U : tokens[p] \in Int
      BY <2>3
    <3>2. \A p \in U : kind[p] \in Kinds
      BY <2>3
    <3>3. \A k \in Kinds : burnt[k] = SumOver(tokens, Part(U, kind, k))
      BY <2>6
    <3>4. IsFiniteSet(U) /\ IsFiniteSet(Kinds)
      BY <2>2
    <3> QED
      BY <3>1, <3>2, <3>3, <3>4, SumByKind
  <2>12. SumOver(one, U) = Cardinality(U)
    BY <2>2, <2>3, SumOnes
  <2>13. UsageSum("spans")' = SumOver(spansOf, named) /\ UsageSum("tokens")' = SumOver(tokensOf, named)
    <3> HIDE DEF named
    <3> QED
      BY <1>1 DEF UsageSum, spansOf, tokensOf
  <2>14. UsedTokens = SumOver(tokens, U)
    BY DEF UsedTokens, tokens, U
  <2> QED
    BY <2>1, <2>8, <2>9, <2>10, <2>11, <2>12, <2>13, <2>14 DEF U
<1> QED
  BY <1>1, <1>5, <1>6

-----------------------------------------------------------------------------
(* What the writer does to a request.                                       *)

\* No committed row disappears.
LEMMA RowsStay ==
  ASSUME StoreInv, KeepsRows, StoreNext, NEW t \in Trace, NEW s \in Span, spans[t][s] # Absent
  PROVE  spans'[t][s] # Absent
<1>1. CASE Commit
  BY <1>1 DEF Commit, AllStatementsDone, KeepsRows, InTx
<1>2. CASE UNCHANGED spans
  BY <1>2
<1>3. Migrate \/ Upsert \/ Rollback \/ Crash \/ (\E b \in Batches : Begin(b)) \/ (\E u \in Trace : Summarise(u))
      => UNCHANGED spans
  BY DEF Migrate, Upsert, Rollback, Crash, Begin, Summarise
<1> QED
  BY <1>1, <1>2, <1>3 DEF StoreNext, StoreStep

\* What a request that is under way has read stays true while nothing is committed; and of
\* everything there can only be more.
LEMMA WindowMoves ==
  ASSUME StoreInv, KeepsRows, StoreNext, phase = "ready", phase' # "starting", UNCHANGED <<from, to>>
  PROVE  /\ phase' = "ready"
         /\ Dash!CoversAll' <=> Dash!CoversAll
         /\ UNCHANGED spans => Cardinality(Dash!Listed') = Cardinality(Dash!Listed)
         /\ UNCHANGED spans => ListedTokens' = ListedTokens
         /\ Dash!CoversAll => Cardinality(Dash!Listed) <= Cardinality(Dash!Listed')
<1>1. StoreInv' /\ phase' = "ready"
  <2>1. StoreInv'
    BY NextStore
  <2> QED
    BY <2>1 DEF StoreInv, StoreShape
<1>2. Dash!CoversAll' <=> Dash!CoversAll
  BY DEF Dash!CoversAll, Dash!InWindow
<1>3. \A t \in Trace : summaries[t] = Summary(spans[t]) /\ summaries'[t] = Summary(spans'[t]) /\ spans'[t] \in Rows
  BY <1>1 DEF StoreInv, SummaryShape, StoreShape
<1>4. ASSUME UNCHANGED spans
      PROVE  Dash!Listed' = Dash!Listed /\ ListedTokens' = ListedTokens
  <2>1. \A t \in Trace : summaries'[t] = summaries[t]
    BY <1>3, <1>4
  <2>2. Dash!Listed' = Dash!Listed /\ \A t \in Dash!Listed : t \in Trace
    BY <2>1 DEF Dash!Listed, Dash!InWindow
  <2>3. [t \in Dash!Listed |-> summaries[t].tokens]' = [t \in Dash!Listed |-> summaries[t].tokens]
    BY <2>1, <2>2
  <2> QED
    BY <2>2, <2>3 DEF ListedTokens
<1>5. ASSUME Dash!CoversAll PROVE Cardinality(Dash!Listed) <= Cardinality(Dash!Listed')
  <2>1. ASSUME NEW t \in Dash!Listed PROVE t \in Dash!Listed'
    <3>1. t \in Trace /\ summaries[t] # Absent
      BY DEF Dash!Listed
    <3>2. PICK s \in Present(spans[t]) : TRUE
      BY <3>1, SummaryFacts
    <3>3. s \in Present(spans'[t])
      BY <3>1, <3>2, RowsStay DEF Present
    <3>4. summaries'[t] # Absent
      BY <1>3, <3>1, <3>3, SummaryOf
    <3>5. PICK r \in Present(spans'[t]) : spans'[t][r].start = summaries'[t].start
      BY <1>3, <3>1, <3>4, SummaryOf
    <3>6. spans'[t][r] \in Version
      BY <1>3, <3>1, <3>5 DEF Present, Rows
    <3> QED
      BY <1>5, <3>1, <3>4, <3>5, <3>6 DEF Dash!CoversAll, Dash!Listed, Dash!InWindow
  <2>2. Dash!Listed' \in SUBSET Trace
    BY DEF Dash!Listed
  <2>3. IsFiniteSet(Dash!Listed')
    BY <2>2, FS_Subset, ReadsAssumption
  <2> QED
    BY <2>1, <2>3, FS_Subset
<1> QED
  BY <1>1, <1>2, <1>4, <1>5

-----------------------------------------------------------------------------
(* The three reads.                                                         *)

Requests == Cardinality(Dash!Listed)

\* The rows of the second statement, those that are still to be returned included.
AllRows == seen + SumOver(rows, DOMAIN rows)

\* What is known of the first two statements when the third comes,
CountFits ==
  /\ quiet => counts.requests = Requests /\ counts.tokens = ListedTokens
  /\ Dash!CoversAll => counts.requests <= Requests

RowsFit ==
  /\ IsFiniteSet(DOMAIN rows) /\ AllRows \in Int
  /\ quiet => AllRows = Requests
  /\ Dash!CoversAll => counts.requests <= AllRows /\ AllRows <= Requests

\* and then.
AnswerFits ==
  /\ IsFiniteSet(usage)
  /\ Cardinality(usage) < MaxKinds =>
       /\ quiet => counts.requests = seen /\ counts.requests <= UsageSum("spans")
       /\ quiet /\ Dash!CoversAll => counts.tokens = UsageSum("tokens")
       /\ Dash!CoversAll => counts.requests <= seen /\ seen <= UsageSum("spans")

FitInv ==
  /\ stage \in {"query", "scan", "usage", "done"} => phase = "ready" /\ counts.requests \in Nat
  /\ stage \in {"query", "scan", "usage"} => CountFits
  /\ stage \in {"scan", "usage"} => RowsFit
  /\ stage = "done" => AnswerFits

LEMMA RequestsType == Requests \in Nat
BY WindowFinite, FS_CardinalityType DEF Requests

\* What depends on the summaries and the window stays while they do.
LEMMA WindowRests ==
  ASSUME UNCHANGED <<summaries, from, to>>
  PROVE  Requests' = Requests /\ ListedTokens' = ListedTokens /\ (Dash!CoversAll' <=> Dash!CoversAll)
<1>1. Dash!Listed' = Dash!Listed /\ (Dash!CoversAll' <=> Dash!CoversAll)
  BY DEF Dash!Listed, Dash!CoversAll, Dash!InWindow
<1> QED
  BY <1>1 DEF Requests, ListedTokens

LEMMA CountFitsNext ==
  ASSUME StoreInv, BoardInv, FitInv, Dash!Count
  PROVE  FitInv'
<1>1. /\ stage' = "query" /\ phase' = "ready" /\ UNCHANGED <<summaries, from, to>>
      /\ counts'.requests = Dash!Cardinality(Dash!Listed)
      /\ counts'.tokens = Dash!MapThenSumSet(LAMBDA t : summaries[t].tokens, Dash!Listed)
  BY Zenon DEF Dash!Count, Dash!storeVars
<1>2. counts'.requests = Requests /\ counts'.tokens = ListedTokens
  BY <1>1, WindowFinite, SameCardinality, CountedTokens DEF Requests
<1>3. CountFits' /\ counts'.requests \in Nat
  BY <1>1, <1>2, WindowRests, RequestsType DEF CountFits
<1> QED
  BY <1>1, <1>3 DEF FitInv

LEMMA QueryFits ==
  ASSUME StoreInv, BoardInv, FitInv, Dash!Query
  PROVE  FitInv'
<1> DEFINE L == Dash!Listed
           lat == {Dash!Latency(t) : t \in L}
           of == [t \in L |-> Dash!Latency(t)]
           one == [t \in L |-> 1]
<1>1. /\ stage = "query" /\ stage' = "scan" /\ phase' = "ready"
      /\ UNCHANGED <<summaries, from, to, counts, seen, quiet>>
      /\ rows' = [l \in lat |-> Dash!Cardinality({t \in L : Dash!Latency(t) = l})]
  BY DEF Dash!Query, Dash!storeVars
<1>2. IsFiniteSet(L)
  BY WindowFinite
<1>3. IsFiniteSet(lat)
  <2>1. DOMAIN of = L /\ lat = {of[t] : t \in DOMAIN of}
    OBVIOUS
  <2> HIDE DEF of, lat, L
  <2> QED
    BY <1>2, <2>1, FiniteImage
<1>4. DOMAIN rows' = lat /\ \A l \in lat : rows'[l] = Cardinality(Part(L, of, l))
  <2>1. \A l : {t \in L : Dash!Latency(t) = l} = Part(L, of, l)
    BY DEF Part
  <2> HIDE DEF of, lat, L
  <2> QED
    BY <1>1, <2>1, SameCardinality
<1>5. \A t \in L : of[t] \in lat
  OBVIOUS
<1>6. \A t \in L : one[t] = 1 /\ one[t] \in Int
  OBVIOUS
<1> HIDE DEF of, lat, L, one
<1>7. \A l \in lat : rows'[l] = SumOver(one, Part(L, of, l))
  <2> TAKE l \in lat
  <2>1. Part(L, of, l) \in SUBSET L
    BY DEF Part
  <2>2. IsFiniteSet(Part(L, of, l)) /\ \A t \in Part(L, of, l) : one[t] = 1
    BY <1>2, <1>6, <2>1, FS_Subset
  <2>3. SumOver(one, Part(L, of, l)) = Cardinality(Part(L, of, l))
    BY <2>2, SumOnes
  <2> QED
    BY <1>4, <2>3
<1>8. SumOver(one, L) = SumOver(rows', lat)
  <2>1. \A t \in L : one[t] \in Int
    BY <1>6
  <2> QED
    BY <1>2, <1>3, <1>5, <1>7, <2>1, SumByKind
<1>9. SumOver(one, L) = Requests
  BY <1>2, <1>6, SumOnes DEF L, Requests
<1>10. AllRows' = Requests
  <2>1. seen' = 0
    BY <1>1 DEF BoardInv
  <2>2. SumOver(rows', DOMAIN rows') = Requests
    BY <1>4, <1>8, <1>9
  <2> QED
    BY <2>1, <2>2, RequestsType DEF AllRows
<1>11. RowsFit'
  <2>1. CountFits /\ IsFiniteSet(DOMAIN rows')
    BY <1>1, <1>3, <1>4 DEF FitInv
  <2> QED
    BY <1>1, <1>10, <2>1, WindowRests, RequestsType DEF RowsFit, CountFits
<1>12. CountFits'
  BY <1>1, WindowRests DEF FitInv, CountFits
<1> QED
  BY <1>1, <1>11, <1>12 DEF FitInv

\* A row that is returned is not left any more.
LEMMA NextRowFits ==
  ASSUME StoreInv, BoardInv, FitInv, Dash!NextRow
  PROVE  FitInv'
<1>1. PICK l \in DOMAIN rows :
        /\ stage = "scan" /\ stage' = "scan" /\ seen' = seen + 1
        /\ UNCHANGED <<phase, summaries, from, to, counts, quiet>>
        /\ rows' = Dash!\ominus(rows, Dash!SetToBag({l}))
  BY DEF Dash!NextRow, Dash!BagToSet, Dash!storeVars
<1>2. IsBag(rows) /\ RowsFit /\ CountFits /\ seen \in Nat
  BY <1>1 DEF BoardInv, FitInv
<1>3. /\ IsBag(rows') /\ DOMAIN rows' \subseteq DOMAIN rows
      /\ Copies(rows, l) \in Nat /\ Copies(rows', l) = Copies(rows, l) - 1
      /\ \A k : k # l => Copies(rows', k) = Copies(rows, k)
  BY <1>1, <1>2, OneRowLess
<1>4. IsFiniteSet(DOMAIN rows) /\ IsFiniteSet(DOMAIN rows')
  <2>1. DOMAIN rows' \in SUBSET DOMAIN rows
    BY <1>3
  <2> QED
    BY <1>2, <2>1, FS_Subset DEF RowsFit
<1>5. /\ \A k \in DOMAIN rows : rows[k] \in Nat \ {0} /\ rows[k] \in Int
      /\ \A k \in DOMAIN rows' : rows'[k] \in Nat \ {0} /\ rows'[k] \in Int
  BY <1>2, <1>3 DEF IsBag
<1> DEFINE rest == DOMAIN rows \ {l}
<1>6. (DOMAIN rows') \ {l} = rest /\ \A k \in rest : rows'[k] = rows[k]
  <2>1. \A k \in rest : k \in DOMAIN rows' /\ rows'[k] = rows[k]
    <3> TAKE k \in rest
    <3>1. Copies(rows', k) = rows[k] /\ rows[k] # 0
      BY <1>3, <1>5 DEF Copies
    <3> QED
      BY <3>1 DEF Copies
  <2> QED
    BY <1>3, <2>1
<1>7. SumOver(rows, DOMAIN rows) = rows[l] + SumOver(rows, rest)
  BY <1>4, <1>5, SumPick
<1>8. SumOver(rows', rest) = SumOver(rows, rest) /\ SumOver(rows, rest) \in Int
  <2>1. rest \in SUBSET DOMAIN rows
    OBVIOUS
  <2>2. IsFiniteSet(rest) /\ \A k \in rest : rows[k] \in Int
    BY <1>4, <1>5, <2>1, FS_Subset
  <2> HIDE DEF rest
  <2> QED
    BY <1>6, <2>2, SumSame, SumType
<1>9. SumOver(rows', DOMAIN rows') = SumOver(rows, DOMAIN rows) - 1
  <2>1. rows[l] \in Nat /\ Copies(rows', l) = rows[l] - 1
    BY <1>3, <1>5 DEF Copies
  <2>2. CASE l \in DOMAIN rows'
    <3>1. rows'[l] = rows[l] - 1
      BY <2>1, <2>2 DEF Copies
    <3>2. SumOver(rows', DOMAIN rows') = rows'[l] + SumOver(rows', (DOMAIN rows') \ {l})
      BY <1>4, <1>5, <2>2, SumPick
    <3> HIDE DEF rest
    <3> QED
      BY <1>6, <1>7, <1>8, <2>1, <3>1, <3>2
  <2>3. CASE l \notin DOMAIN rows'
    <3>1. rows[l] = 1
      BY <2>1, <2>3 DEF Copies
    <3>2. DOMAIN rows' = rest
      BY <1>6, <2>3
    <3> HIDE DEF rest
    <3> QED
      BY <1>7, <1>8, <3>1, <3>2
  <2> QED
    BY <2>2, <2>3
<1>10. SumOver(rows, DOMAIN rows) \in Int
  BY <1>5, <1>7, <1>8
<1>11. AllRows' = AllRows
  BY <1>1, <1>2, <1>9, <1>10 DEF AllRows
<1>12. RowsFit'
  BY <1>1, <1>2, <1>4, <1>11, WindowRests DEF RowsFit
<1>13. CountFits'
  BY <1>1, <1>2, WindowRests DEF CountFits
<1> QED
  BY <1>1, <1>12, <1>13 DEF FitInv

LEMMA RowsEndFits ==
  ASSUME StoreInv, BoardInv, FitInv, Dash!RowsEnd
  PROVE  FitInv'
<1>1. /\ stage = "scan" /\ stage' = "usage"
      /\ UNCHANGED <<phase, summaries, from, to, counts, rows, seen, quiet>>
  BY DEF Dash!RowsEnd, Dash!storeVars
<1>2. RowsFit' /\ CountFits'
  BY <1>1, WindowRests DEF FitInv, RowsFit, CountFits, AllRows
<1> QED
  BY <1>1, <1>2 DEF FitInv

LEMMA ReadUsageFits ==
  ASSUME StoreInv, BoardInv, FitInv, Dash!ReadUsage
  PROVE  FitInv'
<1>1. /\ stage = "usage" /\ stage' = "done" /\ phase = "ready"
      /\ UNCHANGED <<phase, summaries, from, to, counts, rows, seen, quiet>>
  BY DEF Dash!ReadUsage, Dash!storeVars
<1>2. RowsFit /\ CountFits /\ counts.requests \in Nat /\ seen \in Nat /\ DOMAIN rows = {}
  BY <1>1 DEF BoardInv, FitInv
<1>3. AllRows = seen
  BY <1>2, SumEmpty DEF AllRows
<1>4. Requests <= Cardinality(Dash!Used) /\ Cardinality(Dash!Used) \in Nat
  BY <1>1, RequestsAreSpans, WindowFinite, FS_CardinalityType DEF Requests
<1>5. AnswerFits'
  <2>1. IsFiniteSet(usage')
    BY UsageIs
  <2>2. ASSUME Cardinality(usage') < MaxKinds
        PROVE  /\ quiet => counts.requests = seen /\ counts.requests <= UsageSum("spans")'
               /\ quiet /\ Dash!CoversAll => counts.tokens = UsageSum("tokens")'
               /\ Dash!CoversAll => counts.requests <= seen /\ seen <= UsageSum("spans")'
    <3>1. UsageSum("spans")' = Cardinality(Dash!Used) /\ UsageSum("tokens")' = UsedTokens
      BY <2>2, UsageIs
    <3>2. quiet => counts.requests = seen /\ counts.requests <= UsageSum("spans")'
      BY <1>2, <1>3, <1>4, <3>1, RequestsType DEF RowsFit, CountFits
    <3>3. quiet /\ Dash!CoversAll => counts.tokens = UsageSum("tokens")'
      BY <1>1, <1>2, <3>1, TokensOfAll DEF CountFits
    <3>4. Dash!CoversAll => counts.requests <= seen /\ seen <= UsageSum("spans")'
      BY <1>2, <1>3, <1>4, <3>1, RequestsType DEF RowsFit
    <3> QED
      BY <3>2, <3>3, <3>4
  <2> QED
    BY <1>1, <2>1, <2>2, WindowRests DEF AnswerFits
<1> QED
  BY <1>1, <1>2, <1>5 DEF FitInv

LEMMA StoreFits ==
  ASSUME StoreInv, KeepsRows, BoardInv, FitInv, Dash!StoreMoves
  PROVE  FitInv'
<1>1. StoreNext
  BY SameSteps DEF Dash!StoreMoves
<1>2. CASE stage = "idle" \/ phase' = "starting"
  <2>1. stage' = "idle"
    BY <1>2 DEF Dash!StoreMoves, Dash!RequestGone
  <2> QED
    BY <2>1 DEF FitInv
<1>3. CASE ~(stage = "idle" \/ phase' = "starting")
  <2>1. /\ quiet' = (quiet /\ spans' = spans) /\ phase' # "starting"
        /\ UNCHANGED <<stage, from, to, counts, rows, seen, usage>>
    BY <1>3 DEF Dash!StoreMoves
  <2>2. ASSUME phase = "ready"
        PROVE  /\ phase' = "ready"
               /\ Dash!CoversAll' <=> Dash!CoversAll
               /\ UNCHANGED spans => Requests' = Requests /\ ListedTokens' = ListedTokens
               /\ Dash!CoversAll => Requests <= Requests'
    BY <1>1, <2>1, <2>2, WindowMoves DEF Requests
  <2>3. quiet' => quiet /\ UNCHANGED spans
    BY <2>1
  <2>4. Requests \in Nat /\ Requests' \in Nat
    <3>1. Dash!Listed' \in SUBSET Trace
      BY DEF Dash!Listed
    <3> QED
      BY <3>1, FS_Subset, FS_CardinalityType, ReadsAssumption, RequestsType DEF Requests
  <2>5. ASSUME phase = "ready", CountFits, counts.requests \in Nat PROVE CountFits'
    <3>1. quiet' => counts'.requests = Requests' /\ counts'.tokens = ListedTokens'
      BY <2>1, <2>2, <2>3, <2>5 DEF CountFits
    <3>2. Dash!CoversAll' => counts'.requests <= Requests'
      <4>1. Dash!CoversAll => counts.requests <= Requests /\ Requests <= Requests'
        BY <2>2, <2>5 DEF CountFits
      <4> QED
        BY <2>1, <2>2, <2>4, <2>5, <4>1
    <3> QED
      BY <3>1, <3>2 DEF CountFits
  <2>6. ASSUME phase = "ready", RowsFit PROVE RowsFit'
    <3>1. AllRows' = AllRows /\ AllRows \in Int /\ IsFiniteSet(DOMAIN rows')
      BY <2>1, <2>6 DEF AllRows, RowsFit
    <3>2. quiet' => AllRows' = Requests'
      BY <2>2, <2>3, <2>6, <3>1 DEF RowsFit
    <3>3. Dash!CoversAll' => counts'.requests <= AllRows' /\ AllRows' <= Requests'
      <4>1. Dash!CoversAll => counts.requests <= AllRows /\ AllRows <= Requests /\ Requests <= Requests'
        BY <2>2, <2>6 DEF RowsFit
      <4> QED
        BY <2>1, <2>2, <2>4, <2>6, <3>1, <4>1
    <3> QED
      BY <3>1, <3>2, <3>3 DEF RowsFit
  <2>7. ASSUME phase = "ready", AnswerFits PROVE AnswerFits'
    BY <2>1, <2>2, <2>7 DEF AnswerFits, UsageSum
  <2> QED
    BY <2>1, <2>2, <2>5, <2>6, <2>7 DEF FitInv
<1> QED
  BY <1>2, <1>3

LEMMA NextFits == StoreInv /\ KeepsRows /\ BoardInv /\ FitInv /\ Dash!Next => FitInv'
<1> SUFFICES ASSUME StoreInv, KeepsRows, BoardInv, FitInv, Dash!Next PROVE FitInv'
  OBVIOUS
<1>1. ASSUME NEW s, NEW e, Dash!Ask(s, e) PROVE FitInv'
  BY <1>1 DEF Dash!Ask, FitInv
<1>2. CASE Dash!Answer
  BY <1>2 DEF Dash!Answer, Dash!RequestGone, FitInv
<1> QED
  BY <1>1, <1>2, CountFitsNext, QueryFits, NextRowFits, RowsEndFits, ReadUsageFits, StoreFits
     DEF Dash!Next, Dash!Read

BoardFits == client = "dashboard" => FitInv

\* ReadsFitTogether: for any number of traces, spans and kinds, and any window, the requests, the
\* latencies and the usage of one dashboard agree when nothing was committed between its three
\* reads; and of a window of everything the later ones never show less.
THEOREM DashboardFits == ReadsSpec => []ReadsFitTogether
<1>1. ReadsInit => BoardFits
  <2> SUFFICES ASSUME ReadsInit, client = "dashboard" PROVE FitInv
    BY DEF BoardFits
  <2>1. stage = "idle"
    BY DEF ReadsInit, Dash!Init
  <2> QED
    BY <2>1 DEF FitInv
<1>2. ReadsInv /\ BoardFits /\ [ReadsNext]_readsVars => BoardFits'
  <2> SUFFICES ASSUME ReadsInv, BoardFits, [ReadsNext]_readsVars, client' = "dashboard" PROVE FitInv'
    BY DEF BoardFits
  <2>1. client = "dashboard"
    BY DEF ReadsNext, StoreAlone, ListMoves, TraceMoves, DashboardMoves, readsVars
  <2>2. CASE DashboardMoves
    BY <2>1, <2>2, NextFits DEF DashboardMoves, ReadsInv, BoardFits
  <2>3. CASE UNCHANGED readsVars
    <3>1. UNCHANGED <<phase, summaries, stage, from, to, counts, rows, seen, usage, quiet>>
      BY <2>3 DEF readsVars, storeVars, boardVars, pagerVars
    <3>2. FitInv
      BY <2>1 DEF BoardFits
    <3>3. (CountFits => CountFits') /\ (RowsFit => RowsFit') /\ (AnswerFits => AnswerFits')
      BY <3>1, WindowRests DEF CountFits, RowsFit, AllRows, AnswerFits, UsageSum
    <3> QED
      BY <3>1, <3>2, <3>3 DEF FitInv
  <2> QED
    BY <2>1, <2>2, <2>3 DEF ReadsNext, StoreAlone, ListMoves, TraceMoves
<1>3. BoardFits => ReadsFitTogether
  <2> SUFFICES ASSUME FitInv, stage = "done", Dash!Cardinality(usage) < MaxKinds
               PROVE  /\ quiet => counts.requests = seen /\ counts.requests <= Dash!UsedIn("spans")
                      /\ quiet /\ Dash!CoversAll => counts.tokens = Dash!UsedIn("tokens")
                      /\ Dash!CoversAll => counts.requests <= seen /\ seen <= Dash!UsedIn("spans")
    BY DEF BoardFits, ReadsFitTogether, Dash!ReadsFitTogether
  <2>1. AnswerFits /\ Cardinality(usage) < MaxKinds
    BY SameCardinality DEF FitInv
  <2>2. Dash!UsedIn("spans") = UsageSum("spans") /\ Dash!UsedIn("tokens") = UsageSum("tokens")
    BY <2>1, UsageSums DEF AnswerFits
  <2> QED
    BY <2>1, <2>2 DEF AnswerFits
<1> QED
  BY <1>1, <1>2, <1>3, ReadsInvariant, PTL DEF ReadsSpec

-----------------------------------------------------------------------------
(* The percentiles.                                                         *)

LEMMA GreatestInt ==
  ASSUME NEW S \in SUBSET Int, IsFiniteSet(S), S # {}
  PROVE  Max(S) \in S
<1> DEFINE R == {p \in Int \X Int : p[1] < p[2]}
<1>1. \A a, b \in Int : <<a, b>> \in R <=> a < b
  OBVIOUS
<1> HIDE DEF R
<1>2. StrictOrder(R, S)
  BY <1>1 DEF StrictOrder
<1>3. PICK z \in S : \A other \in S \ {z} : <<other, z>> \in R
  <2>1. HasEnds(R, S)
    BY <1>2, LeastAndGreatest
  <2> QED
    BY <2>1 DEF HasEnds
<1>4. \A y \in S : z >= y
  <2> TAKE y \in S
  <2>1. y \in Int /\ z \in Int /\ (y = z \/ y < z)
    BY <1>1, <1>3
  <2> QED
    BY <2>1
<1> QED
  BY <1>4 DEF Max

LEMMA LatencyIsInt ==
  ASSUME StoreInv, phase = "ready", NEW t \in Dash!Listed
  PROVE  Dash!Latency(t) \in Int
<1> DEFINE r == spans[t]
           here == Present(r)
           ends == {r[s].start + r[s].duration : s \in here}
<1>1. t \in Trace /\ summaries[t] # Absent /\ summaries[t] = Summary(r) /\ r \in Rows
  BY DEF Dash!Listed, StoreInv, SummaryShape, StoreShape
<1>2. /\ IsFiniteSet(here) /\ here # {}
      /\ \E s \in here : r[s].start = summaries[t].start
  BY <1>1, SummaryOf
<1>3. \A s \in here : r[s].start \in Int /\ r[s].duration \in Int
  <2>1. \A s \in here : r[s] \in Version
    BY <1>1 DEF Rows, Present
  <2> HIDE DEF here, r
  <2> QED
    BY <2>1, ReadsAssumption
<1>4. summaries[t].end = Max(ends)
  BY <1>1, <1>2 DEF Summary
<1>5. IsFiniteSet(ends)
  <2> DEFINE f == [s \in here |-> r[s].start + r[s].duration]
  <2>1. DOMAIN f = here /\ ends = {f[x] : x \in DOMAIN f}
    OBVIOUS
  <2> HIDE DEF f, ends, here
  <2> QED
    BY <1>2, <2>1, FiniteImage
<1>6. ends \in SUBSET Int /\ ends # {}
  BY <1>2, <1>3
<1>7. summaries[t].start \in Int
  BY <1>2, <1>3
<1> HIDE DEF ends
<1>8. summaries[t].end \in Int
  BY <1>4, <1>5, <1>6, GreatestInt
<1> QED
  BY <1>7, <1>8 DEF Dash!Latency

LEMMA Interval ==
  ASSUME NEW m \in Nat
  PROVE  IsFiniteSet(1..m) /\ Cardinality(1..m) = m
<1>1. IsFiniteSet(1..m) /\ Cardinality(1..m) = IF 1 > m THEN 0 ELSE m - 1 + 1
  BY FS_Interval
<1> QED
  BY <1>1

\* A sequence of integers can be sorted.
LEMMA CanSort ==
  ASSUME NEW seq \in Seq(Int)
  PROVE  \E p \in Bijection(DOMAIN seq, DOMAIN seq) :
           \A i, j \in DOMAIN seq : i < j => seq[p[i]] <= seq[p[j]]
<1> DEFINE n == Len(seq)
           D == 1..n
           R == {q \in D \X D : seq[q[1]] < seq[q[2]] \/ (seq[q[1]] = seq[q[2]] /\ q[1] < q[2])}
           rank == [i \in D |-> Cardinality(Ahead(R, D, i)) + 1]
           p == [k \in D |-> CHOOSE i \in D : rank[i] = k]
<1>1. /\ n \in Nat /\ D = DOMAIN seq /\ D \subseteq Int
      /\ \A i \in D : seq[i] \in Int
  OBVIOUS
<1>2. IsFiniteSet(D) /\ Cardinality(D) = n
  BY <1>1, Interval
<1>3. \A i, j \in D : <<i, j>> \in R <=> seq[i] < seq[j] \/ (seq[i] = seq[j] /\ i < j)
  OBVIOUS
<1> HIDE DEF R
<1>4. StrictOrder(R, D)
  <2>1. \A i \in D : i \in Int /\ seq[i] \in Int
    BY <1>1
  <2> HIDE DEF D
  <2> QED
    BY <1>3, <2>1 DEF StrictOrder
<1>5. /\ \A k \in D : Cardinality(Ahead(R, D, k)) \in Nat /\ Cardinality(Ahead(R, D, k)) < n
      /\ \A j, k \in D : <<j, k>> \in R => Cardinality(Ahead(R, D, j)) < Cardinality(Ahead(R, D, k))
  BY <1>2, <1>4, AheadGrows
<1>6. rank \in [D -> D]
  BY <1>1, <1>5
<1>7. \A j, k \in D : <<j, k>> \in R => rank[j] < rank[k]
  BY <1>5
<1>8. \A k \in D : rank[k] \in Nat
  BY <1>5
<1> HIDE DEF rank, D
<1>9. \A j, k \in D : rank[j] = rank[k] => j = k
  <2>1. \A j, k \in D : <<j, k>> \in R => rank[j] # rank[k]
    BY <1>7, <1>8
  <2>2. \A j, k \in D : j # k => <<j, k>> \in R \/ <<k, j>> \in R
    BY <1>4 DEF StrictOrder
  <2> QED
    BY <2>1, <2>2
<1>10. \A k \in D : \E i \in D : rank[i] = k
  <2>1. rank \in Injection(D, D)
    BY <1>6, <1>9 DEF Injection, IsInjective
  <2>2. rank \in Surjection(D, D)
    BY <1>2, <2>1, FS_Injection
  <2> QED
    BY <2>2 DEF Surjection
<1>11. \A k \in D : p[k] \in D /\ rank[p[k]] = k
  BY <1>10
<1>12. p \in [D -> D]
  BY <1>11
<1> HIDE DEF p
<1>13. p \in Bijection(D, D)
  <2>1. \A j, k \in D : p[j] = p[k] => j = k
    BY <1>11
  <2>2. \A i \in D : \E k \in D : p[k] = i
    <3> TAKE i \in D
    <3>1. rank[i] \in D /\ p[rank[i]] = i
      BY <1>6, <1>9, <1>11
    <3> QED
      BY <3>1
  <2> QED
    BY <1>12, <2>1, <2>2 DEF Bijection, Injection, Surjection, IsInjective
<1>14. ASSUME NEW i \in D, NEW j \in D, i < j PROVE seq[p[i]] <= seq[p[j]]
  <2>1. /\ p[i] \in D /\ p[j] \in D /\ rank[p[i]] = i /\ rank[p[j]] = j
        /\ i \in Int /\ j \in Int /\ seq[p[i]] \in Int /\ seq[p[j]] \in Int
    BY <1>1, <1>11
  <2>2. <<p[j], p[i]>> \notin R /\ p[i] # p[j]
    <3>1. ~(j < i)
      BY <1>14, <2>1
    <3> QED
      BY <1>7, <1>14, <2>1, <3>1
  <2>3. <<p[i], p[j]>> \in R
    BY <1>4, <2>1, <2>2 DEF StrictOrder
  <2>4. seq[p[i]] < seq[p[j]] \/ seq[p[i]] = seq[p[j]]
    BY <1>3, <2>1, <2>3
  <2> HIDE DEF n
  <2> QED
    BY <2>1, <2>4
<1> QED
  BY <1>1, <1>13, <1>14

\* The places of the values that are no greater than v, and of those that are less.
AtMost(seq, v) == {i \in DOMAIN seq : seq[i] <= v}
Below(seq, v)  == {i \in DOMAIN seq : seq[i] < v}

\* The value at place k of the sorted values: k values do not exceed it, and fewer than k are
\* less.
LEMMA SortedRank ==
  ASSUME NEW seq \in Seq(Int), NEW k \in 1..Len(seq), NEW v, v = Dash!Sorted(seq)[k]
  PROVE  /\ v \in {seq[i] : i \in DOMAIN seq}
         /\ Cardinality(AtMost(seq, v)) \in Nat
         /\ Cardinality(AtMost(seq, v)) >= k
         /\ Cardinality(Below(seq, v)) \in Nat
         /\ Cardinality(Below(seq, v)) < k
<1> DEFINE D == DOMAIN seq
           Sorts(p) == \A i, j \in D : i < j => seq[p[i]] <= seq[p[j]]
           order == CHOOSE p \in Bijection(D, D) : Sorts(p)
           upTo == {i \in D : seq[i] <= v}
           below == {i \in D : seq[i] < v}
<1>1. Dash!Sorted(seq) = [i \in D |-> seq[order[i]]]
  BY DEF Dash!Sorted, Dash!Bijection, Bijection, Dash!Injection, Injection, Dash!Surjection, Surjection,
     Dash!IsInjective, IsInjective
<1>2. order \in Bijection(D, D) /\ Sorts(order)
  BY CanSort
<1>3. D = 1..Len(seq) /\ Len(seq) \in Nat /\ \A i \in D : seq[i] \in Int
  OBVIOUS
<1>4. IsFiniteSet(D) /\ \A m \in Nat : IsFiniteSet(1..m) /\ Cardinality(1..m) = m
  BY <1>3, Interval
<1> HIDE DEF order
<1>5. /\ \A i \in D : order[i] \in D
      /\ \A i, j \in D : order[i] = order[j] => i = j
      /\ \A i \in D : \E j \in D : order[j] = i
  BY <1>2 DEF Bijection, Injection, Surjection, IsInjective
<1>6. \A i, j \in D : i < j => seq[order[i]] <= seq[order[j]]
  BY <1>2
<1>7. k \in D /\ k \in Nat /\ v = seq[order[k]] /\ v \in Int
  BY <1>1, <1>3, <1>5
<1>8. IsFiniteSet(upTo) /\ IsFiniteSet(below) /\ Cardinality(upTo) \in Nat /\ Cardinality(below) \in Nat
  <2>1. upTo \in SUBSET D /\ below \in SUBSET D
    OBVIOUS
  <2> HIDE DEF upTo, below
  <2> QED
    BY <1>4, <2>1, FS_Subset, FS_CardinalityType
<1>9. Cardinality(upTo) >= k
  <2> DEFINE f == [j \in 1..k |-> order[j]]
  <2>1. \A j \in 1..k : j \in D /\ (j = k \/ j < k)
    BY <1>3, <1>7
  <2>2. \A j \in 1..k : order[j] \in upTo
    <3> TAKE j \in 1..k
    <3>1. j \in D /\ order[j] \in D /\ seq[order[j]] \in Int
      BY <1>3, <1>5, <2>1
    <3>2. seq[order[j]] <= v
      <4>1. CASE j = k
        BY <1>7, <3>1, <4>1
      <4>2. CASE j < k
        BY <1>6, <1>7, <3>1, <4>2
      <4> QED
        BY <2>1, <4>1, <4>2
    <3> QED
      BY <3>1, <3>2
  <2>3. f \in [1..k -> upTo]
    BY <2>2
  <2>4. \A i, j \in 1..k : f[i] = f[j] => i = j
    BY <1>5, <2>1
  <2> HIDE DEF f, upTo
  <2>5. f \in Injection(1..k, upTo)
    BY <2>3, <2>4 DEF Injection, IsInjective
  <2>6. Cardinality(1..k) <= Cardinality(upTo)
    BY <1>8, <2>5, FS_Injection
  <2> QED
    BY <1>4, <1>7, <1>8, <2>6
<1>10. Cardinality(below) < k
  <2> DEFINE place(i) == CHOOSE j \in D : order[j] = i
             f == [i \in below |-> place(i)]
  <2>1. \A i \in D : place(i) \in D /\ order[place(i)] = i
    BY <1>5
  <2>2. \A i \in below : place(i) \in 1..(k - 1)
    <3> TAKE i \in below
    <3>1. i \in D /\ place(i) \in D /\ seq[order[place(i)]] < v
      BY <2>1
    <3> HIDE DEF place, below
    <3>2. place(i) # k /\ ~(k < place(i))
      <4>1. seq[order[place(i)]] \in Int /\ seq[order[place(i)]] < seq[order[k]]
        BY <1>3, <1>5, <1>7, <3>1
      <4>2. place(i) # k
        BY <1>7, <3>1, <4>1
      <4>3. k < place(i) => seq[order[k]] <= seq[order[place(i)]]
        BY <1>6, <1>7, <3>1
      <4>4. seq[order[k]] \in Int
        BY <1>7
      <4> QED
        BY <4>1, <4>2, <4>3, <4>4
    <3> QED
      BY <1>3, <1>7, <3>1, <3>2
  <2>3. f \in [below -> 1..(k - 1)]
    <3> HIDE DEF place, below
    <3> QED
      BY <2>2
  <2>4. \A i, j \in below : f[i] = f[j] => i = j
    <3>1. \A i \in below : order[f[i]] = i
      BY <2>1
    <3> QED
      BY <3>1
  <2> HIDE DEF f, below
  <2>5. f \in Injection(below, 1..(k - 1))
    BY <2>3, <2>4 DEF Injection, IsInjective
  <2>6. k - 1 \in Nat
    BY <1>3, <1>7
  <2>7. Cardinality(below) <= Cardinality(1..(k - 1)) /\ Cardinality(1..(k - 1)) = k - 1
    BY <1>4, <2>5, <2>6, FS_Injection
  <2> QED
    BY <1>7, <1>8, <2>7
<1>11. v \in {seq[i] : i \in DOMAIN seq}
  BY <1>5, <1>7
<1> QED
  BY <1>8, <1>9, <1>10, <1>11 DEF AtMost, Below

\* v is a value of which so many percent of the values do not exceed it, and fewer are less.
Ranks(v, seq, percent) ==
  /\ v \in {seq[i] : i \in DOMAIN seq}
  /\ 100 * Cardinality(AtMost(seq, v)) >= percent * Len(seq)
  /\ 100 * Cardinality(Below(seq, v)) < percent * Len(seq)

Percents == {50, 95, 99}

LEMMA NearestIndex ==
  ASSUME NEW n \in Nat \ {0}, NEW percent \in Percents
  PROVE  LET index == Dash!Index(n, percent)
         IN  index \in Int /\ index + 1 \in 1..n /\ 100 * (index + 1) >= percent * n /\ 100 * index < percent * n
<1>1. CASE percent = 50
  BY <1>1 DEF Dash!Index
<1>2. CASE percent = 95
  BY <1>2 DEF Dash!Index
<1>3. CASE percent = 99
  BY <1>3 DEF Dash!Index
<1> QED
  BY <1>1, <1>2, <1>3 DEF Percents

LEMMA PercentileRanks ==
  ASSUME sample \in Seq(Int), sample # <<>>, NEW percent \in Percents
  PROVE  Ranks(Dash!Percentile(percent), sample, percent)
<1> DEFINE n == Len(sample)
           k == Dash!Index(n, percent) + 1
           v == Dash!Percentile(percent)
           upTo == Cardinality(AtMost(sample, v))
           below == Cardinality(Below(sample, v))
<1>1. n \in Nat \ {0}
  BY EmptySeq
<1>2. k \in 1..n /\ 100 * k >= percent * n /\ 100 * (k - 1) < percent * n
  <2> HIDE DEF n
  <2>1. /\ Dash!Index(n, percent) \in Int /\ Dash!Index(n, percent) + 1 \in 1..n
        /\ 100 * (Dash!Index(n, percent) + 1) >= percent * n
        /\ 100 * Dash!Index(n, percent) < percent * n
    BY <1>1, NearestIndex
  <2>2. k - 1 = Dash!Index(n, percent)
    BY <2>1
  <2> QED
    BY <2>1, <2>2
<1>3. v = Dash!Sorted(sample)[k]
  BY DEF Dash!Percentile
<1> HIDE DEF k, v
<1>4. /\ v \in {sample[i] : i \in DOMAIN sample}
      /\ upTo \in Nat /\ upTo >= k /\ below \in Nat /\ below < k
  BY <1>2, <1>3, SortedRank
<1> HIDE DEF upTo, below
<1>5. k \in Nat /\ percent * n \in Int
  BY <1>1, <1>2 DEF Percents
<1> HIDE DEF n
<1>6. 100 * upTo >= percent * n /\ 100 * below < percent * n
  BY <1>2, <1>4, <1>5
<1> QED
  BY <1>4, <1>6 DEF Ranks, n, upTo, below, v

\* Latencies are integers, and once all of them are there the percentiles are those of the sample.
LatencyInv ==
  /\ stage \in {"scan", "usage", "done"} => DOMAIN snapshot \subseteq Int
  /\ stage \in {"usage", "done"} /\ sample # <<>> =>
       /\ latency.p50 = Dash!Percentile(50)
       /\ latency.p95 = Dash!Percentile(95)
       /\ latency.p99 = Dash!Percentile(99)

LEMMA LatencyRests ==
  ASSUME LatencyInv, UNCHANGED <<sample, snapshot, latency>>,
         \/ stage' = stage
         \/ stage' \notin {"scan", "usage", "done"}
         \/ stage = "usage" /\ stage' = "done"
  PROVE  LatencyInv'
<1>1. \A percent : Dash!Percentile(percent)' = Dash!Percentile(percent)
  BY DEF Dash!Percentile
<1> QED
  BY <1>1 DEF LatencyInv

LEMMA NextLatency ==
  ASSUME StoreInv, BoardInv, LatencyInv, Dash!Next
  PROVE  LatencyInv'
<1>1. ASSUME NEW s, NEW e, Dash!Ask(s, e) PROVE LatencyInv'
  BY <1>1, LatencyRests DEF Dash!Ask
<1>2. CASE Dash!Count
  BY <1>2, LatencyRests DEF Dash!Count
<1>3. CASE Dash!Query
  <2>1. phase = "ready" /\ stage' = "scan" /\ DOMAIN snapshot' = {Dash!Latency(t) : t \in Dash!Listed}
    BY <1>3 DEF Dash!Query
  <2> QED
    BY <2>1, LatencyIsInt DEF LatencyInv
<1>4. CASE Dash!NextRow
  <2>1. stage = "scan" /\ stage' = "scan" /\ UNCHANGED snapshot
    BY <1>4 DEF Dash!NextRow
  <2> QED
    BY <2>1 DEF LatencyInv
<1>5. CASE Dash!RowsEnd
  <2>1. /\ stage = "scan" /\ stage' = "usage" /\ UNCHANGED <<snapshot, sample>>
        /\ sample # <<>> => /\ latency'.p50 = Dash!Percentile(50)
                            /\ latency'.p95 = Dash!Percentile(95)
                            /\ latency'.p99 = Dash!Percentile(99)
    BY <1>5 DEF Dash!RowsEnd
  <2>2. \A percent : Dash!Percentile(percent)' = Dash!Percentile(percent)
    BY <2>1 DEF Dash!Percentile
  <2> QED
    BY <2>1, <2>2 DEF LatencyInv
<1>6. CASE Dash!ReadUsage
  BY <1>6, LatencyRests DEF Dash!ReadUsage
<1>7. Dash!RequestGone => LatencyInv'
  BY DEF Dash!RequestGone, LatencyInv
<1>8. CASE Dash!Answer
  BY <1>7, <1>8 DEF Dash!Answer
<1>9. CASE Dash!StoreMoves
  BY <1>7, <1>9, LatencyRests DEF Dash!StoreMoves
<1> QED
  BY <1>1, <1>2, <1>3, <1>4, <1>5, <1>6, <1>8, <1>9 DEF Dash!Next, Dash!Read

\* The percentiles of the answer are the nearest ranks among the latencies of the sample.
PercentilesTrue ==
  client = "dashboard" /\ stage \in {"usage", "done"} /\ sample # <<>> =>
    /\ Ranks(latency.p50, sample, 50)
    /\ Ranks(latency.p95, sample, 95)
    /\ Ranks(latency.p99, sample, 99)

\* PercentilesTrue: for any number of latencies, of any size, the index that Metrics computes takes
\* of the sorted sample the value that a percentile is defined to be.
THEOREM PercentilesAreRanks == ReadsSpec => []PercentilesTrue
<1> DEFINE Inv == client = "dashboard" => LatencyInv
<1>1. ReadsInit => Inv
  <2>1. ReadsInit /\ client = "dashboard" => stage = "idle"
    BY DEF ReadsInit, Dash!Init
  <2> QED
    BY <2>1 DEF LatencyInv
<1>2. ReadsInv /\ Inv /\ [ReadsNext]_readsVars => Inv'
  <2> SUFFICES ASSUME ReadsInv, Inv, [ReadsNext]_readsVars, client' = "dashboard" PROVE LatencyInv'
    OBVIOUS
  <2>1. client = "dashboard"
    BY DEF ReadsNext, StoreAlone, ListMoves, TraceMoves, DashboardMoves, readsVars
  <2>2. CASE DashboardMoves
    BY <2>1, <2>2, NextLatency DEF DashboardMoves, ReadsInv
  <2>3. CASE UNCHANGED readsVars
    BY <2>1, <2>3, LatencyRests DEF readsVars, boardVars, pagerVars
  <2> QED
    BY <2>1, <2>2, <2>3 DEF ReadsNext, StoreAlone, ListMoves, TraceMoves
<1>3. ReadsInv /\ Inv => PercentilesTrue
  <2> SUFFICES ASSUME BoardInv, LatencyInv, stage \in {"usage", "done"}, sample # <<>>
               PROVE  /\ Ranks(latency.p50, sample, 50)
                      /\ Ranks(latency.p95, sample, 95)
                      /\ Ranks(latency.p99, sample, 99)
    BY DEF ReadsInv, PercentilesTrue
  <2>1. sample \in Seq(DOMAIN snapshot) /\ DOMAIN snapshot \subseteq Int
    BY DEF BoardInv, SampleFits, LatencyInv
  <2>2. sample \in Seq(Int)
    BY <2>1
  <2> QED
    BY <2>2, PercentileRanks DEF LatencyInv, Percents
<1> QED
  BY <1>1, <1>2, <1>3, ReadsInvariant, PTL DEF ReadsSpec
=============================================================================
