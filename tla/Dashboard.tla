----------------------------- MODULE Dashboard -----------------------------
(***************************************************************************)
(* GET /api/v1/dashboard: Metrics reads the summaries, the latencies and   *)
(* the spans by kind in three statements while the writer appends.  Each   *)
(* statement sees one committed state, not the same one.  The latencies    *)
(* are a random sample when there are too many traces.                     *)
(***************************************************************************)
EXTENDS TraceStore, Bags

CONSTANTS
  Now, Day,      \* the default of end_time, and of its distance from start_time
  Time,          \* values of start_time and end_time; Absent if not given
  MaxSamples,    \* maxMetricSamples
  MaxKinds,      \* LIMIT of the breakdown; the kind is one more field of a version
  Load           \* bound: the batches that are stored meanwhile

VARIABLES
  stage,      \* "idle", "count", "query", "scan", "usage", "done"
  from, to,   \* the window
  counts,     \* what the first statement returned
  rows,       \* the latencies the second statement has still to return
  seen,       \* how many it has returned
  sample,     \* latencies
  usage,      \* what the third statement returned
  latency,    \* the percentiles and latency_sampled
  snapshot,   \* history: all the latencies that the second statement returns
  quiet       \* history: nothing was committed since the request began

dashVars == <<stage, from, to, counts, rows, seen, sample, usage, latency, snapshot, quiet>>
vars     == <<storeVars, dashVars>>

InWindow(start) == from <= start /\ start <= to
Listed == {t \in Trace : summaries[t] # Absent /\ InWindow(summaries[t].start)}
Stored == {p \in Trace \X Span : spans[p[1]][p[2]] # Absent}
SpanAt(p) == spans[p[1]][p[2]]

TokensOf(some) == MapThenSumSet(LAMBDA p : SpanAt(p).tokens, some)

NoCounts  == [requests |-> 0, errors |-> 0, tokens |-> 0]
NoLatency == [p50 |-> 0, p95 |-> 0, p99 |-> 0, sampled |-> FALSE]

NoRequest ==
  /\ from = 0 /\ to = 0 /\ counts = NoCounts /\ rows = EmptyBag
  /\ seen = 0 /\ sample = <<>> /\ usage = {} /\ latency = NoLatency
  /\ snapshot = EmptyBag /\ quiet = TRUE

Init == StoreInit /\ stage = "idle" /\ NoRequest

\* The handler's variables go with the request.
RequestGone ==
  /\ stage' = "idle" /\ from' = 0 /\ to' = 0 /\ counts' = NoCounts /\ rows' = EmptyBag
  /\ seen' = 0 /\ sample' = <<>> /\ usage' = {} /\ latency' = NoLatency
  /\ snapshot' = EmptyBag /\ quiet' = TRUE

\* An end before the start is refused, which leaves no trace here.
Ask(s, e) ==
  /\ phase = "ready" /\ stage = "idle"
  /\ to' = (IF e = Absent THEN Now ELSE e)
  /\ from' = (IF s = Absent THEN to' - Day ELSE s)
  /\ from' <= to'
  /\ stage' = "count"
  /\ UNCHANGED <<storeVars, counts, rows, seen, sample, usage, latency, snapshot, quiet>>

Count ==
  /\ phase = "ready" /\ stage = "count" /\ stage' = "query"
  /\ counts' = [requests |-> Cardinality(Listed),
                errors   |-> Cardinality({t \in Listed : summaries[t].status = "error"}),
                tokens   |-> MapThenSumSet(LAMBDA t : summaries[t].tokens, Listed)]
  /\ UNCHANGED <<storeVars, from, to, rows, seen, sample, usage, latency, snapshot, quiet>>

Latency(t) == summaries[t].end - summaries[t].start

\* The SELECT of the latencies; the connection keeps this state until the rows are closed.
Query ==
  /\ phase = "ready" /\ stage = "query" /\ stage' = "scan"
  /\ rows' = [l \in {Latency(t) : t \in Listed} |-> Cardinality({t \in Listed : Latency(t) = l})]
  /\ snapshot' = rows'
  /\ UNCHANGED <<storeVars, from, to, counts, seen, sample, usage, latency, quiet>>

\* Mistake: one row more than fits.
SampledOneMore(l) ==
  IF Len(sample) <= MaxSamples THEN {Append(sample, l)}
  ELSE {IF i <= MaxSamples THEN [sample EXCEPT ![i] = l] ELSE sample : i \in 1..(seen + 1)}

\* The sample with the next row: in a place of its own while there is room, then in the
\* place that rng.Int63n(seen) draws, if the sample has it.
Sampled(l) ==
  IF Len(sample) < MaxSamples THEN {Append(sample, l)}
  ELSE {IF i <= MaxSamples THEN [sample EXCEPT ![i] = l] ELSE sample : i \in 1..(seen + 1)}

NextRow ==
  /\ stage = "scan"
  /\ \E l \in BagToSet(rows) :
       /\ sample' \in Sampled(l)
       /\ rows' = rows (-) SetToBag({l})
  /\ seen' = seen + 1
  /\ UNCHANGED <<storeVars, stage, from, to, counts, usage, latency, snapshot, quiet>>

\* The index of percentile, from 0: the ceiling, less one, kept within the values.
Index(n, percent) ==
  LET index == -((-n * percent) \div 100) - 1
  IN  IF index < 0 THEN 0 ELSE IF index >= n THEN n - 1 ELSE index

\* sort.Float64s
Sorted(seq) ==
  LET order == CHOOSE p \in Bijection(DOMAIN seq, DOMAIN seq) :
                 \A i, j \in DOMAIN seq : i < j => seq[p[i]] <= seq[p[j]]
  IN  [i \in DOMAIN seq |-> seq[order[i]]]

Percentile(percent) == Sorted(sample)[Index(Len(sample), percent) + 1]

RowsEnd ==
  /\ stage = "scan" /\ rows = EmptyBag /\ stage' = "usage"
  /\ latency' = IF sample = <<>> THEN NoLatency
                ELSE [p50 |-> Percentile(50), p95 |-> Percentile(95), p99 |-> Percentile(99),
                      sampled |-> seen > MaxSamples]
  /\ UNCHANGED <<storeVars, from, to, counts, rows, seen, sample, usage, snapshot, quiet>>

\* Mistake: the end of the window is left out here.
UsedBefore == {p \in Stored : from <= SpanAt(p).start /\ SpanAt(p).start < to}

Used == {p \in Stored : InWindow(SpanAt(p).start)}

OfKind(kind) == {p \in Used : SpanAt(p).kind = kind}

\* ORDER BY COUNT(*) DESC, span_kind.
Before(a, b) ==
  \/ Cardinality(OfKind(a)) > Cardinality(OfKind(b))
  \/ Cardinality(OfKind(a)) = Cardinality(OfKind(b)) /\ a < b

\* The empty kind is shown as "custom", which does not matter here.
ReadUsage ==
  /\ phase = "ready" /\ stage = "usage" /\ stage' = "done"
  /\ LET kinds == {SpanAt(p).kind : p \in Used}
         first == {k \in kinds : Cardinality({other \in kinds : Before(other, k)}) < MaxKinds}
     IN  usage' = {[kind |-> k, spans |-> Cardinality(OfKind(k)), tokens |-> TokensOf(OfKind(k))] : k \in first}
  /\ UNCHANGED <<storeVars, from, to, counts, rows, seen, sample, latency, snapshot, quiet>>

\* The answer; or a statement fails, and the rows that are open are closed.
Answer == stage # "idle" /\ RequestGone /\ UNCHANGED storeVars

Read ==
  \/ \E s, e \in Time : Ask(s, e)
  \/ Count \/ Query \/ NextRow \/ RowsEnd \/ ReadUsage \/ Answer

\* A request ends with the process.
StoreMoves ==
  /\ StoreStep(Load)
  /\ IF stage = "idle" \/ phase' = "starting" THEN RequestGone
     ELSE /\ quiet' = (quiet /\ spans' = spans)
          /\ UNCHANGED <<stage, from, to, counts, rows, seen, sample, usage, latency, snapshot>>

Next == Read \/ StoreMoves

Spec == Init /\ [][Next]_vars

-----------------------------------------------------------------------------
AsBag(seq) == [l \in {seq[i] : i \in DOMAIN seq} |-> Cardinality({i \in DOMAIN seq : seq[i] = l})]

\* What the percentiles are of: all latencies of one moment, or as many of them as are
\* allowed, each row at most once; latency_sampled tells which.
SampleOfSnapshot ==
  stage \in {"usage", "done"} =>
    /\ AsBag(sample) \sqsubseteq snapshot
    /\ latency.sampled <=> AsBag(sample) # snapshot
    /\ latency.sampled => Len(sample) = MaxSamples

UsedIn(field) == MapThenSumSet(LAMBDA item : item[field], usage)
CoversAll == \A v \in Version : InWindow(v.start)

\* The three reads fit together.  Without a commit in between, they are of one state: as many
\* requests as latencies, no more than spans, and the same tokens in a window of everything.
\* With commits, later reads of everything can only show more, for nothing is deleted.
ReadsFitTogether ==
  stage = "done" /\ Cardinality(usage) < MaxKinds =>
    /\ quiet => counts.requests = seen /\ counts.requests <= UsedIn("spans")
    /\ quiet /\ CoversAll => counts.tokens = UsedIn("tokens")
    /\ CoversAll => counts.requests <= seen /\ seen <= UsedIn("spans")
=============================================================================
