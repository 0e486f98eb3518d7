----------------------------- MODULE TraceReads -----------------------------
(***************************************************************************)
(* The trace store with its readers: the list of traces, one trace, and    *)
(* the dashboard.  A reader changes nothing that the writer or another     *)
(* reader looks at, so one client at a time shows all there is to see; the *)
(* client is chosen at the start and the variables of the others rest.     *)
(***************************************************************************)
EXTENDS TraceStore

CONSTANTS
  Limit, Filter,              \* of TraceListing,
  Wanted, PageSize,           \* of TraceDetail,
  Now, Day, Time,             \* and of Dashboard
  MaxSamples, MaxKinds,
  Load, BoardLoad             \* bounds: the batches stored while a client pages,
                              \* and while it reads a dashboard

\* Times, tokens and kinds are integers, the kinds in the order of their names.  A summary is a
\* record; that no record is Absent is all that is assumed of it.
ASSUME ReadsAssumption ==
  /\ Limit \in Nat \ {0} /\ PageSize \in Nat \ {0} /\ Wanted \in Trace /\ Span \subseteq Nat
  /\ MaxSamples \in Nat \ {0} /\ MaxKinds \in Nat \ {0} /\ Now \in Nat /\ Day \in Nat
  /\ Time \subseteq Nat \union {Absent}
  /\ Load \subseteq Batches /\ BoardLoad \subseteq Batches
  /\ IsFiniteSet(Trace) /\ IsFiniteSet(Span)
  /\ \A v \in Version : {v.start, v.duration, v.tokens, v.kind} \subseteq Int
  /\ \A r \in Rows : Present(r) # {} => Summary(r) # Absent

VARIABLES
  client,                                          \* who reads
  stage, cursor, pages, steady,                    \* of a client that pages
  filter,                                          \* of the list
  handler, page, next, summary, status,            \* of one trace
  from, to, counts, rows, seen, sample, usage,     \* of the dashboard
  latency, snapshot, quiet

Listing == INSTANCE TraceListing
Detail  == INSTANCE TraceDetail
Dash    == INSTANCE Dashboard WITH Load <- BoardLoad

pagerVars == <<stage, cursor, pages, steady>>
traceVars == <<handler, page, next, summary, status>>
boardVars == <<from, to, counts, rows, seen, sample, usage, latency, snapshot, quiet>>
readsVars == <<storeVars, client, pagerVars, filter, traceVars, boardVars>>

ListRests  == filter = Listing!NoFilter
TraceRests == handler = "idle" /\ page = {} /\ next = <<>> /\ summary = Absent /\ status = "none"
PagerRests == cursor = <<>> /\ pages = <<>> /\ steady = {}

ReadsInit ==
  \/ /\ client \in {"nobody", "dashboard"}
     /\ Dash!Init /\ PagerRests /\ ListRests /\ TraceRests
  \/ client = "list"  /\ Listing!ListInit /\ TraceRests /\ Dash!NoRequest
  \/ client = "trace" /\ Detail!DetailInit /\ ListRests /\ Dash!NoRequest

StoreAlone ==
  /\ client = "nobody"
  /\ StoreNext
  /\ UNCHANGED <<client, pagerVars, filter, traceVars, boardVars>>

ListMoves ==
  /\ client = "list"
  /\ Listing!ListNext
  /\ UNCHANGED <<client, traceVars, boardVars>>

TraceMoves ==
  /\ client = "trace"
  /\ Detail!DetailNext
  /\ UNCHANGED <<client, filter, boardVars>>

DashboardMoves ==
  /\ client = "dashboard"
  /\ Dash!Next
  /\ UNCHANGED <<client, cursor, pages, steady, filter, traceVars>>

ReadsNext == StoreAlone \/ ListMoves \/ TraceMoves \/ DashboardMoves

ReadsSpec == ReadsInit /\ [][ReadsNext]_readsVars

-----------------------------------------------------------------------------
\* What each client is promised, stated with its module: ListTraces,
SteadyListedOnce == client = "list" => Listing!SteadyListedOnce

\* the order of its pages,
PagesInOrder == client = "list" => Listing!PagesInOrder

\* getTrace and its two reads,
SummaryFound == client = "trace" => Detail!SummaryFound

\* the spans it returns,
SteadySpanOnce == client = "trace" => Detail!SteadySpanOnce

\* the end of its pages,
NotFoundOnlyIfChanged == client = "trace" => Detail!NotFoundOnlyIfChanged

\* Metrics and the latencies it samples,
SampleOfSnapshot == client = "dashboard" => Dash!SampleOfSnapshot

\* and its three reads.
ReadsFitTogether == client = "dashboard" => Dash!ReadsFitTogether
=============================================================================
