---------------------------- MODULE TraceDetail ----------------------------
(***************************************************************************)
(* GET /api/v1/traces/{trace_id}: a client reads the spans of one trace    *)
(* page by page, in the order of their start.  Every response takes two    *)
(* reads of the database, the page and then the summary, with no           *)
(* transaction around them; the writer may commit in between, and between  *)
(* two requests of the client.                                             *)
(***************************************************************************)
EXTENDS TraceStore

CONSTANTS
  Wanted,     \* the trace the client asks for
  PageSize,   \* the query parameter limit
  Load        \* bound: the batches that are stored meanwhile

VARIABLES
  stage,      \* "new", "first", "next": the client may ask; "end": it has all
  handler,    \* "idle", or "paged" between the two reads
  cursor,     \* the sequence that holds next_cursor, if any
  page,       \* the handler's page, a set of span keys, and next_cursor,
  next,
  pages,      \* what the client has: pages, and the summary of the last response
  summary,
  status,     \* the status of the last response
  steady      \* history: spans of the trace that are as they were at the start

detailVars == <<stage, handler, cursor, page, next, pages, summary, status, steady>>
readVars == <<storeVars, detailVars>>

Key(s) == [start |-> spans[Wanted][s].start, id |-> s]

\* ORDER BY start_time, span_id.
Before(a, b) == a.start < b.start \/ (a.start = b.start /\ a.id < b.id)

\* Mistake: the cursor compares the start times only.
LaterStart(key) == \A i \in DOMAIN cursor : key.start > cursor[i].start

AfterCursor(key) == \A i \in DOMAIN cursor : Before(cursor[i], key)

Rest == {key \in {Key(s) : s \in Present(spans[Wanted])} : AfterCursor(key)}

FirstPage == {key \in Rest : Cardinality({other \in Rest : Before(other, key)}) < PageSize}

HasMore == Cardinality(Rest) > PageSize

\* Mistake: a full page is taken for a sign of more.
CursorIfFull ==
  IF Cardinality(Rest) >= PageSize
  THEN <<CHOOSE key \in FirstPage : \A other \in FirstPage \ {key} : Before(other, key)>>
  ELSE <<>>

\* One span more than fits is read to know whether there is a next page.
NextCursor ==
  IF HasMore
  THEN <<CHOOSE key \in FirstPage : \A other \in FirstPage \ {key} : Before(other, key)>>
  ELSE <<>>

DetailInit ==
  /\ StoreInit
  /\ stage = "new" /\ handler = "idle" /\ status = "none" /\ summary = Absent
  /\ cursor = <<>> /\ page = {} /\ next = <<>> /\ pages = <<>> /\ steady = {}

\* The client opens the trace.
OpenTrace ==
  /\ phase = "ready" /\ stage = "new"
  /\ stage' = "first" /\ steady' = Span
  /\ UNCHANGED <<storeVars, handler, cursor, page, next, pages, summary, status>>

\* GetTracePage.  An empty page is answered with 404.
ReadPage ==
  /\ phase = "ready" /\ handler = "idle" /\ stage \in {"first", "next"}
  /\ page' = FirstPage /\ next' = NextCursor
  /\ IF FirstPage = {}
     THEN status' = "404" /\ stage' = "end" /\ UNCHANGED handler
     ELSE handler' = "paged" /\ UNCHANGED <<status, stage>>
  /\ UNCHANGED <<storeVars, cursor, pages, summary, steady>>

\* GetTraceSummary and the response.  A missing row is answered with 500.
ReadSummary ==
  /\ phase = "ready" /\ handler = "paged"
  /\ handler' = "idle"
  /\ IF summaries[Wanted] = Absent
     THEN status' = "500" /\ stage' = "end" /\ UNCHANGED <<cursor, pages, summary>>
     ELSE /\ status' = "200"
          /\ pages' = Append(pages, page) /\ summary' = summaries[Wanted]
          /\ cursor' = next
          /\ stage' = IF next = <<>> THEN "end" ELSE "next"
  /\ UNCHANGED <<storeVars, page, next, steady>>

\* A request dies with its process; the client asks again.
StoreMoves ==
  /\ StoreStep(Load)
  /\ steady' = {s \in steady : spans'[Wanted][s] = spans[Wanted][s]}
  /\ handler' = IF phase' = "ready" THEN handler ELSE "idle"
  /\ UNCHANGED <<stage, cursor, page, next, pages, summary, status>>

DetailNext == OpenTrace \/ ReadPage \/ ReadSummary \/ StoreMoves

DetailSpec == DetailInit /\ [][DetailNext]_readVars

-----------------------------------------------------------------------------
Listed == {key.id : key \in UNION {pages[i] : i \in 1..Len(pages)}}
PagesWith(s) == {i \in 1..Len(pages) : \E key \in pages[i] : key.id = s}

\* The second read never fails to find what the first has seen, whatever is
\* committed in between: a span and the summary of its trace appear together.
SummaryFound == status # "500"

\* A span that does not change while the client pages is received exactly once.
SteadySpanOnce ==
  stage = "end" /\ status # "500" =>
    \A s \in steady :
      Cardinality(PagesWith(s)) = IF spans[Wanted][s] = Absent THEN 0 ELSE 1

\* A client that follows the cursors through a trace that stays as it is never
\* gets 404: it is given a cursor only if there is a next page.
NotFoundOnlyIfChanged ==
  status = "404" /\ Listed # {} => steady # Span
=============================================================================
