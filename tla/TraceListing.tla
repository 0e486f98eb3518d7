---------------------------- MODULE TraceListing ----------------------------
(***************************************************************************)
(* GET /api/v1/traces: a client walks through the traces of a workspace,   *)
(* newest first, page by page, while the writer keeps appending.  A page   *)
(* is one SELECT of ListTraces over the committed summaries; what links    *)
(* two pages is only the cursor, the key of the last trace of a page.      *)
(* The status stands for the filters that test the summary's row, the kind *)
(* for those that test the rows of the trace's spans, in the same SELECT.  *)
(***************************************************************************)
EXTENDS TraceStore

CONSTANTS
  Limit,      \* traces on a page
  Filter,     \* values of the query parameters status, "" if none, and kind, Absent if none
  Load        \* bound: the batches that are stored meanwhile

VARIABLES
  filter,     \* the client's filter
  stage,      \* "new", "first": no page yet, "next": a cursor, "end": none
  cursor,     \* the sequence that holds the key in next_cursor, if any
  pages,      \* the pages received, each a set of keys
  steady      \* history: traces whose summary and match are as they were at the start

listVars == <<filter, stage, cursor, pages, steady>>
listingVars == <<storeVars, listVars>>

KeyOf(t) == [start |-> summaries[t].start, id |-> t]

\* ORDER BY start_time DESC, trace_id DESC.
Newer(a, b) == a.start > b.start \/ (a.start = b.start /\ a.id > b.id)

NoFilter == [status |-> "", kind |-> Absent]

HasStatus(t) == filter.status \in {"", summaries[t].status}

\* EXISTS (SELECT 1 FROM spans ...).
HasKind(t) == filter.kind = Absent \/ \E s \in Present(spans[t]) : spans[t][s].kind = filter.kind

Matches(t) == summaries[t] # Absent /\ HasStatus(t) /\ HasKind(t)

\* Mistake: the cursor compares the start times only.
OlderStart(key) == \A i \in DOMAIN cursor : key.start < cursor[i].start

\* Mistake: the cursor lets the traces of the same start time pass again.
NotNewerStart(key) == \A i \in DOMAIN cursor : key.start <= cursor[i].start

AfterCursor(key) == \A i \in DOMAIN cursor : Newer(cursor[i], key)

Rest == {key \in {KeyOf(t) : t \in {u \in Trace : Matches(u)}} : AfterCursor(key)}

\* The first Limit keys of the rest.
Page == {key \in Rest : Cardinality({other \in Rest : Newer(other, key)}) < Limit}

HasMore == Cardinality(Rest) > Limit

\* One trace more than fits is read to know whether there is a next page.
NextCursor ==
  IF HasMore
  THEN <<CHOOSE key \in Page : \A other \in Page \ {key} : Newer(other, key)>>
  ELSE <<>>

ListInit ==
  /\ StoreInit
  /\ filter = NoFilter /\ stage = "new" /\ cursor = <<>> /\ pages = <<>> /\ steady = {}

StartListing(f) ==
  /\ phase = "ready" /\ stage = "new"
  /\ filter' = f /\ stage' = "first" /\ steady' = Trace
  /\ UNCHANGED <<storeVars, cursor, pages>>

GetPage ==
  /\ phase = "ready" /\ stage \in {"first", "next"}
  /\ pages' = Append(pages, Page) /\ cursor' = NextCursor
  /\ stage' = IF HasMore THEN "next" ELSE "end"
  /\ UNCHANGED <<storeVars, filter, steady>>

StoreMoves ==
  /\ StoreStep(Load)
  /\ UNCHANGED <<filter, stage, cursor, pages>>
  /\ steady' = {t \in steady : summaries'[t] = summaries[t] /\ (Matches(t)' <=> Matches(t))}

ListNext == GetPage \/ StoreMoves \/ \E f \in Filter : StartListing(f)

ListSpec == ListInit /\ [][ListNext]_listingVars

-----------------------------------------------------------------------------
PagesWith(t) == {i \in 1..Len(pages) : \E key \in pages[i] : key.id = t}

\* A trace that does not change while the client pages is on exactly one page if
\* it matches, on none if it does not; whatever is inserted or moves around it.
SteadyListedOnce ==
  stage = "end" =>
    \A t \in steady : Cardinality(PagesWith(t)) = IF Matches(t) THEN 1 ELSE 0

\* Pages follow each other in the order of the list: what a client collects is
\* sorted, although every page is of another moment, and a trace comes again only
\* if a late span has moved its start back, behind the cursor.
PagesInOrder ==
  \A i, j \in 1..Len(pages) : i < j =>
    \A a \in pages[i], b \in pages[j] : Newer(a, b)
=============================================================================
