--------------------------- MODULE TraceExplorer ---------------------------
(***************************************************************************)
(* The web page's trace explorer, src/web/src/hooks/useTraceExplorer.ts,   *)
(* under the part of main.tsx that decides whose traces it shows.  Every   *)
(* answer of the server is applied in a callback of its own, in any order; *)
(* what keeps an old answer away is a counter per kind of request.         *)
(*                                                                         *)
(* View is what the hook depends on: token, workspace and filters.  A      *)
(* change of it is rendered later, and the effect of that render runs      *)
(* later still; callbacks use the view of the last render.                 *)
(* The metrics are loaded with the list, by the same protocol with a       *)
(* counter of their own and no effect on the rest; they are left out.      *)
(***************************************************************************)
EXTENDS Integers, Sequences, FiniteSets

CONSTANTS
  Token, Workspace, Filter, TraceID,
  None,           \* the empty token, workspace, trace or cursor
  LastPart,       \* pages of a trace
  MaxRequests,    \* bound: lists and traces that the user asks for
  MaxChanges      \* bound: changes of the view

ASSUME ExplorerAssumption ==
  /\ None \notin Token \union Workspace \union TraceID
  /\ LastPart \in Nat \ {0} /\ MaxRequests \in Nat /\ MaxChanges \in Nat

VARIABLES
  wanted, view,     \* the view as set, and as rendered last
  effectDue,        \* the effect of the last render has not run yet
  switching,        \* workspaces for which switchWorkspace is under way
  calls,            \* requests without an answer
  pageReq, traceReq,               \* the request counters
  page, cursor, loading,           \* the list: where it is from, next_cursor
  selectedID, selected, next, traceLoading,   \* the open trace and its spans
  pageFailed,       \* history: the last list request has failed
  openedIn,         \* history: the view in which selectedID was opened
  changes           \* how often the view has changed

viewVars  == <<wanted, view, effectDue, switching, changes>>
pageVars  == <<pageReq, page, cursor, loading, pageFailed>>
traceVars == <<traceReq, selectedID, selected, next, traceLoading, openedIn>>
vars == <<viewVars, calls, pageVars, traceVars>>

View == [token : Token \union {None}, ws : Workspace \union {None}, filter : Filter]
NoView == [token |-> None, ws |-> None, filter |-> None]

Usable(v) == v.token # None /\ v.ws # None

Init ==
  /\ wanted \in {v \in View : v.ws = None} /\ view = wanted
  /\ effectDue = TRUE /\ switching = {} /\ changes = 0
  /\ calls = {}
  /\ pageReq = 0 /\ traceReq = 0
  /\ page = NoView /\ cursor = None /\ loading = FALSE /\ pageFailed = FALSE
  /\ selectedID = None /\ selected = <<>> /\ next = 0 /\ traceLoading = FALSE
  /\ openedIn = NoView

-----------------------------------------------------------------------------
(* What main.tsx does to the view.                                          *)

Change(v) ==
  /\ changes < MaxChanges /\ changes' = changes + 1
  /\ wanted' = v
  /\ UNCHANGED <<view, effectDue>>

Login(t, w) ==
  /\ wanted.token = None
  /\ Change([wanted EXCEPT !.token = t, !.ws = w])
  /\ UNCHANGED <<switching, calls, pageVars, traceVars>>

\* clearAuth: by logout, or when the server answers 401.
Logout ==
  /\ wanted.token # None
  /\ Change([wanted EXCEPT !.token = None, !.ws = None])
  /\ UNCHANGED <<switching, calls, pageVars, traceVars>>

\* The list of workspaces arrives, or a new one is created.
EnterWorkspace(w) ==
  /\ wanted.token # None /\ wanted.ws # w
  /\ Change([wanted EXCEPT !.ws = w])
  /\ UNCHANGED <<switching, calls, pageVars, traceVars>>

SetFilter(f) ==
  /\ Usable(view) /\ wanted.filter # f
  /\ Change([wanted EXCEPT !.filter = f])
  /\ UNCHANGED <<switching, calls, pageVars, traceVars>>

SelectWorkspace(w) ==
  /\ view.token # None /\ changes + Cardinality(switching) < MaxChanges
  /\ switching' = switching \union {w}
  /\ UNCHANGED <<wanted, view, effectDue, changes, calls,
                 pageVars, traceVars>>

\* clearSelection makes the answers for the open trace unwelcome.
ClearSelection ==
  /\ traceReq' = traceReq + 1
  /\ selectedID' = None /\ selected' = <<>> /\ next' = 0
  /\ UNCHANGED <<traceLoading, openedIn>>

\* The rest of selectWorkspace, once switchWorkspace is answered.
WorkspaceSwitched(w) ==
  /\ w \in switching /\ switching' = switching \ {w}
  /\ ClearSelection
  /\ Change([wanted EXCEPT !.ws = w])
  /\ UNCHANGED <<calls, pageVars>>

SwitchFails(w) ==
  /\ w \in switching /\ switching' = switching \ {w}
  /\ UNCHANGED <<wanted, view, effectDue, changes, calls,
                 pageVars, traceVars>>

Render ==
  /\ view # wanted
  /\ view' = wanted /\ effectDue' = TRUE
  /\ UNCHANGED <<wanted, switching, changes, calls, pageVars,
                 traceVars>>

-----------------------------------------------------------------------------
(* The requests.                                                            *)

ListCall(id, c)     == [to |-> "list", id |-> id, view |-> view, cursor |-> c]
TraceCall(id, t, n) == [to |-> "trace", id |-> id, view |-> view, trace |-> t, part |-> n]

\* Mistake: the effect does not load a list while one is being loaded.
EffectIfIdle ==
  /\ effectDue /\ effectDue' = FALSE
  /\ selectedID' = None /\ selected' = <<>>
  /\ IF Usable(view) /\ ~loading
     THEN /\ pageReq' = pageReq + 1
          /\ calls' = calls \union {ListCall(pageReq', None)}
          /\ loading' = TRUE /\ pageFailed' = FALSE
     ELSE UNCHANGED <<pageReq, calls, loading, pageFailed>>
  /\ UNCHANGED <<wanted, view, switching, changes, page, cursor, traceReq,
                 next, traceLoading, openedIn>>

\* The effect after a change of the view: the selection is cleared, the
\* list is loaded.  traceReq, next_cursor and traceLoading stay as they are.
Effect ==
  /\ effectDue /\ effectDue' = FALSE
  /\ selectedID' = None /\ selected' = <<>>
  /\ IF Usable(view)
     THEN /\ pageReq' = pageReq + 1
          /\ calls' = calls \union {ListCall(pageReq', None)}
          /\ loading' = TRUE /\ pageFailed' = FALSE
     ELSE UNCHANGED <<pageReq, calls, loading, pageFailed>>
  /\ UNCHANGED <<wanted, view, switching, changes, page, cursor, traceReq,
                 next, traceLoading, openedIn>>

\* The button loads the list again; it is disabled while a list is loaded.
Refresh ==
  /\ Usable(view) /\ ~loading /\ pageReq < MaxRequests
  /\ pageReq' = pageReq + 1
  /\ calls' = calls \union {ListCall(pageReq', None)}
  /\ loading' = TRUE /\ pageFailed' = FALSE
  /\ UNCHANGED <<viewVars, page, cursor, traceVars>>

\* "Load more" is shown whenever there is a cursor.
LoadMore ==
  /\ Usable(view) /\ cursor # None /\ pageReq < MaxRequests
  /\ pageReq' = pageReq + 1
  /\ calls' = calls \union {ListCall(pageReq', cursor)}
  /\ loading' = TRUE /\ pageFailed' = FALSE
  /\ UNCHANGED <<viewVars, page, cursor, traceVars>>

OpenTrace(t) ==
  /\ Usable(view) /\ ~loading /\ page # NoView /\ traceReq < MaxRequests
  /\ traceReq' = traceReq + 1
  /\ selectedID' = t /\ selected' = <<>> /\ next' = 0 /\ traceLoading' = TRUE
  /\ openedIn' = view
  /\ calls' = calls \union {TraceCall(traceReq', t, 1)}
  /\ UNCHANGED <<viewVars, pageVars>>

LoadMoreTrace ==
  /\ selectedID # None /\ next # 0 /\ ~traceLoading /\ traceReq < MaxRequests
  /\ traceReq' = traceReq + 1 /\ traceLoading' = TRUE
  /\ calls' = calls \union {TraceCall(traceReq', selectedID, next)}
  /\ UNCHANGED <<viewVars, pageVars, selectedID, selected, next,
                 openedIn>>

\* Back to the list, or to another page of the application.
CloseTrace ==
  /\ Usable(view) /\ traceReq < MaxRequests
  /\ ClearSelection
  /\ UNCHANGED <<viewVars, calls, pageVars>>

-----------------------------------------------------------------------------
(* The answers.                                                             *)

\* Mistake: an answer is welcome when its view is of the current workspace.
SameWorkspace(c) == c.view.ws = view.ws

\* requestID === ...RequestID.current, per kind of request.
Current(c) ==
  c.id = CASE c.to = "list" -> pageReq
           [] c.to = "trace" -> traceReq

\* An answer that is not for the last request changes nothing.
AnswerIgnored(c) ==
  /\ c \in calls /\ ~Current(c)
  /\ calls' = calls \ {c}
  /\ UNCHANGED <<viewVars, pageVars, traceVars>>

ListAnswered(c, more) ==
  /\ c \in calls /\ c.to = "list" /\ Current(c)
  /\ calls' = calls \ {c}
  /\ page' = c.view /\ cursor' = IF more THEN c.view ELSE None
  /\ loading' = FALSE
  /\ UNCHANGED <<viewVars, pageReq, pageFailed, traceVars>>

\* The first part replaces what is shown, a later one is appended.
TraceAnswered(c) ==
  /\ c \in calls /\ c.to = "trace" /\ Current(c)
  /\ calls' = calls \ {c}
  /\ LET shown == [view |-> c.view, trace |-> c.trace, part |-> c.part]
     IN  selected' = IF c.part = 1 THEN <<shown>> ELSE Append(selected, shown)
  /\ next' = IF c.part < LastPart THEN c.part + 1 ELSE 0
  /\ traceLoading' = FALSE
  /\ UNCHANGED <<viewVars, pageVars, traceReq, selectedID, openedIn>>

\* Mistake: the spinner is only taken away on success.
FailsLoading(c) ==
  /\ c \in calls /\ Current(c)
  /\ calls' = calls \ {c}
  /\ IF c.to = "list" THEN pageFailed' = TRUE ELSE UNCHANGED pageFailed
  /\ IF c.to = "trace" /\ c.part = 1 THEN selectedID' = None ELSE UNCHANGED selectedID
  /\ UNCHANGED <<viewVars, pageReq, page, cursor, loading,
                 traceReq, selected, next, traceLoading, openedIn>>

\* A failure leaves the old list; the first page of a trace closes it.
CallFails(c) ==
  /\ c \in calls /\ Current(c)
  /\ calls' = calls \ {c}
  /\ IF c.to = "list" THEN loading' = FALSE /\ pageFailed' = TRUE
                      ELSE UNCHANGED <<loading, pageFailed>>
  /\ IF c.to = "trace" THEN traceLoading' = FALSE ELSE UNCHANGED traceLoading
  /\ IF c.to = "trace" /\ c.part = 1 THEN selectedID' = None ELSE UNCHANGED selectedID
  /\ UNCHANGED <<viewVars, pageReq, page, cursor,
                 traceReq, selected, next, openedIn>>

Next ==
  \/ \E t \in Token, w \in Workspace : Login(t, w)
  \/ \E w \in Workspace :
       EnterWorkspace(w) \/ SelectWorkspace(w) \/ WorkspaceSwitched(w) \/ SwitchFails(w)
  \/ \E f \in Filter : SetFilter(f)
  \/ Logout \/ Render \/ Effect \/ Refresh \/ LoadMore
  \/ \E t \in TraceID : OpenTrace(t)
  \/ LoadMoreTrace \/ CloseTrace
  \/ \E c \in calls :
       \/ AnswerIgnored(c) \/ TraceAnswered(c) \/ CallFails(c)
       \/ \E more \in BOOLEAN : ListAnswered(c, more)

Spec == Init /\ [][Next]_vars

-----------------------------------------------------------------------------
Settled == view = wanted /\ ~effectDue /\ Usable(view)

\* When nothing is loading, the list is of the token, workspace and filters that
\* are set, unless the last request for it has failed: no answer that was overtaken
\* by a change of any of them is ever shown.
PageCurrent == Settled /\ ~loading => page = view \/ pageFailed

\* The drawer shows parts of one trace, in order, none twice, all read in the view
\* that is on display; for the moment between a render and its effect it may not.
DrawerConsistent ==
  Settled /\ selectedID # None =>
    /\ openedIn = view
    /\ selected = [i \in 1..Len(selected) |->
                     [view |-> view, trace |-> selectedID, part |-> i]]

\* What is shown as loading is being loaded: a spinner, and with it a disabled
\* button, belongs to a request whose answer will be welcome.
NeverStuck ==
  /\ loading => \E c \in calls : c.to = "list" /\ Current(c)
  /\ selectedID # None /\ traceLoading => \E c \in calls : c.to = "trace" /\ Current(c)
=============================================================================
