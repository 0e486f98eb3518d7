------------------------ MODULE TraceExplorerProofs ------------------------
(***************************************************************************)
(* The trace explorer, for any users, workspaces, filters and traces, and  *)
(* answers in any order: what it shows is of the view it shows it for.     *)
(***************************************************************************)
EXTENDS TraceExplorer, SequenceTheorems, TLAPS

ListCalls  == [to : {"list"}, id : Nat, view : View, cursor : View \union {None}]
TraceCalls == [to : {"trace"}, id : Nat, view : View, trace : TraceID, part : 1..LastPart]
Part       == [view : View, trace : TraceID, part : 1..LastPart]

ExplorerTypeOK ==
  /\ wanted \in View /\ view \in View /\ effectDue \in BOOLEAN /\ cursor \in View \union {None}
  /\ calls \subseteq ListCalls \union TraceCalls
  /\ pageReq \in Nat /\ traceReq \in Nat
  /\ selectedID \in TraceID \union {None} /\ selected \in Seq(Part) /\ next \in 0..LastPart

\* The counters are those of the last requests, and tell requests of a kind apart.
Counted ==
  /\ \A c \in calls : c.id <= CASE c.to = "list" -> pageReq [] c.to = "trace" -> traceReq
  /\ \A c, d \in calls : c.to = d.to /\ c.id = d.id => c = d

\* The list that is welcome, and the one on display unless it is being replaced, are of the
\* view; not between a render and its effect, or when nobody is logged in.
ListOfView ==
  ~effectDue /\ Usable(view) =>
    /\ \A c \in calls : c.to = "list" /\ Current(c) => c.view = view
    /\ ~loading => page = view \/ pageFailed

\* The drawer, if open: its parts, the one to ask for next and the one that is welcome.
DrawerOfView ==
  ~effectDue /\ selectedID # None =>
    /\ openedIn = view
    /\ \A i \in 1..Len(selected) : selected[i] = [view |-> view, trace |-> selectedID, part |-> i]
    /\ next # 0 => next = Len(selected) + 1
    /\ \A c \in calls : c.to = "trace" /\ Current(c) =>
         c.view = view /\ c.trace = selectedID /\ c.part = Len(selected) + 1

XInv == ExplorerTypeOK /\ Counted /\ ListOfView /\ DrawerOfView /\ NeverStuck

-----------------------------------------------------------------------------
(* Calls.                                                                   *)

LEMMA CallFields ==
  ASSUME ExplorerTypeOK, NEW c \in calls
  PROVE  /\ c.to \in {"list", "trace"} /\ c.id \in Nat /\ c.view \in View
         /\ c.to = "trace" => c.trace \in TraceID /\ c.part \in 1..LastPart
         /\ c \in ListCalls \union TraceCalls
BY DEF ExplorerTypeOK, ListCalls, TraceCalls

\* A new call is of the view and has the next number.
LEMMA NewCallFields ==
  ASSUME ExplorerTypeOK
  PROVE  /\ \A id \in Nat, cu \in View \union {None} :
              /\ ListCall(id, cu) \in ListCalls
              /\ ListCall(id, cu).to = "list" /\ ListCall(id, cu).id = id /\ ListCall(id, cu).view = view
         /\ \A id \in Nat, t \in TraceID, n \in 1..LastPart :
              /\ TraceCall(id, t, n) \in TraceCalls
              /\ TraceCall(id, t, n).to = "trace" /\ TraceCall(id, t, n).id = id
              /\ TraceCall(id, t, n).view = view
              /\ TraceCall(id, t, n).trace = t /\ TraceCall(id, t, n).part = n
BY DEF ExplorerTypeOK, ListCall, TraceCall, ListCalls, TraceCalls

\* A welcome call carries the counter of its kind.
LEMMA CurrentIs ==
  ASSUME ExplorerTypeOK, NEW c \in calls
  PROVE  /\ c.to = "list" => (Current(c) <=> c.id = pageReq)
         /\ c.to = "trace" => (Current(c) <=> c.id = traceReq)
BY DEF Current

\* Only one call of a kind is welcome.
LEMMA OneCurrent ==
  ASSUME ExplorerTypeOK, Counted, NEW c \in calls, NEW d \in calls, Current(c), Current(d), c.to = d.to
  PROVE  c = d
BY CallFields, CurrentIs DEF Counted

-----------------------------------------------------------------------------
(* The actions.                                                             *)

\* What depends on the calls and the counters only.
LEMMA SameCalls ==
  ASSUME XInv, UNCHANGED <<calls, pageReq, traceReq>>
  PROVE  /\ Counted'
         /\ \A c \in calls : Current(c)' <=> Current(c)
BY DEF XInv, Counted, Current

\* The view is set, not rendered yet; or nothing happens.
LEMMA SetKeeps ==
  ASSUME XInv, wanted' \in View, UNCHANGED <<view, effectDue, calls, pageVars, traceVars>>
  PROVE  XInv'
<1>1. Counted' /\ \A c \in calls : Current(c)' <=> Current(c)
  BY SameCalls DEF pageVars, traceVars
<1>2. ExplorerTypeOK'
  BY DEF XInv, ExplorerTypeOK, pageVars, traceVars
<1>3. ListOfView' /\ DrawerOfView' /\ NeverStuck'
  BY <1>1 DEF XInv, ListOfView, DrawerOfView, NeverStuck, pageVars, traceVars
<1> QED
  BY <1>1, <1>2, <1>3 DEF XInv

\* main.tsx sets the view.
LEMMA ChangeKeeps ==
  ASSUME XInv, ExplorerAssumption,
         \/ \E t \in Token, w \in Workspace : Login(t, w)
         \/ \E w \in Workspace : EnterWorkspace(w) \/ SelectWorkspace(w) \/ SwitchFails(w)
         \/ \E f \in Filter : SetFilter(f)
         \/ Logout
  PROVE  XInv'
<1>1. wanted \in View
  BY DEF XInv, ExplorerTypeOK
<1>2. CASE \E t \in Token, w \in Workspace : Login(t, w)
  BY <1>1, <1>2, SetKeeps DEF Login, Change, View
<1>3. CASE \E w \in Workspace : EnterWorkspace(w)
  BY <1>1, <1>3, SetKeeps DEF EnterWorkspace, Change, View
<1>4. CASE \E w \in Workspace : SelectWorkspace(w) \/ SwitchFails(w)
  BY <1>1, <1>4, SetKeeps DEF SelectWorkspace, SwitchFails
<1>5. CASE \E f \in Filter : SetFilter(f)
  BY <1>1, <1>5, SetKeeps DEF SetFilter, Change, View
<1>6. CASE Logout
  BY <1>1, <1>6, SetKeeps DEF Logout, Change, View
<1> QED
  BY <1>2, <1>3, <1>4, <1>5, <1>6

\* The drawer is closed and the answers for it become unwelcome.
LEMMA ClearKeeps ==
  ASSUME ExplorerAssumption, XInv, ClearSelection, wanted' \in View, UNCHANGED <<view, effectDue, calls, pageVars>>
  PROVE  XInv'
<1>1. /\ selectedID' = None /\ selected' = <<>> /\ next' = 0 /\ traceReq' = traceReq + 1
      /\ UNCHANGED <<view, effectDue, calls, pageReq, page, cursor, loading, pageFailed>>
  BY DEF ClearSelection, pageVars
<1>2. ExplorerTypeOK'
  <2>1. <<>> \in Seq(Part) /\ 0 \in 0..LastPart
    BY DEF ExplorerAssumption
  <2> QED
    BY <1>1, <2>1 DEF XInv, ExplorerTypeOK
<1>3. \A c \in calls : c.to = "list" => (Current(c)' <=> Current(c))
  BY <1>1 DEF Current
<1>4. Counted'
  <2>1. \A c \in calls : c.id <= CASE c.to = "list" -> pageReq [] c.to = "trace" -> traceReq + 1
    BY CallFields DEF XInv, Counted, ExplorerTypeOK
  <2> QED
    BY <1>1, <2>1 DEF XInv, Counted
<1>5. ListOfView' /\ DrawerOfView' /\ NeverStuck'
  BY <1>1, <1>3 DEF XInv, ListOfView, DrawerOfView, NeverStuck
<1> QED
  BY <1>2, <1>4, <1>5 DEF XInv

LEMMA SwitchedKeeps ==
  ASSUME ExplorerAssumption, XInv, (\E w \in Workspace : WorkspaceSwitched(w)) \/ CloseTrace
  PROVE  XInv'
<1>1. wanted \in View
  BY DEF XInv, ExplorerTypeOK
<1>2. CASE \E w \in Workspace : WorkspaceSwitched(w)
  BY <1>1, <1>2, ClearKeeps DEF WorkspaceSwitched, Change, View
<1>3. CASE CloseTrace
  BY <1>1, <1>3, ClearKeeps DEF CloseTrace, viewVars
<1> QED
  BY <1>2, <1>3

\* Between a render and its effect nothing is said of list and drawer.
LEMMA RenderKeeps ==
  ASSUME XInv, Render
  PROVE  XInv'
<1>1. /\ view' = wanted /\ effectDue' = TRUE
      /\ UNCHANGED <<wanted, calls, pageReq, page, cursor, loading, pageFailed,
                     traceReq, selectedID, selected, next, traceLoading>>
  BY DEF Render, pageVars, traceVars
<1>2. Counted' /\ \A c \in calls : Current(c)' <=> Current(c)
  BY <1>1, SameCalls
<1>3. ExplorerTypeOK'
  BY <1>1 DEF XInv, ExplorerTypeOK
<1>4. ListOfView' /\ DrawerOfView' /\ NeverStuck'
  BY <1>1, <1>2 DEF XInv, ListOfView, DrawerOfView, NeverStuck
<1> QED
  BY <1>2, <1>3, <1>4 DEF XInv

\* A list is asked for: it is the one that is welcome.
LEMMA AskList ==
  ASSUME XInv, NEW cu \in View \union {None},
         pageReq' = pageReq + 1, calls' = calls \union {ListCall(pageReq + 1, cu)},
         loading' = TRUE, UNCHANGED <<view, traceReq>>
  PROVE  /\ calls' \subseteq ListCalls \union TraceCalls /\ pageReq' \in Nat
         /\ Counted' /\ ListOfView'
         /\ \E c \in calls' : c.to = "list" /\ Current(c)'
         /\ \A c \in calls' : c.to = "trace" => c \in calls /\ (Current(c)' <=> Current(c))
         /\ calls \subseteq calls'
<1> DEFINE new == ListCall(pageReq + 1, cu)
<1>1. pageReq \in Nat /\ pageReq + 1 \in Nat /\ ExplorerTypeOK /\ Counted
  BY DEF XInv, ExplorerTypeOK
<1>2. new \in ListCalls /\ new.to = "list" /\ new.id = pageReq + 1 /\ new.view = view
  <2>1. /\ ListCall(pageReq + 1, cu) \in ListCalls /\ ListCall(pageReq + 1, cu).to = "list"
        /\ ListCall(pageReq + 1, cu).id = pageReq + 1 /\ ListCall(pageReq + 1, cu).view = view
    BY <1>1, NewCallFields
  <2> QED
    BY <2>1
<1>3. calls' = calls \union {new}
  OBVIOUS
<1> HIDE DEF new
<1>4. \A c \in calls : c.to = "list" => c.id <= pageReq
  BY <1>1 DEF Counted
<1>5. \A c \in calls : c.to = "trace" => c.id <= traceReq
  BY <1>1 DEF Counted
<1>6. \A c \in calls : c.to \in {"list", "trace"} /\ c.id \in Nat
  BY <1>1, CallFields
<1>7. \A c \in calls' : /\ c.to = "list" => (Current(c)' <=> c.id = pageReq + 1)
                        /\ c.to = "trace" => (Current(c)' <=> c.id = traceReq)
  BY DEF Current
<1>8. \A c \in calls' : c.to = "list" /\ Current(c)' => c = new
  BY <1>1, <1>3, <1>4, <1>6, <1>7
<1>9. Counted'
  <2>1. \A c \in calls' : c.id <= CASE c.to = "list" -> pageReq + 1 [] c.to = "trace" -> traceReq
    <3> SUFFICES ASSUME NEW c \in calls'
                 PROVE c.id <= CASE c.to = "list" -> pageReq + 1 [] c.to = "trace" -> traceReq
      OBVIOUS
    <3>1. CASE c = new
      BY <1>1, <1>2, <3>1
    <3>2. CASE c \in calls
      BY <1>1, <1>4, <1>5, <1>6, <3>2
    <3> QED
      BY <1>3, <3>1, <3>2
  <2>2. ASSUME NEW c \in calls', NEW d \in calls', c.to = d.to, c.id = d.id PROVE c = d
    <3>1. CASE c \in calls /\ d \in calls
      BY <1>1, <2>2, <3>1 DEF Counted
    <3>2. CASE c = new /\ d \in calls
      BY <1>1, <1>2, <1>4, <1>6, <2>2, <3>2
    <3>3. CASE d = new /\ c \in calls
      BY <1>1, <1>2, <1>4, <1>6, <2>2, <3>3
    <3> QED
      BY <1>3, <3>1, <3>2, <3>3
  <2> QED
    BY <2>1, <2>2 DEF Counted
<1>10. ListOfView'
  BY <1>2, <1>8 DEF ListOfView
<1>11. \E c \in calls' : c.to = "list" /\ Current(c)'
  BY <1>2, <1>3, <1>7
<1>12. \A c \in calls' : c.to = "trace" => c \in calls /\ (Current(c)' <=> Current(c))
  BY <1>1, <1>2, <1>3, <1>7, CurrentIs
<1> QED
  BY <1>1, <1>2, <1>3, <1>9, <1>10, <1>11, <1>12 DEF XInv, ExplorerTypeOK

\* The effect of a render: the drawer is closed, the list asked for.
LEMMA EffectKeeps ==
  ASSUME XInv, Effect
  PROVE  XInv'
<1>1. /\ selectedID' = None /\ selected' = <<>> /\ effectDue' = FALSE
      /\ UNCHANGED <<wanted, view, page, cursor, traceReq, next, traceLoading>>
  BY DEF Effect
<1>2. <<>> \in Seq(Part)
  OBVIOUS
<1>3. DrawerOfView'
  BY <1>1 DEF DrawerOfView
<1>4. CASE Usable(view)
  <2>1. /\ pageReq' = pageReq + 1 /\ calls' = calls \union {ListCall(pageReq + 1, None)}
        /\ loading' = TRUE
    BY <1>4 DEF Effect
  <2>2. /\ calls' \subseteq ListCalls \union TraceCalls /\ pageReq' \in Nat
        /\ Counted' /\ ListOfView'
        /\ \E c \in calls' : c.to = "list" /\ Current(c)'
    BY <1>1, <2>1, AskList
  <2>3. ExplorerTypeOK'
    BY <1>1, <1>2, <2>2 DEF XInv, ExplorerTypeOK
  <2>4. NeverStuck'
    BY <1>1, <2>2 DEF NeverStuck
  <2> QED
    BY <1>3, <2>2, <2>3, <2>4 DEF XInv
<1>5. CASE ~Usable(view)
  <2>1. UNCHANGED <<pageReq, calls, loading>>
    BY <1>5 DEF Effect
  <2>2. Counted' /\ \A c \in calls : Current(c)' <=> Current(c)
    BY <1>1, <2>1, SameCalls
  <2>3. ExplorerTypeOK'
    BY <1>1, <1>2, <2>1 DEF XInv, ExplorerTypeOK
  <2>4. ListOfView' /\ NeverStuck'
    BY <1>1, <1>5, <2>1, <2>2 DEF XInv, ListOfView, NeverStuck, Usable
  <2> QED
    BY <1>3, <2>2, <2>3, <2>4 DEF XInv
<1> QED
  BY <1>4, <1>5

\* The user asks for the list again, or for more of it.
LEMMA RefreshKeeps ==
  ASSUME XInv, Refresh \/ LoadMore
  PROVE  XInv'
<1>1. PICK cu \in View \union {None} :
        /\ pageReq' = pageReq + 1 /\ calls' = calls \union {ListCall(pageReq + 1, cu)}
        /\ loading' = TRUE
        /\ UNCHANGED <<viewVars, page, cursor, traceVars>>
  BY DEF Refresh, LoadMore, XInv, ExplorerTypeOK
<1>2. UNCHANGED <<wanted, view, effectDue, page, cursor, traceReq, selectedID, selected, next,
                  traceLoading, openedIn>>
  BY <1>1 DEF viewVars, traceVars
<1>3. /\ calls' \subseteq ListCalls \union TraceCalls /\ pageReq' \in Nat
      /\ Counted' /\ ListOfView'
      /\ \E c \in calls' : c.to = "list" /\ Current(c)'
      /\ \A c \in calls' : c.to = "trace" => c \in calls /\ (Current(c)' <=> Current(c))
      /\ calls \subseteq calls'
  BY <1>1, <1>2, AskList
<1>4. ExplorerTypeOK'
  BY <1>2, <1>3 DEF XInv, ExplorerTypeOK
<1>5. DrawerOfView'
  BY <1>2, <1>3 DEF XInv, DrawerOfView
<1>6. NeverStuck'
  <2>1. selectedID # None /\ traceLoading => \E c \in calls : c.to = "trace" /\ Current(c)
    BY DEF XInv, NeverStuck
  <2>2. selectedID # None /\ traceLoading => \E c \in calls' : c.to = "trace" /\ Current(c)'
    BY <1>3, <2>1
  <2> QED
    BY <1>2, <1>3, <2>2 DEF NeverStuck
<1> QED
  BY <1>3, <1>4, <1>5, <1>6 DEF XInv

\* Spans of a trace are asked for: the answer is the one that is welcome.
LEMMA AskTrace ==
  ASSUME XInv, NEW t \in TraceID, NEW n \in 1..LastPart,
         traceReq' = traceReq + 1, calls' = calls \union {TraceCall(traceReq + 1, t, n)},
         UNCHANGED <<wanted, view, effectDue, page, cursor, loading, pageFailed, pageReq>>
  PROVE  /\ calls' \subseteq ListCalls \union TraceCalls /\ traceReq' \in Nat
         /\ Counted' /\ ListOfView'
         /\ \E c \in calls' : c.to = "trace" /\ Current(c)'
         /\ loading => \E c \in calls' : c.to = "list" /\ Current(c)'
         /\ \A c \in calls' : c.to = "trace" /\ Current(c)' =>
              c.view = view /\ c.trace = t /\ c.part = n
<1> DEFINE new == TraceCall(traceReq + 1, t, n)
<1>1. traceReq \in Nat /\ traceReq + 1 \in Nat /\ ExplorerTypeOK /\ Counted
  BY DEF XInv, ExplorerTypeOK
<1>2. /\ new \in TraceCalls /\ new.to = "trace" /\ new.id = traceReq + 1 /\ new.view = view
      /\ new.trace = t /\ new.part = n
  <2>1. /\ TraceCall(traceReq + 1, t, n) \in TraceCalls /\ TraceCall(traceReq + 1, t, n).to = "trace"
        /\ TraceCall(traceReq + 1, t, n).id = traceReq + 1 /\ TraceCall(traceReq + 1, t, n).view = view
        /\ TraceCall(traceReq + 1, t, n).trace = t /\ TraceCall(traceReq + 1, t, n).part = n
    BY <1>1, NewCallFields
  <2> QED
    BY <2>1
<1>3. calls' = calls \union {new}
  OBVIOUS
<1> HIDE DEF new
<1>4. \A c \in calls : c.to = "trace" => c.id <= traceReq
  BY <1>1 DEF Counted
<1>5. \A c \in calls : c.to = "list" => c.id <= pageReq
  BY <1>1 DEF Counted
<1>6. \A c \in calls : c.to \in {"list", "trace"} /\ c.id \in Nat
  BY <1>1, CallFields
<1>7. \A c \in calls' : /\ c.to = "trace" => (Current(c)' <=> c.id = traceReq + 1)
                        /\ c.to = "list" => (Current(c)' <=> c.id = pageReq)
  BY DEF Current
<1>8. \A c \in calls' : c.to = "trace" /\ Current(c)' => c = new
  BY <1>1, <1>3, <1>4, <1>6, <1>7
<1>9. Counted'
  <2>1. \A c \in calls' : c.id <= CASE c.to = "list" -> pageReq [] c.to = "trace" -> traceReq + 1
    <3> SUFFICES ASSUME NEW c \in calls'
                 PROVE c.id <= CASE c.to = "list" -> pageReq [] c.to = "trace" -> traceReq + 1
      OBVIOUS
    <3>1. CASE c = new
      BY <1>1, <1>2, <3>1
    <3>2. CASE c \in calls
      BY <1>1, <1>4, <1>5, <1>6, <3>2
    <3> QED
      BY <1>3, <3>1, <3>2
  <2>2. ASSUME NEW c \in calls', NEW d \in calls', c.to = d.to, c.id = d.id PROVE c = d
    <3>1. CASE c \in calls /\ d \in calls
      BY <1>1, <2>2, <3>1 DEF Counted
    <3>2. CASE c = new /\ d \in calls
      BY <1>1, <1>2, <1>4, <1>6, <2>2, <3>2
    <3>3. CASE d = new /\ c \in calls
      BY <1>1, <1>2, <1>4, <1>6, <2>2, <3>3
    <3> QED
      BY <1>3, <3>1, <3>2, <3>3
  <2> QED
    BY <2>1, <2>2 DEF Counted
<1>10. \A c \in calls' : c.to = "list" => c \in calls /\ (Current(c)' <=> Current(c))
  BY <1>1, <1>2, <1>3, <1>7, CurrentIs
<1>11. ListOfView'
  BY <1>10 DEF XInv, ListOfView
<1>12. loading => \E c \in calls' : c.to = "list" /\ Current(c)'
  BY <1>3, <1>10 DEF XInv, NeverStuck
<1>13. \E c \in calls' : c.to = "trace" /\ Current(c)'
  BY <1>2, <1>3, <1>7
<1> QED
  BY <1>1, <1>2, <1>3, <1>8, <1>9, <1>11, <1>12, <1>13 DEF XInv, ExplorerTypeOK

LEMMA OpenKeeps ==
  ASSUME ExplorerAssumption, XInv, NEW t \in TraceID, OpenTrace(t)
  PROVE  XInv'
<1>1. 1 \in 1..LastPart /\ 0 \in 0..LastPart /\ <<>> \in Seq(Part) /\ Len(<<>>) = 0
  BY DEF ExplorerAssumption
<1>2. /\ traceReq' = traceReq + 1 /\ calls' = calls \union {TraceCall(traceReq + 1, t, 1)}
      /\ UNCHANGED <<wanted, view, effectDue, page, cursor, loading, pageFailed, pageReq>>
      /\ selectedID' = t /\ selected' = <<>> /\ next' = 0 /\ openedIn' = view
  BY DEF OpenTrace, viewVars, pageVars
<1>3. /\ calls' \subseteq ListCalls \union TraceCalls /\ traceReq' \in Nat
      /\ Counted' /\ ListOfView'
      /\ \E c \in calls' : c.to = "trace" /\ Current(c)'
      /\ loading => \E c \in calls' : c.to = "list" /\ Current(c)'
      /\ \A c \in calls' : c.to = "trace" /\ Current(c)' =>
           c.view = view /\ c.trace = t /\ c.part = 1
  BY <1>1, <1>2, AskTrace
<1>4. ExplorerTypeOK'
  BY <1>1, <1>2, <1>3 DEF XInv, ExplorerTypeOK
<1>5. DrawerOfView'
  BY <1>1, <1>2, <1>3 DEF DrawerOfView
<1>6. NeverStuck'
  BY <1>2, <1>3 DEF NeverStuck
<1> QED
  BY <1>3, <1>4, <1>5, <1>6 DEF XInv

LEMMA LoadMoreTraceKeeps ==
  ASSUME ExplorerAssumption, XInv, LoadMoreTrace
  PROVE  XInv'
<1>1. selectedID \in TraceID /\ next \in 1..LastPart
  BY DEF LoadMoreTrace, XInv, ExplorerTypeOK, ExplorerAssumption
<1>2. /\ traceReq' = traceReq + 1 /\ calls' = calls \union {TraceCall(traceReq + 1, selectedID, next)}
      /\ UNCHANGED <<wanted, view, effectDue, page, cursor, loading, pageFailed, pageReq>>
      /\ UNCHANGED <<selectedID, selected, next, openedIn>> /\ next # 0
  BY DEF LoadMoreTrace, viewVars, pageVars
<1>3. /\ calls' \subseteq ListCalls \union TraceCalls /\ traceReq' \in Nat
      /\ Counted' /\ ListOfView'
      /\ \E c \in calls' : c.to = "trace" /\ Current(c)'
      /\ loading => \E c \in calls' : c.to = "list" /\ Current(c)'
      /\ \A c \in calls' : c.to = "trace" /\ Current(c)' =>
           c.view = view /\ c.trace = selectedID /\ c.part = next
  BY <1>1, <1>2, AskTrace
<1>4. ExplorerTypeOK'
  BY <1>2, <1>3 DEF XInv, ExplorerTypeOK
<1>5. DrawerOfView'
  BY <1>2, <1>3 DEF XInv, DrawerOfView
<1>6. NeverStuck'
  BY <1>2, <1>3 DEF NeverStuck
<1> QED
  BY <1>3, <1>4, <1>5, <1>6 DEF XInv

\* A call is answered: of its kind nothing is welcome then, if it was; the rest stays.
LEMMA Answered ==
  ASSUME XInv, NEW c \in calls, calls' = calls \ {c}, UNCHANGED <<pageReq, traceReq>>
  PROVE  /\ Counted' /\ calls' \subseteq ListCalls \union TraceCalls
         /\ \A d \in calls' : d \in calls /\ (Current(d)' <=> Current(d))
         /\ \A d \in calls : d # c => d \in calls'
         /\ \A d \in calls' : Current(c) /\ d.to = c.to => ~Current(d)
<1>1. \A d \in calls' : Current(d)' <=> Current(d)
  BY DEF Current
<1>2. Counted'
  BY DEF XInv, Counted
<1>3. \A d \in calls' : Current(c) /\ d.to = c.to => ~Current(d)
  BY OneCurrent DEF XInv
<1> QED
  BY <1>1, <1>2, <1>3 DEF XInv, ExplorerTypeOK

LEMMA IgnoredKeeps ==
  ASSUME XInv, NEW c \in calls, AnswerIgnored(c)
  PROVE  XInv'
<1>1. /\ calls' = calls \ {c} /\ ~Current(c)
      /\ UNCHANGED <<wanted, view, effectDue, pageReq, page, cursor, loading, pageFailed,
                     traceReq, selectedID, selected, next, traceLoading, openedIn>>
  BY DEF AnswerIgnored, viewVars, pageVars, traceVars
<1>2. /\ Counted' /\ calls' \subseteq ListCalls \union TraceCalls
      /\ \A d \in calls' : d \in calls /\ (Current(d)' <=> Current(d))
      /\ \A d \in calls : d # c => d \in calls'
  BY <1>1, Answered
<1>3. ExplorerTypeOK'
  BY <1>1, <1>2 DEF XInv, ExplorerTypeOK
<1>4. ListOfView' /\ DrawerOfView'
  BY <1>1, <1>2 DEF XInv, ListOfView, DrawerOfView
<1>5. NeverStuck'
  BY <1>1, <1>2 DEF XInv, NeverStuck
<1> QED
  BY <1>2, <1>3, <1>4, <1>5 DEF XInv

LEMMA ListAnsweredKeeps ==
  ASSUME XInv, NEW c \in calls, NEW more \in BOOLEAN, ListAnswered(c, more)
  PROVE  XInv'
<1>1. /\ calls' = calls \ {c} /\ Current(c) /\ c.to = "list"
      /\ page' = c.view /\ cursor' = (IF more THEN c.view ELSE None) /\ loading' = FALSE
      /\ UNCHANGED <<wanted, view, effectDue, pageReq, pageFailed,
                     traceReq, selectedID, selected, next, traceLoading, openedIn>>
  BY DEF ListAnswered, viewVars, traceVars
<1>2. /\ Counted' /\ calls' \subseteq ListCalls \union TraceCalls
      /\ \A d \in calls' : d \in calls /\ (Current(d)' <=> Current(d))
      /\ \A d \in calls : d # c => d \in calls'
  BY <1>1, Answered
<1>3. ExplorerTypeOK'
  <2>1. cursor' \in View \union {None}
    BY <1>1, CallFields DEF XInv
  <2> QED
    BY <1>1, <1>2, <2>1 DEF XInv, ExplorerTypeOK
<1>4. ListOfView'
  BY <1>1, <1>2 DEF XInv, ListOfView
<1>5. DrawerOfView'
  BY <1>1, <1>2 DEF XInv, DrawerOfView
<1>6. NeverStuck'
  BY <1>1, <1>2 DEF XInv, NeverStuck
<1> QED
  BY <1>2, <1>3, <1>4, <1>5, <1>6 DEF XInv

LEMMA TraceAnsweredKeeps ==
  ASSUME ExplorerAssumption, XInv, NEW c \in calls, TraceAnswered(c)
  PROVE  XInv'
<1> DEFINE shown == [view |-> c.view, trace |-> c.trace, part |-> c.part]
<1>1. /\ calls' = calls \ {c} /\ Current(c) /\ c.to = "trace"
      /\ selected' = (IF c.part = 1 THEN <<shown>> ELSE Append(selected, shown))
      /\ next' = (IF c.part < LastPart THEN c.part + 1 ELSE 0)
      /\ traceLoading' = FALSE
      /\ UNCHANGED <<wanted, view, effectDue, pageReq, page, cursor, loading, pageFailed,
                     traceReq, selectedID, openedIn>>
  BY DEF TraceAnswered, viewVars, pageVars
<1>2. /\ Counted' /\ calls' \subseteq ListCalls \union TraceCalls
      /\ \A d \in calls' : d \in calls /\ (Current(d)' <=> Current(d))
      /\ \A d \in calls : d # c => d \in calls'
      /\ \A d \in calls' : d.to = "trace" => ~Current(d)
  BY <1>1, Answered
<1>3. c.view \in View /\ c.trace \in TraceID /\ c.part \in 1..LastPart /\ LastPart \in Nat \ {0}
  BY <1>1, CallFields DEF XInv, ExplorerAssumption
<1>4. shown \in Part
  BY <1>3 DEF Part
<1>5. selected \in Seq(Part) /\ Len(selected) \in Nat
  BY DEF XInv, ExplorerTypeOK
<1>6. ExplorerTypeOK'
  <2>1. selected' \in Seq(Part)
    <3> HIDE DEF shown
    <3> QED
      BY <1>1, <1>4, <1>5
  <2>2. next' \in 0..LastPart
    BY <1>1, <1>3
  <2> QED
    BY <1>1, <1>2, <2>1, <2>2 DEF XInv, ExplorerTypeOK
<1>7. ListOfView'
  BY <1>1, <1>2 DEF XInv, ListOfView
<1>8. NeverStuck'
  BY <1>1, <1>2 DEF XInv, NeverStuck
<1>9. DrawerOfView'
  <2> SUFFICES ASSUME ~effectDue, selectedID # None
               PROVE  /\ openedIn = view
                      /\ \A i \in 1..Len(selected') :
                           selected'[i] = [view |-> view, trace |-> selectedID, part |-> i]
                      /\ next' # 0 => next' = Len(selected') + 1
    BY <1>1, <1>2 DEF DrawerOfView
  <2>1. /\ openedIn = view
        /\ \A i \in 1..Len(selected) :
             selected[i] = [view |-> view, trace |-> selectedID, part |-> i]
        /\ c.view = view /\ c.trace = selectedID /\ c.part = Len(selected) + 1
    BY <1>1 DEF XInv, DrawerOfView
  <2>2. shown = [view |-> view, trace |-> selectedID, part |-> c.part]
    BY <2>1
  <2> HIDE DEF shown
  <2>3. Len(selected') = Len(selected) + 1 /\ selected'[Len(selected) + 1] = shown
        /\ \A i \in 1..Len(selected) : selected'[i] = selected[i]
    <3>1. CASE c.part = 1
      <4>1. selected' = <<shown>> /\ Len(selected) = 0
        BY <1>1, <1>5, <2>1, <3>1
      <4> QED
        BY <4>1
    <3>2. CASE c.part # 1
      <4>1. selected' = Append(selected, shown)
        BY <1>1, <3>2
      <4> QED
        BY <1>4, <1>5, <4>1
    <3> QED
      BY <3>1, <3>2
  <2>4. ASSUME NEW i \in 1..Len(selected')
        PROVE  selected'[i] = [view |-> view, trace |-> selectedID, part |-> i]
    <3>1. i \in 1..Len(selected) \/ i = Len(selected) + 1
      BY <1>5, <2>3
    <3>2. CASE i \in 1..Len(selected)
      BY <2>1, <2>3, <3>2
    <3>3. CASE i = Len(selected) + 1
      BY <2>1, <2>2, <2>3, <3>3
    <3> QED
      BY <3>1, <3>2, <3>3
  <2>5. next' # 0 => next' = Len(selected') + 1
    BY <1>1, <1>5, <2>1, <2>3
  <2> QED
    BY <2>1, <2>4, <2>5
<1> QED
  BY <1>2, <1>6, <1>7, <1>8, <1>9 DEF XInv

LEMMA FailsKeeps ==
  ASSUME XInv, NEW c \in calls, CallFails(c)
  PROVE  XInv'
<1>1. /\ calls' = calls \ {c} /\ Current(c) /\ c.to \in {"list", "trace"}
      /\ UNCHANGED <<wanted, view, effectDue, pageReq, page, cursor,
                     traceReq, selected, next, openedIn>>
      /\ selectedID' \in {selectedID, None}
  BY CallFields DEF CallFails, viewVars, XInv
<1>2. /\ Counted' /\ calls' \subseteq ListCalls \union TraceCalls
      /\ \A d \in calls' : d \in calls /\ (Current(d)' <=> Current(d))
      /\ \A d \in calls : d # c => d \in calls'
      /\ \A d \in calls' : d.to = c.to => ~Current(d)
  BY <1>1, Answered
<1>3. ExplorerTypeOK'
  BY <1>1, <1>2 DEF XInv, ExplorerTypeOK
<1>4. DrawerOfView'
  BY <1>1, <1>2 DEF XInv, DrawerOfView
<1>5. CASE c.to = "list"
  <2>1. loading' = FALSE /\ pageFailed' = TRUE /\ UNCHANGED <<traceLoading, selectedID>>
    BY <1>5 DEF CallFails
  <2>2. ListOfView'
    BY <1>1, <1>2, <2>1 DEF XInv, ListOfView
  <2>3. NeverStuck'
    BY <1>1, <1>2, <1>5, <2>1 DEF XInv, NeverStuck
  <2> QED
    BY <1>2, <1>3, <1>4, <2>2, <2>3 DEF XInv
<1>6. CASE c.to = "trace"
  <2>1. traceLoading' = FALSE /\ UNCHANGED <<loading, pageFailed>>
    BY <1>6 DEF CallFails
  <2>2. ListOfView'
    BY <1>1, <1>2, <2>1 DEF XInv, ListOfView
  <2>3. NeverStuck'
    BY <1>1, <1>2, <1>6, <2>1 DEF XInv, NeverStuck
  <2> QED
    BY <1>2, <1>3, <1>4, <2>2, <2>3 DEF XInv
<1> QED
  BY <1>1, <1>5, <1>6

LEMMA InitExplorer ==
  ASSUME ExplorerAssumption, Init
  PROVE  XInv
<1>1. <<>> \in Seq(Part) /\ 0 \in 0..LastPart
  BY DEF ExplorerAssumption
<1>2. ExplorerTypeOK
  BY <1>1 DEF Init, ExplorerTypeOK
<1>3. Counted /\ ListOfView /\ DrawerOfView /\ NeverStuck
  BY DEF Init, Counted, ListOfView, DrawerOfView, NeverStuck
<1> QED
  BY <1>2, <1>3 DEF XInv

-----------------------------------------------------------------------------
(* The theorems.                                                            *)

\* What is shown, and what is welcome, is of the view on display; nothing loads for ever.
THEOREM ExplorerInvariant == Spec => []XInv
<1>1. Init => XInv
  BY ExplorerAssumption, InitExplorer
<1>2. XInv /\ [Next]_vars => XInv'
  <2> SUFFICES ASSUME XInv, [Next]_vars PROVE XInv'
    OBVIOUS
  <2>1. CASE UNCHANGED vars
    <3>1. wanted' \in View /\ UNCHANGED <<view, effectDue, calls, pageVars, traceVars>>
      BY <2>1 DEF vars, viewVars, XInv, ExplorerTypeOK
    <3> QED
      BY <3>1, SetKeeps
  <2>2. CASE \E c \in calls : \/ AnswerIgnored(c) \/ TraceAnswered(c) \/ CallFails(c)
                              \/ \E more \in BOOLEAN : ListAnswered(c, more)
    BY <2>2, ExplorerAssumption, IgnoredKeeps, TraceAnsweredKeeps, FailsKeeps, ListAnsweredKeeps
  <2>3. CASE \/ \E t \in Token, w \in Workspace : Login(t, w)
             \/ \E w \in Workspace : EnterWorkspace(w) \/ SelectWorkspace(w) \/ SwitchFails(w)
             \/ \E f \in Filter : SetFilter(f)
             \/ Logout
    BY <2>3, ExplorerAssumption, ChangeKeeps
  <2>4. CASE (\E w \in Workspace : WorkspaceSwitched(w)) \/ CloseTrace
    BY <2>4, ExplorerAssumption, SwitchedKeeps
  <2>5. CASE Render \/ Effect \/ Refresh \/ LoadMore
    BY <2>5, RenderKeeps, EffectKeeps, RefreshKeeps
  <2>6. CASE (\E t \in TraceID : OpenTrace(t)) \/ LoadMoreTrace
    BY <2>6, ExplorerAssumption, OpenKeeps, LoadMoreTraceKeeps
  <2> QED
    BY <2>1, <2>2, <2>3, <2>4, <2>5, <2>6 DEF Next
<1> QED
  BY <1>1, <1>2, PTL DEF Spec

\* No list that was overtaken by a change of user, workspace or filters is shown.
THEOREM PageIsCurrent == Spec => []PageCurrent
<1>1. XInv => PageCurrent
  BY DEF XInv, ListOfView, PageCurrent, Settled
<1> QED
  BY <1>1, ExplorerInvariant, PTL

\* The drawer shows parts of one trace, in order, read in the view on display.
THEOREM DrawerIsConsistent == Spec => []DrawerConsistent
<1>1. XInv => DrawerConsistent
  <2> SUFFICES ASSUME XInv, Settled, selectedID # None
               PROVE  /\ openedIn = view
                      /\ selected = [i \in 1..Len(selected) |->
                                       [view |-> view, trace |-> selectedID, part |-> i]]
    BY DEF DrawerConsistent
  <2>1. /\ openedIn = view
        /\ \A i \in 1..Len(selected) :
             selected[i] = [view |-> view, trace |-> selectedID, part |-> i]
    BY DEF XInv, DrawerOfView, Settled
  <2>2. selected = [i \in 1..Len(selected) |-> selected[i]]
    BY DEF XInv, ExplorerTypeOK
  <2> QED
    BY <2>1, <2>2
<1> QED
  BY <1>1, ExplorerInvariant, PTL

\* Whatever is shown as loading has a request whose answer will be welcome.
THEOREM NothingIsStuck == Spec => []NeverStuck
<1>1. XInv => NeverStuck
  BY DEF XInv
<1> QED
  BY <1>1, ExplorerInvariant, PTL
=============================================================================
