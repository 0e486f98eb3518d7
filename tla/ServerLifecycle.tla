-------------------------- MODULE ServerLifecycle --------------------------
(***************************************************************************)
(* The life of one server process, src/cmd/server/main.go, around the      *)
(* trace writer: HTTP handlers that call Enqueue, a termination signal,    *)
(* and the sequence server.Shutdown, writer.Close, cleanupCancel, return,  *)
(* whose first two steps share one context with a deadline.                *)
(***************************************************************************)
EXTENDS TraceWriter

VARIABLES
  main,      \* where main stands after the start
  deadline,  \* shutdownCtx: "none", "running" or "expired"
  conn,      \* conn[r]: the connection that carries request r
  cleanup    \* the goroutine that deletes expired sessions

lifeVars == <<main, deadline, conn, cleanup>>
allVars  == <<vars, lifeVars>>

Alive == main # "exited"

LifeInit ==
  /\ Init
  /\ main = "serving" /\ deadline = "none"
  /\ conn = [r \in Request |-> "none"]
  /\ cleanup = "deleting"

\* The listener is open until Shutdown closes it.
Arrive(r) ==
  /\ main = "serving" /\ conn[r] = "none"
  /\ conn' = [conn EXCEPT ![r] = "open"]
  /\ UNCHANGED <<vars, main, deadline, cleanup>>

\* Authentication, decoding or validation fails: the writer is not called.
AnswerBadRequest(r) ==
  /\ Alive /\ conn[r] = "open" /\ pc[r] = "idle"
  /\ conn' = [conn EXCEPT ![r] = "4xx"]
  /\ UNCHANGED <<vars, main, deadline, cleanup>>

CallEnqueue(r) ==
  /\ Alive /\ conn[r] = "open"
  /\ EnqueueStep(r)
  /\ UNCHANGED lifeVars

\* 202 for an accepted request, 429 for a full queue, 503 for a closed writer.
Answer(r) ==
  /\ Alive /\ conn[r] = "open"
  /\ pc[r] \in {"ok", "ErrFull", "ErrClosed"}
  /\ conn' = [conn EXCEPT ![r] = CASE pc[r] = "ok" -> "202"
                                   [] pc[r] = "ErrFull" -> "429"
                                   [] pc[r] = "ErrClosed" -> "503"]
  /\ UNCHANGED <<vars, main, deadline, cleanup>>

WriterRuns == Alive /\ RunStep /\ UNCHANGED lifeVars

\* CleanupExpired at the start and every hour until cleanupCtx is cancelled; a
\* call in progress is finished, or cut short by the context, before that is seen.
CleanupTick ==
  /\ Alive /\ cleanup \in {"waiting", "deleting"}
  /\ cleanup' = IF cleanup = "waiting" THEN "deleting" ELSE "waiting"
  /\ UNCHANGED <<vars, main, deadline, conn>>

CleanupStops ==
  /\ main = "cancelled" /\ cleanup = "waiting"
  /\ cleanup' = "done"
  /\ UNCHANGED <<vars, main, deadline, conn>>

CutOff == [r \in Request |-> IF conn[r] = "open" THEN "cut" ELSE conn[r]]

\* ListenAndServe fails while serving: os.Exit, without Shutdown or Close.
ListenFails ==
  /\ main = "serving"
  /\ main' = "exited" /\ conn' = CutOff
  /\ UNCHANGED <<vars, deadline, cleanup>>

\* SIGINT or SIGTERM: the deadline starts and the listener closes.
Signal ==
  /\ main = "serving"
  /\ main' = "shutdown" /\ deadline' = "running"
  /\ UNCHANGED <<vars, conn, cleanup>>

Expire ==
  /\ Alive /\ deadline = "running"
  /\ deadline' = "expired"
  /\ UNCHANGED <<vars, main, conn, cleanup>>

HandlersDone == \A r \in Request : conn[r] # "open"

\* Mistake: Shutdown does not wait for the handlers.
NoWait == TRUE

\* Mistake: Shutdown has no deadline.
WaitForHandlers == HandlersDone

\* server.Shutdown returns when no handler is active, or at the deadline; main
\* ignores which.
ShutdownReturns == HandlersDone \/ deadline = "expired"

CallClose ==
  /\ main = "shutdown" /\ ShutdownReturns
  /\ main' = "closing"
  /\ UNCHANGED <<vars, deadline, conn, cleanup>>

\* writer.Close under the same deadline: when both are ready, select picks either.
CloseRuns(c) ==
  /\ main = "closing"
  /\ \/ CloseBegin(c) \/ CloseFinished(c)
     \/ deadline = "expired" /\ CloseExpired(c)
  /\ UNCHANGED lifeVars

\* Mistake: main does not wait for Close.
CloseCalled == \E c \in Closer : closing[c] # "idle"

CloseReturned == \E c \in Closer : closing[c] \in {"nil", "ctxErr"}

CancelCleanup ==
  /\ main = "closing" /\ CloseReturned
  /\ main' = "cancelled"
  /\ UNCHANGED <<vars, deadline, conn, cleanup>>

\* main returns and with it every goroutine ends; open connections are cut.
Exit ==
  /\ main = "cancelled" /\ cleanup = "done"
  /\ main' = "exited" /\ conn' = CutOff
  /\ UNCHANGED <<vars, deadline, cleanup>>

LifeNext ==
  \/ \E r \in Request :
       Arrive(r) \/ AnswerBadRequest(r) \/ CallEnqueue(r) \/ Answer(r)
  \/ WriterRuns \/ CleanupTick \/ CleanupStops
  \/ ListenFails \/ Signal \/ Expire \/ CallClose \/ CancelCleanup \/ Exit
  \/ \E c \in Closer : CloseRuns(c)

LifeSpec == LifeInit /\ [][LifeNext]_allVars

\* The scheduler is fair, the timer fires, the store answers and CleanupExpired
\* returns.  A client may leave its request unfinished for ever.
LifeFairness ==
  /\ WF_allVars(WriterRuns) /\ WF_allVars(Expire)
  /\ WF_allVars(CallClose) /\ WF_allVars(CancelCleanup) /\ WF_allVars(Exit)
  /\ WF_allVars(cleanup = "deleting" /\ CleanupTick)
  /\ SF_allVars(CleanupStops)
  /\ \A r \in Request : WF_allVars(pc[r] # "idle" /\ CallEnqueue(r))
  /\ \A c \in Closer : WF_allVars(CloseRuns(c))

FairLifeSpec == LifeSpec /\ LifeFairness

-----------------------------------------------------------------------------
\* A request is told that the writer is closed only after the deadline: until
\* then Shutdown has waited for its handler before main closes the writer.
ClosedOnlyLate ==
  \A r \in Request : conn[r] = "503" => deadline = "expired"

\* When the process ends within its deadline, every span that Enqueue took is
\* settled and no handler was cut off.
TimelyExitDrains ==
  main = "exited" /\ deadline = "running" =>
    settled = Len(sent) /\ \A r \in Request : conn[r] # "cut"

\* docs/development.md: a graceful exit waits for the writer to flush.
GracefulExitFlushes ==
  main = "exited" /\ deadline # "none" =>
    \A p \in 1..Len(sent) : conn[sent[p].req] = "202" => p <= settled

\* After a signal the process ends, whatever the clients and the store do: no
\* handler, no Close and no cleanup holds it beyond the deadline.
SignalEnds == main = "shutdown" ~> main = "exited"
=============================================================================
