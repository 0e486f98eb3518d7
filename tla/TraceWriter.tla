---------------------------- MODULE TraceWriter ----------------------------
(***************************************************************************)
(* The asynchronous trace writer, src/internal/ingest/writer.go.  HTTP     *)
(* handlers call Enqueue concurrently and serialise on enqueueMu; one      *)
(* goroutine, run, receives spans from the channel w.queue, collects them  *)
(* in a batch and appends the batch to the store; Close closes w.done and  *)
(* waits for run to drain.                                                 *)
(*                                                                         *)
(* The channel and the batch are two windows on one log: sent holds every  *)
(* span ever put on the channel, taken counts those run has received and   *)
(* settled those whose batch has been released.  Each entry carries the    *)
(* number of bytes of the log up to and including it, so that the size of  *)
(* a window is a difference.                                               *)
(***************************************************************************)
EXTENDS Integers, Sequences

CONSTANTS
  Request,        \* calls of Enqueue, one per HTTP request that reaches it
  Closer,         \* calls of Close
  Key,            \* identities (workspace, trace, span) of spans
  Body,           \* Body[r]: the identities of the spans of request r, in order
  BodyBytes,      \* BodyBytes[r][i]: the size of the first i spans of request r
  Free,           \* the holder of an unlocked enqueueMu
  BatchSize, QueueSize, MaxQueueBytes,
  MaxAttempts     \* attempts of flush at appending one batch: 3 in the code

\* Handlers refuse an empty request before Enqueue, every span weighs at least
\* its fixed 256 bytes, and config.Load refuses sizes below one.
ASSUME BodyAssumption ==
  /\ Body \in [Request -> Seq(Key)]
  /\ \A r \in Request : Len(Body[r]) > 0
  /\ BodyBytes \in [Request -> Seq(Nat \ {0})]
  /\ \A r \in Request :
       /\ Len(BodyBytes[r]) = Len(Body[r])
       /\ \A i, j \in 1..Len(Body[r]) : i < j => BodyBytes[r][i] < BodyBytes[r][j]
  /\ Free \notin Request

ASSUME SizeAssumption ==
  /\ BatchSize \in Nat \ {0}
  /\ QueueSize \in Nat \ {0}
  /\ MaxQueueBytes \in Nat \ {0}
  /\ MaxAttempts \in Nat \ {0}

VARIABLES
  pc,         \* pc[r]: where the call of Enqueue for r stands
  mutex,      \* the request that holds enqueueMu, or Free
  progress,   \* how many spans of its body the holder has put on the channel
  sent, taken, settled,   \* the log and its two windows
  closed,     \* w.done is closed
  closing,    \* closing[c]: where the call c of Close stands
  run,        \* where the run goroutine stands
  mode,       \* run's loop: serving, draining after w.done, or the final flush
  attempt,    \* failed attempts at the batch in hand
  inFlight,   \* w.inFlightBytes
  accepted, rejected, dropped, written, writeErrors,   \* the counters, in spans
                                                       \* or calls or batches
  lastError,  \* an error is reported
  offered,    \* history: spans of all calls that Enqueue has admitted or refused
  lost,       \* history: positions in sent of the spans run has given up
  db          \* db[k]: position in sent of the version of k in the store, or 0

callVars  == <<pc, mutex, progress, sent, offered, accepted, rejected>>
runVars   == <<run, mode, attempt, taken, settled>>
storeVars == <<db, lost, written, writeErrors, lastError>>
closeVars == <<closed, closing>>
vars == <<callVars, runVars, storeVars, closeVars, inFlight, dropped>>

-----------------------------------------------------------------------------
CallState == {"idle", "sending", "counting", "ok", "ErrFull", "ErrClosed"}
Entry == [req : Request, at : Nat, upto : Nat]

Spans(r) == Len(Body[r])
BytesOf(r, i) == IF i = 0 THEN 0 ELSE BodyBytes[r][i]
Bytes(r) == BytesOf(r, Spans(r))

\* Bytes of the first n entries of the log.
BytesUpTo(n) == IF n = 0 THEN 0 ELSE sent[n].upto

QueueLen   == Len(sent) - taken
BatchLen   == taken - settled

\* Mistake: the bytes of a batch that was given up are not released.
BatchBytesIfStored ==
  IF run = "release" /\ lastError THEN 0
  ELSE BytesUpTo(taken) - BytesUpTo(settled)

BatchBytes == BytesUpTo(taken) - BytesUpTo(settled)

KeyAt(p) == Body[sent[p].req][sent[p].at]

\* Positions of the batch that hold a version of k.
InBatch(k) == {p \in (settled + 1)..taken : KeyAt(p) = k}

\* Mistake: an insert that ignores conflicts keeps the first version.
FirstInBatch(k) ==
  IF InBatch(k) = {} THEN db[k]
  ELSE CHOOSE p \in InBatch(k) : \A q \in InBatch(k) : p <= q

\* The version of k after the batch: spans are upserted in order.
LastInBatch(k) ==
  IF InBatch(k) = {} THEN db[k]
  ELSE CHOOSE p \in InBatch(k) : \A q \in InBatch(k) : q <= p

\* Mistake: a batch is only flushed when it is full.
NotFull == BatchLen < BatchSize

NothingToFlush == BatchLen = 0

AnotherAttempt == attempt + 1 < MaxAttempts

\* Mistake: the drain loop goes on after its final flush.
BackToLoop == "select"

AfterFlush == IF mode = "final" THEN "exited" ELSE "select"

Init ==
  /\ pc = [r \in Request |-> "idle"]
  /\ mutex = Free
  /\ progress = 0
  /\ sent = <<>> /\ taken = 0 /\ settled = 0
  /\ closed = FALSE
  /\ closing = [c \in Closer |-> "idle"]
  /\ run = "select" /\ mode = "serving" /\ attempt = 0
  /\ inFlight = 0
  /\ accepted = 0 /\ rejected = 0 /\ dropped = 0
  /\ written = 0 /\ writeErrors = 0 /\ lastError = FALSE
  /\ offered = 0 /\ lost = {}
  /\ db = [k \in Key |-> 0]

-----------------------------------------------------------------------------
(* Enqueue.  The capacity test reads inFlightBytes and len(w.queue), which  *)
(* only run changes while the mutex is held, and only downwards: reading    *)
(* both in one step loses no outcome.                                       *)

\* Mistake: the bytes of earlier requests are not considered.
HasRoomAlone(r) ==
  Bytes(r) <= MaxQueueBytes /\ Spans(r) <= QueueSize - QueueLen

\* Mistake: any free slot will do.
HasRoomForOne(r) ==
  inFlight + Bytes(r) <= MaxQueueBytes /\ QueueLen < QueueSize

HasRoom(r) ==
  /\ Bytes(r) <= MaxQueueBytes
  /\ inFlight + Bytes(r) <= MaxQueueBytes
  /\ Spans(r) <= QueueSize - QueueLen

\* A refused call leaves through the deferred unlock.
Refuse(r, answer) ==
  /\ pc' = [pc EXCEPT ![r] = answer]
  /\ rejected' = rejected + 1 /\ dropped' = dropped + Spans(r)
  /\ offered' = offered + Spans(r)
  /\ UNCHANGED <<mutex, progress, sent, accepted, inFlight, runVars, storeVars,
                 closeVars>>

EnqueueClosed(r) ==
  /\ pc[r] = "idle" /\ mutex = Free /\ closed
  /\ Refuse(r, "ErrClosed")

EnqueueFull(r) ==
  /\ pc[r] = "idle" /\ mutex = Free /\ ~closed /\ ~HasRoom(r)
  /\ Refuse(r, "ErrFull")

EnqueueAdmit(r) ==
  /\ pc[r] = "idle" /\ mutex = Free /\ ~closed /\ HasRoom(r)
  /\ pc' = [pc EXCEPT ![r] = "sending"]
  /\ mutex' = r /\ progress' = 0
  /\ offered' = offered + Spans(r)
  /\ UNCHANGED <<sent, accepted, rejected, inFlight, dropped, runVars, storeVars,
                 closeVars>>

\* w.queue <- sp: a send on a full channel would block here, mutex in hand.
Send(r) ==
  /\ pc[r] = "sending" /\ progress < Spans(r)
  /\ QueueLen < QueueSize
  /\ LET size == BytesOf(r, progress + 1) - BytesOf(r, progress)
     IN  sent' = Append(sent, [req |-> r, at |-> progress + 1,
                               upto |-> BytesUpTo(Len(sent)) + size])
  /\ progress' = progress + 1
  /\ UNCHANGED <<pc, mutex, offered, accepted, rejected, inFlight, dropped,
                 runVars, storeVars, closeVars>>

\* The bytes are counted once all the spans are on the channel.
CountBytes(r) ==
  /\ pc[r] = "sending" /\ progress = Spans(r)
  /\ inFlight' = inFlight + Bytes(r)
  /\ pc' = [pc EXCEPT ![r] = "counting"]
  /\ UNCHANGED <<mutex, progress, sent, offered, accepted, rejected, dropped,
                 runVars, storeVars, closeVars>>

EnqueueReturn(r) ==
  /\ pc[r] = "counting"
  /\ accepted' = accepted + Spans(r)
  /\ pc' = [pc EXCEPT ![r] = "ok"]
  /\ mutex' = Free /\ progress' = 0
  /\ UNCHANGED <<sent, offered, rejected, inFlight, dropped, runVars, storeVars,
                 closeVars>>

EnqueueStep(r) ==
  \/ EnqueueClosed(r) \/ EnqueueFull(r) \/ EnqueueAdmit(r)
  \/ Send(r) \/ CountBytes(r) \/ EnqueueReturn(r)

-----------------------------------------------------------------------------
(* The run goroutine.                                                       *)

\* A span joins the batch; a full batch is flushed at once.  The loop that
\* drains after w.done receives in the same way.
Receive ==
  /\ run = "select" /\ QueueLen > 0
  /\ taken' = taken + 1
  /\ run' = IF BatchLen + 1 >= BatchSize THEN "append" ELSE "select"
  /\ UNCHANGED <<mode, attempt, settled, callVars, storeVars, closeVars, inFlight,
                 dropped>>

\* The ticker flushes what there is; an empty flush changes nothing.
Tick ==
  /\ run = "select" /\ mode = "serving" /\ ~NothingToFlush
  /\ run' = "append"
  /\ UNCHANGED <<mode, attempt, taken, settled, callVars, storeVars, closeVars,
                 inFlight, dropped>>

SeeDone ==
  /\ run = "select" /\ mode = "serving" /\ closed
  /\ mode' = "draining"
  /\ UNCHANGED <<run, attempt, taken, settled, callVars, storeVars, closeVars,
                 inFlight, dropped>>

\* The default branch of the drain loop: flush what is left and return.
DrainEmpty ==
  /\ run = "select" /\ mode = "draining" /\ QueueLen = 0
  /\ mode' = "final"
  /\ run' = IF NothingToFlush THEN "exited" ELSE "append"
  /\ UNCHANGED <<attempt, taken, settled, callVars, storeVars, closeVars, inFlight,
                 dropped>>

\* The store upserts the spans of the batch in order and commits.
AppendOk ==
  /\ run = "append"
  /\ db' = [k \in Key |-> LastInBatch(k)]
  /\ run' = "stored"
  /\ UNCHANGED <<mode, attempt, taken, settled, lost, written, writeErrors, lastError,
                 callVars, closeVars, inFlight, dropped>>

\* The transaction rolls back and flush sleeps before the next attempt.
AppendFail ==
  /\ run = "append"
  /\ attempt' = attempt + 1
  /\ run' = IF AnotherAttempt THEN "append" ELSE "lost"
  /\ UNCHANGED <<mode, taken, settled, callVars, storeVars, closeVars, inFlight,
                 dropped>>

CountWritten ==
  /\ run = "stored"
  /\ written' = written + BatchLen /\ lastError' = FALSE
  /\ run' = "release"
  /\ UNCHANGED <<mode, attempt, taken, settled, db, lost, writeErrors, callVars,
                 closeVars, inFlight, dropped>>

\* Mistake: a lost batch is counted as one dropped span.
CountLostBatch ==
  /\ run = "lost"
  /\ lastError' = TRUE /\ writeErrors' = writeErrors + 1
  /\ dropped' = dropped + 1
  /\ lost' = lost \union (settled + 1)..taken
  /\ run' = "release"
  /\ UNCHANGED <<mode, attempt, taken, settled, db, written, callVars, closeVars,
                 inFlight>>

CountLost ==
  /\ run = "lost"
  /\ lastError' = TRUE /\ writeErrors' = writeErrors + 1
  /\ dropped' = dropped + BatchLen
  /\ lost' = lost \union (settled + 1)..taken
  /\ run' = "release"
  /\ UNCHANGED <<mode, attempt, taken, settled, db, written, callVars, closeVars,
                 inFlight>>

\* The bytes are given back and the batch is emptied.
Release ==
  /\ run = "release"
  /\ inFlight' = inFlight - BatchBytes
  /\ settled' = taken /\ attempt' = 0
  /\ run' = AfterFlush
  /\ UNCHANGED <<mode, taken, callVars, storeVars, closeVars, dropped>>

\* What follows from receiving, ticking and flushing.
RunStep ==
  \/ Receive \/ Tick \/ SeeDone \/ DrainEmpty
  \/ AppendOk \/ AppendFail \/ CountWritten \/ CountLost \/ Release

-----------------------------------------------------------------------------
(* Close.  The mutex is held only while w.done is closed, once.             *)

\* Mistake: w.done is closed without the mutex.
CloseUnlocked(c) ==
  /\ closing[c] = "idle"
  /\ closed' = TRUE
  /\ closing' = [closing EXCEPT ![c] = "waiting"]
  /\ UNCHANGED <<callVars, runVars, storeVars, inFlight, dropped>>

CloseBegin(c) ==
  /\ closing[c] = "idle" /\ mutex = Free
  /\ closed' = TRUE
  /\ closing' = [closing EXCEPT ![c] = "waiting"]
  /\ UNCHANGED <<callVars, runVars, storeVars, inFlight, dropped>>

CloseFinished(c) ==
  /\ closing[c] = "waiting" /\ run = "exited"
  /\ closing' = [closing EXCEPT ![c] = "nil"]
  /\ UNCHANGED <<closed, callVars, runVars, storeVars, inFlight, dropped>>

\* The caller's context ends first: Close returns, run goes on.
CloseExpired(c) ==
  /\ closing[c] = "waiting"
  /\ closing' = [closing EXCEPT ![c] = "ctxErr"]
  /\ UNCHANGED <<closed, callVars, runVars, storeVars, inFlight, dropped>>

CloseStep(c) == CloseBegin(c) \/ CloseFinished(c) \/ CloseExpired(c)

Next ==
  \/ \E r \in Request : EnqueueStep(r)
  \/ RunStep
  \/ \E c \in Closer : CloseStep(c)

Spec == Init /\ [][Next]_vars

\* Goroutines are scheduled, the ticker keeps ticking and the store answers;
\* that a client calls at all, or that anyone closes the writer, is not assumed.
Fairness ==
  /\ WF_vars(RunStep)
  /\ \A r \in Request : WF_vars(Send(r) \/ CountBytes(r) \/ EnqueueReturn(r))
  /\ \A c \in Closer : WF_vars(CloseFinished(c))

FairSpec == Spec /\ Fairness

-----------------------------------------------------------------------------
(* Correctness.                                                             *)

Sending(r) == pc[r] = "sending"

\* Spans admitted and not yet on the channel, and bytes on it not yet counted.
Unsent == IF mutex = Free THEN 0 ELSE Spans(mutex) - progress
Uncounted ==
  IF mutex # Free /\ pc[mutex] = "sending" THEN BytesOf(mutex, progress) ELSE 0

\* Spans of the batch that are not in a counter yet.
Unaccounted == IF run = "release" THEN 0 ELSE BatchLen

\* Every variable stays in its type; the attempts of flush stay within its loop
\* bound from one batch to the next.
TypeOK ==
  /\ pc \in [Request -> CallState]
  /\ mutex \in Request \union {Free}
  /\ progress \in Nat
  /\ sent \in Seq(Entry)
  /\ taken \in 0..Len(sent) /\ settled \in 0..taken
  /\ closed \in BOOLEAN
  /\ closing \in [Closer -> {"idle", "waiting", "nil", "ctxErr"}]
  /\ run \in {"select", "append", "stored", "lost", "release", "exited"}
  /\ mode \in {"serving", "draining", "final"}
  /\ attempt \in 0..MaxAttempts
  /\ inFlight \in Int
  /\ accepted \in Nat /\ rejected \in Nat /\ dropped \in Nat
  /\ written \in Nat /\ writeErrors \in Nat /\ lastError \in BOOLEAN
  /\ offered \in Nat
  /\ lost \subseteq 1..Len(sent)
  /\ db \in [Key -> 0..Len(sent)]

\* inFlightBytes is the size of channel and batch, but for the spans of the call
\* in progress, which are added after they are sent: run may have given bytes
\* back that were never added, and the gauge is then negative.
InFlightExact ==
  inFlight = BytesUpTo(Len(sent)) - BytesUpTo(settled) - Uncounted

\* "Trace writer is bounded by the number of queued spans and by the in-flight
\* bytes of TRACY_QUEUE_BYTES": at no moment do channel and batch exceed either
\* bound, although the bytes are counted late.
BudgetRespected ==
  /\ QueueLen <= QueueSize
  /\ BatchLen <= BatchSize
  /\ BytesUpTo(Len(sent)) - BytesUpTo(settled) <= MaxQueueBytes

\* The capacity test covers the whole body, so that no send in the loop of
\* Enqueue ever waits for room with enqueueMu held (and Close behind it).
SendNeverBlocks ==
  \A r \in Request :
    Sending(r) /\ progress < Spans(r) => QueueLen < QueueSize

\* Every span offered to Enqueue is counted exactly once: as written, as dropped
\* (at the door or after the last attempt), or still on its way; and accepted
\* counts the spans that went through the channel, but for the call in progress.
Accounting ==
  /\ written + dropped + Unaccounted + QueueLen + Unsent = offered
  /\ accepted + progress = Len(sent)

\* When run returns it leaves nothing behind: no span on the channel or in the
\* batch, and no call of Enqueue that could still add one.
DrainedOnExit ==
  run = "exited" =>
    /\ settled = Len(sent)
    /\ \A r \in Request : pc[r] \notin {"sending", "counting"}

\* The store follows the order of the log: for every settled span that was not
\* given up it holds that version or a later one of the same identity, and what
\* it holds is a version of that identity which was not given up.
StoreFollowsLog ==
  /\ \A p \in 1..settled : p \in lost \/ db[KeyAt(p)] >= p
  /\ \A k \in Key : db[k] > 0 => /\ KeyAt(db[k]) = k
                                /\ db[k] \notin lost
                                /\ db[k] <= taken

\* Every span of an accepted request is eventually stored or given up: attempts
\* are bounded, the ticker flushes a partial batch, Close drains the channel.
AcceptedSettles ==
  \A r \in Request :
    pc[r] = "ok" ~> \A p \in 1..Len(sent) : sent[p].req = r => p <= settled

\* Once w.done is closed, run returns, and so does a Close that waits for it.
CloseDrains ==
  \A c \in Closer : closing[c] = "waiting" ~> run = "exited" /\ closing[c] # "waiting"

-----------------------------------------------------------------------------
(* The writer implements IngestPromise.  A request joins the abstract log   *)
(* when it passes the capacity test, before its spans are on the channel; a *)
(* batch is settled when its transaction commits or its last attempt is     *)
(* given up, before its bytes are released.                                 *)

PromisedLog ==
  [p \in 1..(Len(sent) + Unsent) |->
     IF p <= Len(sent) THEN <<sent[p].req, sent[p].at>>
     ELSE <<mutex, progress + p - Len(sent)>>]

PromisedAnswer ==
  [r \in Request |-> CASE pc[r] = "ok" -> "accepted"
                      [] pc[r] = "ErrFull" -> "full"
                      [] pc[r] = "ErrClosed" -> "closed"
                      [] OTHER -> "none"]

Promise == INSTANCE IngestPromise WITH
  Capacity <- QueueSize + BatchSize,
  log <- PromisedLog,
  done <- IF run \in {"stored", "release"} THEN taken ELSE settled,
  dead <- lost,
  current <- db,
  answer <- PromisedAnswer,
  open <- ~closed,
  stopped <- run = "exited"

\* Requests are taken whole or not at all, are stored in the order in which they
\* were admitted, never after a refusal, never twice, and none is forgotten.
ImplementsPromise == Promise!Spec
=============================================================================
