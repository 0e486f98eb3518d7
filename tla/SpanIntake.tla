----------------------------- MODULE SpanIntake -----------------------------
(***************************************************************************)
(* What becomes of the spans in the body of an ingest request before they  *)
(* are in the writer's queue: the handlers ingest and cozeLoopIngest,      *)
(* UploadSpanData.Map and Span.Validate.  The credential is checked in     *)
(* Credentials, the queue is TraceWriter; here it is full, closed or       *)
(* takes the request.                                                      *)
(***************************************************************************)
EXTENDS Integers, Sequences

CONSTANTS
  Request,
  Workspace,
  Item,       \* spans as clients may write them, a subset of ItemType
  MaxItems,   \* bound on the spans of a body
  Day,        \* the longest duration, in the store's unit; less than Width
  Micro,      \* how many of that unit are one of CozeLoop's
  Width       \* an integer holds -Width .. Width - 1

Formats == {"native", "cozeloop"}

\* named: the ids and the name are there; long: one of them is too long; timed: the start is
\* there; large: a payload is too large.
ItemType == [named : BOOLEAN, long : BOOLEAN, timed : BOOLEAN, duration : Int, large : BOOLEAN,
             tokens : Int, workspace : Workspace]

VARIABLES
  req,     \* the requests in work
  queue    \* the spans of each that the writer took

vars == <<req, queue>>

Idle == [stage |-> "idle"]
Bodies == UNION {[1..n -> Item] : n \in 0..MaxItems}

Init == req = [r \in Request |-> Idle] /\ queue = [r \in Request |-> <<>>]

\* An authenticated request, with the workspace that workspaceForRequest found for it.
Arrive(r) ==
  /\ req[r] = Idle
  /\ \E f \in Formats, w \in Workspace, b \in Bodies :
       req' = [req EXCEPT ![r] = [stage |-> "decoded", format |-> f, workspace |-> w, body |-> b]]
  /\ UNCHANGED queue

-----------------------------------------------------------------------------
(* The spans of a body.                                                     *)

\* 64-bit arithmetic.
Wrap(n) == ((n + Width) % (2 * Width)) - Width

\* The workspace in the body counts for nothing; CozeLoop's spans bring no tokens, and one
\* without a start is of 1970, which is a start.
Spans(r) ==
  [i \in 1..Len(req[r].body) |->
     IF req[r].format = "native" THEN [req[r].body[i] EXCEPT !.workspace = req[r].workspace]
     ELSE [req[r].body[i] EXCEPT !.workspace = req[r].workspace, !.tokens = 0,
                                 !.timed = TRUE, !.duration = Wrap(@ * Micro)]]

\* Validate: the first test that fails decides.
Fault(s) ==
  IF ~s.named THEN "invalid"
  ELSE IF s.long THEN "too large"
  ELSE IF ~s.timed \/ s.duration \notin 0..Day THEN "invalid"
  ELSE IF s.large THEN "too large"
  ELSE IF s.tokens < 0 THEN "invalid"
  ELSE "none"

\* The first span with a fault decides.
FaultOf(spans) ==
  LET faulty == {i \in 1..Len(spans) : Fault(spans[i]) # "none"}
  IN  IF spans = <<>> THEN "empty"
      ELSE IF faulty = {} THEN "none"
      ELSE Fault(spans[CHOOSE i \in faulty : \A j \in faulty : i <= j])

\* Map has looked for the names in all spans before the first Validate.
Verdict(r) ==
  IF req[r].format = "cozeloop" /\ \E i \in 1..Len(req[r].body) : ~req[r].body[i].named
  THEN "invalid" ELSE FaultOf(Spans(r))

-----------------------------------------------------------------------------
Answers(r, answer) ==
  req' = [req EXCEPT ![r] = [stage |-> "answered", workspace |-> @.workspace, body |-> @.body,
                             format |-> @.format, answer |-> answer]]

\* 400 or 413; the writer is not called.
Refuse(r) ==
  /\ req[r].stage = "decoded" /\ Verdict(r) # "none"
  /\ Answers(r, Verdict(r))
  /\ UNCHANGED queue

Validated(r) ==
  /\ req[r].stage = "decoded" /\ Verdict(r) = "none"
  /\ req' = [req EXCEPT ![r].stage = "valid"]
  /\ UNCHANGED queue

\* Enqueue takes the request, or answers ErrFull or ErrClosed.
Enqueue(r) ==
  /\ req[r].stage = "valid"
  /\ \/ Answers(r, "accepted") /\ queue' = [queue EXCEPT ![r] = Spans(r)]
     \/ Answers(r, "full") /\ UNCHANGED queue
     \/ Answers(r, "closed") /\ UNCHANGED queue

\* The answer is read, and the writer has passed the spans on: the request is forgotten.
Forget(r) ==
  /\ req[r].stage = "answered"
  /\ req' = [req EXCEPT ![r] = Idle]
  /\ queue' = [queue EXCEPT ![r] = <<>>]

Next == \E r \in Request : Arrive(r) \/ Refuse(r) \/ Validated(r) \/ Enqueue(r) \/ Forget(r)

Spec == Init /\ [][Next]_vars

-----------------------------------------------------------------------------
TrueDuration(r, i) == req[r].body[i].duration * (IF req[r].format = "native" THEN 1 ELSE Micro)

\* "duration_micros -> duration": an accepted span has the duration its client gave.
DurationKept ==
  \A r \in Request : \A i \in 1..Len(queue[r]) : queue[r][i].duration = TrueDuration(r, i)
=============================================================================
