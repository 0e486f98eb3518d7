--------------------------- MODULE IngestPromise ---------------------------
(***************************************************************************)
(* What the trace writer promises its callers, without goroutines, mutex,  *)
(* channel or counters: a log to which whole requests are admitted in one  *)
(* step, and which the store follows batch by batch.                       *)
(***************************************************************************)
EXTENDS Integers, Sequences

CONSTANTS Request, Key, Body,
          BatchSize,    \* most spans settled together
          Capacity      \* most spans admitted and not yet settled

VARIABLES
  log,      \* the admitted spans in order: <<request, index in its body>>
  done,     \* how many of them are settled: stored, or lost for good
  dead,     \* positions of the lost ones
  current,  \* current[k]: position of the version of k in the store, or 0
  answer,   \* answer[r]: what the call has returned
  open,     \* the writer takes new requests
  stopped   \* the writer has stopped working

vars == <<log, done, dead, current, answer, open, stopped>>

Admitted(r) == \E p \in 1..Len(log) : log[p][1] = r
KeyOf(p) == Body[log[p][1]][log[p][2]]

Init ==
  /\ log = <<>> /\ done = 0 /\ dead = {}
  /\ current = [k \in Key |-> 0]
  /\ answer = [r \in Request |-> "none"]
  /\ open = TRUE /\ stopped = FALSE

\* A request is admitted whole or not at all, and at most once.
Admit(r) ==
  /\ open
  /\ answer[r] = "none" /\ ~Admitted(r)
  /\ Len(log) + Len(Body[r]) - done <= Capacity
  /\ log' = [p \in 1..(Len(log) + Len(Body[r])) |->
               IF p <= Len(log) THEN log[p] ELSE <<r, p - Len(log)>>]
  /\ UNCHANGED <<done, dead, current, answer, open, stopped>>

\* Success is reported for admitted requests only.
Accept(r) ==
  /\ answer[r] = "none" /\ Admitted(r)
  /\ answer' = [answer EXCEPT ![r] = "accepted"]
  /\ UNCHANGED <<log, done, dead, current, open, stopped>>

\* Failure is reported for requests of which nothing was or will be stored.
Refuse(r) ==
  /\ answer[r] = "none" /\ ~Admitted(r)
  /\ answer' = [answer EXCEPT ![r] = IF open THEN "full" ELSE "closed"]
  /\ UNCHANGED <<log, done, dead, current, open, stopped>>

Settles(n) == n \in 1..BatchSize /\ done + n <= Len(log) /\ done' = done + n

\* The next n spans reach the store; of versions of one key the last stays.
Store(n) ==
  /\ Settles(n)
  /\ current' = [k \in Key |->
       LET P == {p \in (done + 1)..(done + n) : KeyOf(p) = k}
       IN  IF P = {} THEN current[k] ELSE CHOOSE p \in P : \A q \in P : q <= p]
  /\ UNCHANGED <<log, dead, answer, open, stopped>>

\* The next n spans are given up, and the store keeps what it had.
Lose(n) ==
  /\ Settles(n)
  /\ dead' = dead \union (done + 1)..(done + n)
  /\ UNCHANGED <<log, current, answer, open, stopped>>

\* Closing never falls between the admission of a request and its answer.
Shut ==
  /\ \A r \in Request : Admitted(r) => answer[r] = "accepted"
  /\ open' = FALSE
  /\ UNCHANGED <<log, done, dead, current, answer, stopped>>

\* The writer stops once everything it took is settled.
Stop ==
  /\ ~open /\ done = Len(log)
  /\ stopped' = TRUE
  /\ UNCHANGED <<log, done, dead, current, answer, open>>

Next ==
  \/ \E r \in Request : Admit(r) \/ Accept(r) \/ Refuse(r)
  \/ \E n \in 1..BatchSize : Store(n) \/ Lose(n)
  \/ Shut \/ Stop

Spec == Init /\ [][Next]_vars
=============================================================================
