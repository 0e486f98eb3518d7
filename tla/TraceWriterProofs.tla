------------------------- MODULE TraceWriterProofs --------------------------
(***************************************************************************)
(* The trace writer, for any requests, closers, bodies and limits: its     *)
(* invariants, the store it fills, and that it implements IngestPromise.   *)
(* Then the life of the process around it: the steps of its handlers, of   *)
(* run and of Close are steps of the writer, so that the writer's          *)
(* invariant holds in it and it implements the promise as well; and its    *)
(* own invariant says what is settled by the time main is at each of its   *)
(* steps.                                                                  *)
(***************************************************************************)
EXTENDS ServerLifecycle, SequenceTheorems, WellFoundedInduction, TLAPS

(* Least and greatest elements of sets of natural numbers: first-order     *)
(* forms of induction, for the proofs about logs and counters.             *)

Less == {p \in Nat \X Nat : p[1] < p[2]}

LEMMA LessIsWellFounded == IsWellFoundedOn(Less, Nat)
  BY NatLessThanWellFounded, Zenon DEF OpToRel, Less

LEMMA LessPair ==
  ASSUME NEW a \in Nat, NEW b \in Nat, a < b
  PROVE  <<a, b>> \in Less
  BY DEF Less

\* Every nonempty set of natural numbers has a least element.
LEMMA LeastElement ==
  ASSUME NEW S \in SUBSET Nat, S # {}
  PROVE  \E n \in S : \A m \in S : n <= m
<1>1. PICK n \in S : \A y \in S : <<y, n>> \notin Less
  BY LessIsWellFounded, WFMin, Zenon
<1>2. \A m \in S : n <= m
  <2>. TAKE m \in S
  <2>1. ~(m < n)
    BY <1>1, LessPair
  <2>. QED BY <2>1
<1>. QED BY <1>2

\* Every nonempty set of natural numbers below a bound has a greatest element.
LEMMA GreatestElement ==
  ASSUME NEW N \in Nat, NEW S \in SUBSET (0..N), S # {}
  PROVE  \E n \in S : \A m \in S : m <= n
<1>. DEFINE T == {i \in 0..N : N - i \in S}
<1>1. T \in SUBSET Nat
  OBVIOUS
<1>2. T # {}
  <2>1. PICK s \in S : TRUE
    OBVIOUS
  <2>2. N - s \in 0..N /\ N - (N - s) = s
    OBVIOUS
  <2>. QED BY <2>1, <2>2
<1>3. PICK t \in T : \A u \in T : t <= u
  <2>. HIDE DEF T
  <2>. QED BY <1>1, <1>2, LeastElement
<1>4. \A m \in S : m <= N - t
  <2>. TAKE m \in S
  <2>1. N - m \in T
    <3>1. N - m \in 0..N /\ N - (N - m) = m
      OBVIOUS
    <3>. QED BY <3>1
  <2>2. t <= N - m
    BY <1>3, <2>1
  <2>. QED BY <2>2
<1>. QED BY <1>3, <1>4

-----------------------------------------------------------------------------
(* The inductive invariant.                                                 *)

\* Entries are spans of bodies, and the running total never falls.
LogShape ==
  /\ \A p \in 1..Len(sent) : sent[p].at \in 1..Spans(sent[p].req)
  /\ \A p, q \in 1..Len(sent) : p <= q => sent[p].upto <= sent[q].upto

\* enqueueMu is held by the one call that is past the capacity test, and while it
\* is held the writer is open.
MutexShape ==
  /\ \A r \in Request : pc[r] \in {"sending", "counting"} <=> mutex = r
  /\ mutex = Free => progress = 0
  /\ mutex # Free => progress <= Spans(mutex) /\ ~closed
  /\ mutex # Free /\ pc[mutex] = "counting" => progress = Spans(mutex)

\* The room that the capacity test found is kept for the rest of the body.
RoomKept ==
  /\ QueueLen + Unsent <= QueueSize
  /\ mutex = Free =>
       BytesUpTo(Len(sent)) - BytesUpTo(settled) <= MaxQueueBytes
  /\ mutex # Free =>
       BytesUpTo(Len(sent)) - BytesUpTo(settled)
         + Bytes(mutex) - BytesOf(mutex, progress) <= MaxQueueBytes

\* What the stages of flush say of the batch, the attempts and the channel.
RunShape ==
  /\ BatchLen <= BatchSize
  /\ run = "select" => BatchLen < BatchSize /\ mode # "final"
  /\ run \in {"select", "append"} => attempt < MaxAttempts
  /\ mode # "serving" => closed
  /\ mode = "final" => QueueLen = 0
  /\ run = "exited" => mode = "final" /\ BatchLen = 0

Inv ==
  /\ TypeOK /\ LogShape /\ MutexShape /\ RoomKept /\ RunShape
  /\ InFlightExact /\ Accounting

\* The groups of variables are only names for tuples.
USE DEF callVars, runVars, storeVars, closeVars

-----------------------------------------------------------------------------
(* Running totals.                                                          *)

\* The bytes of a longer prefix of a body are at least those of a shorter one.
LEMMA BodyBytesGrow ==
  ASSUME NEW r \in Request, NEW i \in 0..Spans(r), NEW j \in 0..Spans(r), i <= j
  PROVE  /\ BytesOf(r, i) \in Nat /\ BytesOf(r, j) \in Nat
         /\ BytesOf(r, i) <= BytesOf(r, j)
<1>1. /\ Len(Body[r]) \in Nat /\ Len(BodyBytes[r]) = Len(Body[r])
      /\ BodyBytes[r] \in Seq(Nat \ {0})
  BY BodyAssumption
<1>2. \A n \in 1..Len(Body[r]) : BodyBytes[r][n] \in Nat
  BY <1>1
<1>3. i # 0 /\ i # j => BodyBytes[r][i] < BodyBytes[r][j]
  BY <1>1, BodyAssumption DEF Spans
<1>4. i \in Nat /\ j \in Nat /\ i <= Len(Body[r]) /\ j <= Len(Body[r])
  BY <1>1 DEF Spans
<1>5. BytesOf(r, i) \in Nat /\ BytesOf(r, j) \in Nat
  BY <1>2, <1>4 DEF BytesOf
<1>6. BytesOf(r, i) <= BytesOf(r, j)
  <2>1. CASE i = 0
    BY <2>1, <1>5 DEF BytesOf
  <2>2. CASE i = j
    BY <2>2, <1>5
  <2>3. CASE i # 0 /\ i # j
    <3>1. j # 0 BY <2>3, <1>4
    <3>. QED BY <2>3, <3>1, <1>2, <1>3, <1>4 DEF BytesOf
  <2>. QED BY <2>1, <2>2, <2>3
<1>. QED BY <1>5, <1>6

LEMMA SpansPositive ==
  ASSUME NEW r \in Request
  PROVE  Spans(r) \in Nat \ {0}
  BY BodyAssumption DEF Spans

\* The running total of the log is a natural number at every position.
LEMMA LogBytesNat ==
  ASSUME TypeOK, NEW n \in 0..Len(sent)
  PROVE  BytesUpTo(n) \in Nat
<1>1. CASE n = 0
  BY <1>1 DEF BytesUpTo
<1>2. CASE n # 0
  <2>1. sent \in Seq(Entry) /\ n \in 1..Len(sent)
    BY <1>2 DEF TypeOK
  <2>2. sent[n] \in Entry
    BY <2>1
  <2>. QED BY <1>2, <2>2 DEF BytesUpTo, Entry
<1>. QED BY <1>1, <1>2

\* A longer prefix of the log holds at least the bytes of a shorter one.
LEMMA LogBytesGrow ==
  ASSUME TypeOK, LogShape, NEW m \in 0..Len(sent), NEW n \in 0..Len(sent), m <= n
  PROVE  BytesUpTo(m) <= BytesUpTo(n)
<1>1. CASE m = 0
  BY <1>1, LogBytesNat DEF BytesUpTo
<1>2. CASE m # 0
  <2>1. m \in 1..Len(sent) /\ n \in 1..Len(sent)
    BY <1>2 DEF TypeOK
  <2>. QED BY <2>1, <1>2 DEF LogShape, BytesUpTo
<1>. QED BY <1>1, <1>2

\* The totals at the ends of channel and batch.
LEMMA WindowBytesNat ==
  ASSUME TypeOK
  PROVE  /\ Len(sent) \in Nat /\ taken \in Nat /\ settled \in Nat
         /\ settled <= taken /\ taken <= Len(sent)
         /\ BytesUpTo(Len(sent)) \in Nat /\ BytesUpTo(taken) \in Nat
         /\ BytesUpTo(settled) \in Nat
<1>1. Len(sent) \in Nat /\ taken \in 0..Len(sent) /\ settled \in 0..Len(sent) /\ settled <= taken
  BY DEF TypeOK
<1>. QED BY <1>1, LogBytesNat

-----------------------------------------------------------------------------
(* The invariant holds initially and is preserved by every action.          *)

LEMMA InitInv == Init => Inv
<1>. SUFFICES ASSUME Init PROVE Inv
  OBVIOUS
<1>1. TypeOK
  <2>1. sent \in Seq(Entry) /\ Len(sent) = 0
    BY DEF Init
  <2>2. lost \subseteq 1..Len(sent) /\ taken \in 0..Len(sent) /\ settled \in 0..taken
        /\ db \in [Key -> 0..Len(sent)]
    BY <2>1 DEF Init
  <2>3. attempt \in 0..MaxAttempts
    BY SizeAssumption DEF Init
  <2>4. /\ pc \in [Request -> CallState]
        /\ closing \in [Closer -> {"idle", "waiting", "nil", "ctxErr"}]
        /\ mutex \in Request \union {Free} /\ progress \in Nat
    BY DEF Init, CallState
  <2>7. closed \in BOOLEAN /\ lastError \in BOOLEAN
    BY Zenon DEF Init
  <2>8. inFlight \in Int /\ offered \in Nat
    BY DEF Init
  <2>5. /\ run \in {"select", "append", "stored", "lost", "release", "exited"}
        /\ mode \in {"serving", "draining", "final"}
    BY DEF Init
  <2>6. /\ accepted \in Nat /\ rejected \in Nat /\ dropped \in Nat
        /\ written \in Nat /\ writeErrors \in Nat
    BY DEF Init
  <2>. QED BY <2>1, <2>2, <2>3, <2>4, <2>5, <2>6, <2>7, <2>8 DEF TypeOK
<1>2. LogShape /\ MutexShape
  BY BodyAssumption DEF Init, LogShape, MutexShape
<1>3. RoomKept /\ RunShape /\ InFlightExact /\ Accounting
  BY SizeAssumption DEF Init, RoomKept, RunShape, InFlightExact, Accounting, QueueLen,
     BatchLen, BytesUpTo, Unsent, Uncounted, Unaccounted
<1>. QED BY <1>1, <1>2, <1>3 DEF Inv

LEMMA StutterInv == Inv /\ UNCHANGED vars => Inv'
<1>. SUFFICES ASSUME Inv, UNCHANGED vars PROVE Inv'
  OBVIOUS
<1>. USE DEF Inv, vars
<1>1. TypeOK' /\ LogShape' /\ MutexShape'
  BY DEF TypeOK, LogShape, MutexShape, Spans
<1>2. RoomKept' /\ RunShape'
  BY DEF RoomKept, RunShape, QueueLen, BatchLen, BytesUpTo, Unsent, Spans, Bytes,
     BytesOf
<1>3. InFlightExact' /\ Accounting'
  BY DEF InFlightExact, Accounting, QueueLen, BatchLen, BytesUpTo, Unsent, Uncounted,
     Unaccounted, Spans, BytesOf
<1>. QED BY <1>1, <1>2, <1>3

\* The terms of Accounting are numbers.
LEMMA CountersNat ==
  ASSUME TypeOK, MutexShape
  PROVE  /\ written \in Nat /\ dropped \in Nat /\ offered \in Nat
         /\ QueueLen \in Nat /\ BatchLen \in Nat /\ Unaccounted \in Nat
         /\ Unsent \in Nat /\ accepted \in Nat /\ progress \in Nat /\ Len(sent) \in Nat
<1>1. Unsent \in Nat
  BY SpansPositive DEF TypeOK, CallState, MutexShape, Unsent
<1>2. QueueLen \in Nat /\ BatchLen \in Nat /\ Unaccounted \in Nat
  BY DEF TypeOK, QueueLen, BatchLen, Unaccounted
<1>. QED BY <1>1, <1>2 DEF TypeOK

LEMMA RefuseInv ==
  ASSUME Inv, NEW r \in Request, pc[r] = "idle",
         NEW answer \in {"ErrFull", "ErrClosed"}, Refuse(r, answer)
  PROVE  Inv'
<1>. USE DEF Inv
<1>1. TypeOK'
  BY SpansPositive, SMTT(30) DEF Refuse, TypeOK, CallState
<1>2. MutexShape'
  BY DEF Refuse, TypeOK, CallState, MutexShape
<1>3. LogShape' /\ RoomKept' /\ RunShape'
  BY DEF Refuse, LogShape, RoomKept, RunShape, QueueLen, BatchLen,
     BytesUpTo, Unsent, Spans, Bytes, BytesOf
<1>4. InFlightExact'
  BY DEF Refuse, TypeOK, CallState, MutexShape, InFlightExact, BytesUpTo, Uncounted,
     BytesOf
<1>5. Accounting'
  <2>1. Unaccounted' = Unaccounted /\ QueueLen' = QueueLen /\ Unsent' = Unsent
        /\ written' = written
    BY DEF Refuse, Unaccounted, QueueLen, BatchLen, Unsent, Spans
  <2>2. offered' = offered + Spans(r) /\ dropped' = dropped + Spans(r)
        /\ accepted' = accepted /\ progress' = progress /\ sent' = sent
    BY DEF Refuse
  <2>3. /\ written + dropped + Unaccounted + QueueLen + Unsent = offered
        /\ accepted + progress = Len(sent)
    BY DEF Accounting
  <2>4. /\ written \in Nat /\ dropped \in Nat /\ offered \in Nat /\ QueueLen \in Nat
        /\ Unaccounted \in Nat /\ Unsent \in Nat /\ accepted \in Nat
        /\ progress \in Nat /\ Len(sent) \in Nat /\ Spans(r) \in Nat
    BY CountersNat, SpansPositive
  <2>. HIDE DEF Inv
  <2>8. (written + dropped + Unaccounted + QueueLen + Unsent = offered)'
    BY <2>1, <2>2, <2>3, <2>4, SMTT(60)
  <2>9. (accepted + progress = Len(sent))'
    BY <2>2, <2>3
  <2>. QED BY <2>8, <2>9 DEF Accounting
<1>. QED BY <1>1, <1>2, <1>3, <1>4, <1>5

LEMMA AdmitInv ==
  ASSUME Inv, NEW r \in Request, EnqueueAdmit(r)
  PROVE  Inv'
<1>. USE DEF Inv
<1>1. mutex = Free /\ mutex' = r /\ progress' = 0 /\ r # Free /\ ~closed
  BY BodyAssumption DEF EnqueueAdmit
<1>2. TypeOK'
  BY SpansPositive DEF EnqueueAdmit, TypeOK, CallState
<1>3. MutexShape'
  <2>1. /\ pc' = [pc EXCEPT ![r] = "sending"] /\ pc \in [Request -> CallState]
        /\ closed' = closed
    BY DEF EnqueueAdmit, TypeOK
  <2>2. \A q \in Request : pc'[q] \in {"sending", "counting"} <=> r = q
    <3>1. \A q \in Request : pc[q] \notin {"sending", "counting"}
      BY <1>1, BodyAssumption DEF MutexShape
    <3>. QED BY <2>1, <3>1
  <2>3. progress' <= Spans(mutex') /\ pc'[mutex'] = "sending"
    BY <1>1, <2>1, SpansPositive
  <2>. QED BY <1>1, <2>1, <2>2, <2>3 DEF MutexShape, Spans
<1>4. LogShape' /\ RunShape'
  BY DEF EnqueueAdmit, LogShape, RunShape, QueueLen, BatchLen, Spans
<1>5. BytesUpTo(Len(sent))' = BytesUpTo(Len(sent)) /\ BytesUpTo(settled)' = BytesUpTo(settled)
  BY DEF EnqueueAdmit, BytesUpTo
<1>6. inFlight = BytesUpTo(Len(sent)) - BytesUpTo(settled) /\ inFlight' = inFlight
  <2>1. Uncounted = 0 /\ inFlight' = inFlight
    BY <1>1 DEF Uncounted, EnqueueAdmit
  <2>. QED BY <2>1, WindowBytesNat DEF InFlightExact
<1>7. InFlightExact'
  BY <1>1, <1>5, <1>6, WindowBytesNat DEF InFlightExact, Uncounted, BytesOf
<1>8. RoomKept'
  <2>1. Bytes(r)' = Bytes(r) /\ Bytes(r) \in Nat /\ BytesOf(mutex, progress)' = 0
    BY <1>1, BodyBytesGrow, SpansPositive DEF Bytes, BytesOf, Spans
  <2>2. inFlight + Bytes(r) <= MaxQueueBytes /\ Spans(r) <= QueueSize - QueueLen
    BY DEF EnqueueAdmit, HasRoom
  <2>3. QueueLen' = QueueLen /\ Unsent' = Spans(r)
    BY <1>1, SpansPositive DEF EnqueueAdmit, QueueLen, Unsent, Spans
  <2>4. (QueueLen + Unsent <= QueueSize)'
    BY <2>2, <2>3, SpansPositive, CountersNat, SizeAssumption
  <2>5. (BytesUpTo(Len(sent)) - BytesUpTo(settled) + Bytes(mutex)
          - BytesOf(mutex, progress) <= MaxQueueBytes)'
    BY <1>1, <1>5, <1>6, <2>1, <2>2, WindowBytesNat DEF Bytes, Spans
  <2>. QED BY <1>1, <2>4, <2>5 DEF RoomKept
<1>9. Accounting'
  <2>1. Unaccounted' = Unaccounted /\ QueueLen' = QueueLen /\ written' = written
        /\ dropped' = dropped
    BY DEF EnqueueAdmit, Unaccounted, QueueLen, BatchLen
  <2>2. offered' = offered + Spans(r) /\ Unsent = 0 /\ Unsent' = Spans(r)
        /\ accepted' = accepted /\ progress = 0 /\ progress' = 0 /\ sent' = sent
    BY <1>1, SpansPositive DEF EnqueueAdmit, Unsent, Spans, MutexShape
  <2>3. /\ written + dropped + Unaccounted + QueueLen + Unsent = offered
        /\ accepted + progress = Len(sent)
    BY DEF Accounting
  <2>4. /\ written \in Nat /\ dropped \in Nat /\ offered \in Nat /\ QueueLen \in Nat
        /\ Unaccounted \in Nat /\ Spans(r) \in Nat
    BY CountersNat, SpansPositive
  <2>. HIDE DEF Inv
  <2>8. (written + dropped + Unaccounted + QueueLen + Unsent = offered)'
    BY <2>1, <2>2, <2>3, <2>4
  <2>9. (accepted + progress = Len(sent))'
    BY <2>2, <2>3
  <2>. QED BY <2>8, <2>9 DEF Accounting
<1>. QED BY <1>2, <1>3, <1>4, <1>7, <1>8, <1>9

LEMMA CountBytesInv ==
  ASSUME Inv, NEW r \in Request, CountBytes(r)
  PROVE  Inv'
<1>. USE DEF Inv
<1>1. mutex = r /\ r # Free /\ progress = Spans(r)
  BY BodyAssumption DEF CountBytes, MutexShape
<1>2. Bytes(r) \in Nat /\ BytesOf(r, progress) = Bytes(r)
  BY <1>1, BodyBytesGrow, SpansPositive DEF Bytes
<1>3. TypeOK'
  BY <1>2 DEF CountBytes, TypeOK, CallState
<1>4. MutexShape'
  BY <1>1 DEF CountBytes, TypeOK, CallState, MutexShape, Spans
<1>5. LogShape' /\ RoomKept' /\ RunShape'
  BY DEF CountBytes, LogShape, RoomKept, RunShape, QueueLen, BatchLen,
     BytesUpTo, Unsent, Spans, Bytes, BytesOf
<1>6. InFlightExact'
  <2>1. inFlight = BytesUpTo(Len(sent)) - BytesUpTo(settled) - Bytes(r)
    BY <1>1, <1>2 DEF InFlightExact, Uncounted, CountBytes
  <2>2. Uncounted' = 0
    BY <1>1 DEF Uncounted, CountBytes, TypeOK
  <2>3. BytesUpTo(Len(sent))' = BytesUpTo(Len(sent)) /\ BytesUpTo(settled)' = BytesUpTo(settled)
        /\ inFlight' = inFlight + Bytes(r)
    BY DEF CountBytes, BytesUpTo
  <2>. QED BY <1>2, <2>1, <2>2, <2>3, WindowBytesNat DEF InFlightExact
<1>7. Accounting'
  BY DEF CountBytes, Accounting, QueueLen, BatchLen,
     Unsent, Unaccounted, Spans
<1>. QED BY <1>3, <1>4, <1>5, <1>6, <1>7

LEMMA EnqueueReturnInv ==
  ASSUME Inv, NEW r \in Request, EnqueueReturn(r)
  PROVE  Inv'
<1>. USE DEF Inv
<1>1. mutex = r /\ r # Free /\ progress = Spans(r) /\ mutex' = Free
  BY BodyAssumption DEF EnqueueReturn, MutexShape
<1>2. TypeOK'
  BY SpansPositive DEF EnqueueReturn, TypeOK, CallState
<1>3. MutexShape'
  BY <1>1, BodyAssumption DEF EnqueueReturn, TypeOK, MutexShape
<1>4. LogShape' /\ RunShape'
  BY DEF EnqueueReturn, LogShape, RunShape, QueueLen, BatchLen, Spans
<1>5. BytesUpTo(Len(sent))' = BytesUpTo(Len(sent)) /\ BytesUpTo(settled)' = BytesUpTo(settled)
  BY DEF EnqueueReturn, BytesUpTo
<1>6. Unsent = 0 /\ Unsent' = 0 /\ QueueLen' = QueueLen
  BY <1>1, SpansPositive DEF EnqueueReturn, Unsent, QueueLen
<1>7. RoomKept'
  <2>1. BytesOf(r, progress) = Bytes(r) /\ Bytes(r) \in Nat
    BY <1>1, BodyBytesGrow, SpansPositive DEF Bytes
  <2>2. BytesUpTo(Len(sent)) - BytesUpTo(settled) <= MaxQueueBytes
    BY <1>1, <2>1, WindowBytesNat DEF RoomKept
  <2>. QED BY <1>1, <1>5, <1>6, <2>2 DEF RoomKept
<1>8. InFlightExact'
  BY <1>1, <1>5 DEF EnqueueReturn, InFlightExact, Uncounted
<1>9. Accounting'
  <2>1. Unaccounted' = Unaccounted /\ written' = written /\ dropped' = dropped
        /\ offered' = offered
    BY DEF EnqueueReturn, Unaccounted, BatchLen
  <2>2. accepted' = accepted + Spans(r) /\ progress' = 0 /\ sent' = sent
    BY DEF EnqueueReturn
  <2>. QED BY <1>1, <1>6, <2>1, <2>2, CountersNat, SpansPositive DEF Accounting
<1>. QED BY <1>2, <1>3, <1>4, <1>7, <1>8, <1>9

\* A send moves one span from the body to the channel: what was promised to the
\* body is now on the channel, in spans and in bytes.
LEMMA SendInv ==
  ASSUME Inv, NEW r \in Request, Send(r)
  PROVE  Inv'
<1>. USE DEF Inv
<1>. DEFINE size == BytesOf(r, progress + 1) - BytesOf(r, progress)
            entry == [req |-> r, at |-> progress + 1, upto |-> BytesUpTo(Len(sent)) + size]
<1>1. /\ mutex = r /\ r # Free /\ pc[r] = "sending" /\ progress \in Nat
      /\ progress < Spans(r) /\ Spans(r) \in Nat
  BY BodyAssumption, SpansPositive DEF Send, MutexShape, TypeOK
<1>2. /\ BytesOf(r, progress) \in Nat /\ BytesOf(r, progress + 1) \in Nat /\ Bytes(r) \in Nat
      /\ size \in Nat
  <2>1. progress \in 0..Spans(r) /\ progress + 1 \in 0..Spans(r) /\ Spans(r) \in 0..Spans(r)
    BY <1>1
  <2>. HIDE DEF Inv
  <2>2. /\ BytesOf(r, progress) \in Nat /\ BytesOf(r, progress + 1) \in Nat
        /\ BytesOf(r, Spans(r)) \in Nat
    BY <2>1, BodyBytesGrow
  <2>3. BytesOf(r, progress) <= BytesOf(r, progress + 1)
    BY <2>1, <1>1, BodyBytesGrow
  <2>4. size \in Nat
    BY <2>2, <2>3
  <2>5. Bytes(r) \in Nat
    BY <2>2 DEF Bytes
  <2>. QED BY <2>2, <2>4, <2>5
<1>3. entry \in Entry
  <2>1. BytesUpTo(Len(sent)) \in Nat
    BY WindowBytesNat
  <2>. HIDE DEF Inv, size
  <2>. QED BY <2>1, <1>1, <1>2 DEF Entry
<1>4. /\ sent \in Seq(Entry) /\ sent' = Append(sent, entry)
      /\ mutex' = mutex /\ pc' = pc /\ progress' = progress + 1
      /\ taken' = taken /\ settled' = settled /\ QueueLen < QueueSize
  BY DEF Send, TypeOK
<1>. HIDE DEF size, entry
<1>5. /\ sent' \in Seq(Entry) /\ Len(sent') = Len(sent) + 1
      /\ \A p \in 1..Len(sent) : sent'[p] = sent[p]
      /\ sent'[Len(sent) + 1] = entry
  BY <1>3, <1>4
<1>6. /\ BytesUpTo(Len(sent))' = BytesUpTo(Len(sent)) + size
      /\ BytesUpTo(settled)' = BytesUpTo(settled)
      /\ BytesUpTo(taken)' = BytesUpTo(taken)
  <2>1. entry.upto = BytesUpTo(Len(sent)) + size
    BY DEF entry
  <2>2. Len(sent)' # 0 /\ sent'[Len(sent)'].upto = entry.upto
    BY <1>5, WindowBytesNat
  <2>3. settled # 0 => sent'[settled] = sent[settled]
    BY <1>5, WindowBytesNat
  <2>4. taken # 0 => sent'[taken] = sent[taken]
    BY <1>5, WindowBytesNat
  <2>. QED BY <2>1, <2>2, <2>3, <2>4, <1>4 DEF BytesUpTo
<1>. DEFINE before == BytesOf(r, progress)
            after  == BytesOf(r, progress + 1)
<1>15. /\ before \in Nat /\ after \in Nat
       /\ BytesUpTo(Len(sent))' = BytesUpTo(Len(sent)) + (after - before)
       /\ BytesOf(mutex, progress) = before /\ BytesOf(mutex, progress)' = after
  BY <1>1, <1>2, <1>4, <1>6 DEF size, BytesOf
<1>. HIDE DEF before, after
<1>7. TypeOK'
  <2>1. /\ taken' \in 0..Len(sent') /\ settled' \in 0..taken' /\ lost' \subseteq 1..Len(sent')
        /\ db' \in [Key -> 0..Len(sent')]
    BY <1>4, <1>5, WindowBytesNat DEF Send, TypeOK
  <2>. QED BY <2>1, <1>1, <1>4, <1>5 DEF Send, TypeOK
<1>8. LogShape'
  <2>1. entry.req = r /\ entry.at = progress + 1 /\ entry.upto = BytesUpTo(Len(sent)) + size
    BY DEF entry
  <2>2. \A p \in 1..Len(sent') : (sent[p].at \in 1..Spans(sent[p].req))'
    <3>. SUFFICES ASSUME NEW p \in 1..Len(sent')
                  PROVE  sent'[p].at \in 1..Spans(sent'[p].req)
      BY DEF Spans
    <3>1. CASE p = Len(sent) + 1
      BY <3>1, <1>1, <1>5, <2>1
    <3>2. CASE p # Len(sent) + 1
      <4>1. p \in 1..Len(sent)
        BY <3>2, <1>5, WindowBytesNat
      <4>. QED BY <4>1, <1>5 DEF LogShape
    <3>. QED BY <3>1, <3>2
  <2>3. \A p \in 1..Len(sent) : sent[p].upto \in Nat /\ sent[p].upto <= entry.upto
    <3>. TAKE p \in 1..Len(sent)
    <3>1. sent[p].upto = BytesUpTo(p) /\ BytesUpTo(p) \in Nat
      BY LogBytesNat, WindowBytesNat DEF BytesUpTo
    <3>2. BytesUpTo(p) <= BytesUpTo(Len(sent))
      BY LogBytesGrow, WindowBytesNat
    <3>. QED BY <2>1, <3>1, <3>2, <1>2, WindowBytesNat
  <2>4. entry.upto \in Nat
    BY <2>1, <1>2, WindowBytesNat
  <2>5. ASSUME NEW p \in 1..Len(sent'), NEW q \in 1..Len(sent'), p <= q
        PROVE  sent'[p].upto <= sent'[q].upto
    <3>1. CASE q = Len(sent) + 1
      <4>1. CASE p = q
        BY <4>1, <3>1, <2>4, <1>5
      <4>2. CASE p # q
        <5>1. p \in 1..Len(sent)
          BY <4>2, <3>1, <2>5, <1>5, WindowBytesNat
        <5>. QED BY <5>1, <3>1, <2>3, <1>5
      <4>. QED BY <4>1, <4>2
    <3>2. CASE q # Len(sent) + 1
      <4>1. p \in 1..Len(sent) /\ q \in 1..Len(sent)
        BY <3>2, <2>5, <1>5, WindowBytesNat
      <4>. QED BY <4>1, <2>5, <1>5 DEF LogShape
    <3>. QED BY <3>1, <3>2
  <2>. QED BY <2>2, <2>5 DEF LogShape
<1>9. MutexShape'
  BY <1>1, <1>4 DEF Send, MutexShape, Spans
<1>10. RunShape'
  BY <1>1, <1>4 DEF Send, RunShape, MutexShape, BatchLen
<1>11. QueueLen' = QueueLen + 1 /\ Unsent = Spans(r) - progress /\ Unsent' = Unsent - 1
  <2>1. Unsent = Spans(r) - progress /\ Unsent' = Spans(r) - (progress + 1)
    BY <1>1, <1>4 DEF Unsent, Spans
  <2>2. Len(sent) \in Nat /\ taken \in Nat
    BY WindowBytesNat
  <2>. HIDE DEF Inv
  <2>3. QueueLen' = QueueLen + 1
    BY <2>2, <1>4, <1>5 DEF QueueLen
  <2>. QED BY <2>1, <2>3, <1>1
<1>12. RoomKept'
  <2>5. QueueLen + Unsent <= QueueSize /\ QueueLen \in Nat /\ Unsent \in Nat
    BY CountersNat DEF RoomKept
  <2>6. /\ BytesUpTo(Len(sent)) \in Nat /\ BytesUpTo(settled) \in Nat
    BY WindowBytesNat
  <2>1. (QueueLen + Unsent <= QueueSize)'
    <3>. HIDE DEF Inv
    <3>. QED BY <1>11, <2>5, SizeAssumption
  <2>2. Bytes(mutex)' = Bytes(r)
    BY <1>1, <1>4 DEF BytesOf, Bytes, Spans
  <2>3. BytesUpTo(Len(sent)) - BytesUpTo(settled) + Bytes(r) - before <= MaxQueueBytes
    BY <1>1, <1>15 DEF RoomKept
  <2>4. (BytesUpTo(Len(sent)) - BytesUpTo(settled) + Bytes(mutex)
           - BytesOf(mutex, progress) <= MaxQueueBytes)'
    <3>. HIDE DEF Inv
    <3>. QED BY <1>2, <1>6, <1>15, <2>2, <2>3, <2>6, SizeAssumption
  <2>. QED BY <2>1, <2>4, <1>1, <1>4 DEF RoomKept
<1>13. InFlightExact'
  <2>1. Uncounted = before /\ Uncounted' = after
    BY <1>1, <1>4, <1>15 DEF Uncounted
  <2>2. inFlight' = inFlight
    BY DEF Send
  <2>3. inFlight = BytesUpTo(Len(sent)) - BytesUpTo(settled) - Uncounted
        /\ BytesUpTo(Len(sent)) \in Nat /\ BytesUpTo(settled) \in Nat
    BY WindowBytesNat DEF InFlightExact
  <2>. HIDE DEF Inv
  <2>. QED BY <2>1, <2>2, <2>3, <1>6, <1>15 DEF InFlightExact
<1>14. Accounting'
  <2>1. Unaccounted' = Unaccounted /\ written' = written /\ dropped' = dropped
        /\ offered' = offered /\ accepted' = accepted
    BY DEF Send, Unaccounted, BatchLen
  <2>3. /\ written + dropped + Unaccounted + QueueLen + Unsent = offered
        /\ accepted + progress = Len(sent)
    BY DEF Accounting
  <2>4. /\ written \in Nat /\ dropped \in Nat /\ offered \in Nat /\ QueueLen \in Nat
        /\ Unaccounted \in Nat /\ Unsent \in Nat /\ accepted \in Nat
        /\ progress \in Nat /\ Len(sent) \in Nat /\ Spans(r) \in Nat
    BY CountersNat, SpansPositive
  <2>. HIDE DEF Inv
  <2>8. (written + dropped + Unaccounted + QueueLen + Unsent = offered)'
    BY <2>1, <2>3, <2>4, <1>11
  <2>9. (accepted + progress = Len(sent))'
    BY <2>1, <2>3, <2>4, <1>4, <1>5, SMTT(30)
  <2>. QED BY <2>8, <2>9 DEF Accounting
<1>. QED BY <1>7, <1>8, <1>9, <1>10, <1>12, <1>13, <1>14

LEMMA ReceiveInv ==
  ASSUME Inv, Receive
  PROVE  Inv'
<1>. USE DEF Inv
<1>1. /\ run = "select" /\ QueueLen > 0 /\ taken' = taken + 1 /\ sent' = sent
      /\ settled' = settled /\ BatchLen < BatchSize /\ mode # "final" /\ mode' = mode
      /\ mutex' = mutex /\ pc' = pc /\ progress' = progress
  BY DEF Receive, RunShape
<1>2. /\ QueueLen \in Nat /\ BatchLen \in Nat /\ Unsent \in Nat
      /\ QueueLen' = QueueLen - 1 /\ BatchLen' = BatchLen + 1 /\ Unsent' = Unsent
  <2>1. Unsent' = Unsent
    BY <1>1 DEF Unsent, Spans
  <2>2. QueueLen' = Len(sent) - (taken + 1) /\ BatchLen' = (taken + 1) - settled
    BY <1>1 DEF QueueLen, BatchLen
  <2>3. QueueLen = Len(sent) - taken /\ BatchLen = taken - settled
    BY DEF QueueLen, BatchLen
  <2>4. QueueLen' = QueueLen - 1 /\ BatchLen' = BatchLen + 1
    <3>1. Len(sent) \in Nat /\ taken \in Nat /\ settled \in Nat
      BY WindowBytesNat
    <3>. HIDE DEF Inv
    <3>. QED BY <2>2, <2>3, <3>1
  <2>5. QueueLen \in Nat /\ BatchLen \in Nat /\ Unsent \in Nat
    BY CountersNat
  <2>. QED BY <2>1, <2>4, <2>5
<1>3. TypeOK'
  <2>1. taken' \in 0..Len(sent') /\ settled' \in 0..taken'
    BY <1>1, WindowBytesNat DEF QueueLen
  <2>. QED BY <2>1 DEF Receive, TypeOK
<1>4. LogShape' /\ MutexShape'
  BY DEF Receive, LogShape, MutexShape, Spans
<1>5. BytesUpTo(Len(sent))' = BytesUpTo(Len(sent)) /\ BytesUpTo(settled)' = BytesUpTo(settled)
  BY <1>1 DEF BytesUpTo
<1>6. RoomKept'
  <2>1. (QueueLen + Unsent <= QueueSize)'
    BY <1>2, SizeAssumption DEF RoomKept
  <2>. QED BY <2>1, <1>1, <1>5 DEF RoomKept, Bytes, BytesOf, Spans
<1>7. RunShape'
  <2>1. BatchLen' <= BatchSize /\ (run' = "select" => BatchLen' < BatchSize)
    BY <1>1, <1>2, SizeAssumption DEF Receive
  <2>2. run' \in {"append", "select"} /\ attempt' = attempt /\ closed' = closed
    BY DEF Receive
  <2>3. run' = "append" => attempt' < MaxAttempts
    BY <2>2, <1>1 DEF RunShape
  <2>. QED BY <1>1, <2>1, <2>2, <2>3 DEF RunShape
<1>8. InFlightExact'
  BY <1>1, <1>5 DEF Receive, InFlightExact, Uncounted, BytesOf
<1>9. Accounting'
  <2>1. Unaccounted = BatchLen /\ Unaccounted' = BatchLen'
    BY <1>1 DEF Receive, Unaccounted
  <2>2. written' = written /\ dropped' = dropped /\ offered' = offered
        /\ accepted' = accepted
    BY DEF Receive
  <2>3. /\ written + dropped + Unaccounted + QueueLen + Unsent = offered
        /\ accepted + progress = Len(sent)
    BY DEF Accounting
  <2>4. /\ written \in Nat /\ dropped \in Nat /\ offered \in Nat /\ QueueLen \in Nat
        /\ BatchLen \in Nat /\ Unsent \in Nat
    BY CountersNat
  <2>. HIDE DEF Inv
  <2>8. (written + dropped + Unaccounted + QueueLen + Unsent = offered)'
    BY <2>1, <2>2, <2>3, <2>4, <1>2
  <2>9. (accepted + progress = Len(sent))'
    BY <2>2, <2>3, <1>1
  <2>. QED BY <2>8, <2>9 DEF Accounting
<1>. QED BY <1>3, <1>4, <1>6, <1>7, <1>8, <1>9

\* The steps of run that move neither window: what is in the channel, the batch
\* and the counters stays, and only the stage of run changes.
LEMMA StageInv ==
  ASSUME Inv,
         UNCHANGED <<callVars, closeVars, taken, settled, inFlight, dropped, lost,
                     written, writeErrors, lastError>>,
         RunShape', db' \in [Key -> 0..Len(sent)], attempt' \in 0..MaxAttempts,
         run \notin {"release", "exited"}, run' # "release",
         run' \in {"select", "append", "stored", "lost", "release", "exited"},
         mode' \in {"serving", "draining", "final"}
  PROVE  Inv'
<1>. USE DEF Inv
<1>1. TypeOK'
  BY DEF TypeOK
<1>2. LogShape' /\ MutexShape' /\ RoomKept'
  BY DEF LogShape, MutexShape, RoomKept, QueueLen, Unsent, BytesUpTo, Bytes, BytesOf,
     Spans
<1>3. InFlightExact' /\ Accounting'
  BY DEF InFlightExact, Accounting, Unaccounted, Uncounted, BatchLen, QueueLen, Unsent,
     BytesUpTo, BytesOf, Spans
<1>. QED BY <1>1, <1>2, <1>3

LEMMA TickInv ==
  ASSUME Inv, Tick
  PROVE  Inv'
<1>1. RunShape'
  BY DEF Inv, Tick, RunShape, BatchLen, QueueLen
<1>. QED BY <1>1, StageInv DEF Inv, Tick, TypeOK

LEMMA SeeDoneInv ==
  ASSUME Inv, SeeDone
  PROVE  Inv'
<1>1. RunShape'
  BY DEF Inv, SeeDone, RunShape, BatchLen, QueueLen
<1>. QED BY <1>1, StageInv DEF Inv, SeeDone, TypeOK

LEMMA DrainEmptyInv ==
  ASSUME Inv, DrainEmpty
  PROVE  Inv'
<1>1. RunShape'
  BY DEF Inv, DrainEmpty, RunShape, BatchLen, QueueLen, NothingToFlush
<1>. QED BY <1>1, StageInv DEF Inv, DrainEmpty, TypeOK

LEMMA AppendFailInv ==
  ASSUME Inv, AppendFail
  PROVE  Inv'
<1>1. RunShape'
  BY SizeAssumption DEF Inv, AppendFail, RunShape, BatchLen, QueueLen, AnotherAttempt,
     TypeOK
<1>2. attempt' \in 0..MaxAttempts
  BY SizeAssumption DEF Inv, AppendFail, RunShape, TypeOK
<1>. QED BY <1>1, <1>2, StageInv DEF Inv, AppendFail, TypeOK

\* After a batch that holds versions of k, the store holds the last of them.
LEMMA LastInBatchIsLast ==
  ASSUME TypeOK, NEW k \in Key, InBatch(k) # {}
  PROVE  LastInBatch(k) \in InBatch(k) /\ \A q \in InBatch(k) : q <= LastInBatch(k)
<1>1. InBatch(k) \in SUBSET (0..taken) /\ taken \in Nat
  BY WindowBytesNat DEF InBatch
<1>2. \E p \in InBatch(k) : \A q \in InBatch(k) : q <= p
  BY <1>1, GreatestElement
<1>3. LastInBatch(k) = CHOOSE p \in InBatch(k) : \A q \in InBatch(k) : q <= p
  BY DEF LastInBatch
<1>. QED BY <1>2, <1>3

LEMMA AppendOkInv ==
  ASSUME Inv, AppendOk
  PROVE  Inv'
<1>1. RunShape'
  BY DEF Inv, AppendOk, RunShape, BatchLen, QueueLen
<1>2. ASSUME NEW k \in Key
      PROVE  LastInBatch(k) \in 0..Len(sent)
  <2>1. CASE InBatch(k) = {}
    BY <2>1 DEF LastInBatch, Inv, TypeOK
  <2>2. CASE InBatch(k) # {}
    BY <2>2, LastInBatchIsLast, WindowBytesNat DEF Inv, InBatch
  <2>. QED BY <2>1, <2>2
<1>3. db' \in [Key -> 0..Len(sent)]
  BY <1>2 DEF AppendOk
<1>. QED BY <1>1, <1>3, StageInv DEF Inv, AppendOk, TypeOK

\* Counting a batch, as written or as dropped, moves it between the terms of
\* Accounting.
LEMMA CountWrittenInv ==
  ASSUME Inv, CountWritten
  PROVE  Inv'
<1>. USE DEF Inv
<1>1. /\ run = "stored" /\ run' = "release" /\ written' = written + BatchLen
      /\ UNCHANGED <<callVars, closeVars, mode, attempt, taken, settled, inFlight,
                     dropped, lost, db>>
  BY DEF CountWritten
<1>2. TypeOK'
  <2>1. written' \in Nat
    BY <1>1, CountersNat
  <2>2. lastError' \in BOOLEAN
    BY Zenon DEF CountWritten
  <2>. QED BY <2>1, <2>2 DEF CountWritten, TypeOK
<1>3. LogShape' /\ MutexShape' /\ RoomKept' /\ RunShape'
  BY <1>1 DEF LogShape, MutexShape, RoomKept, RunShape, QueueLen, BatchLen, Unsent,
     BytesUpTo, Bytes, BytesOf, Spans
<1>4. InFlightExact'
  BY <1>1 DEF InFlightExact, Uncounted, BytesUpTo, BytesOf
<1>5. Accounting'
  <2>1. Unaccounted = BatchLen /\ Unaccounted' = 0
    BY <1>1 DEF Unaccounted
  <2>2. QueueLen' = QueueLen /\ Unsent' = Unsent
    BY <1>1 DEF QueueLen, Unsent, Spans
  <2>3. /\ written + dropped + Unaccounted + QueueLen + Unsent = offered
        /\ accepted + progress = Len(sent)
    BY DEF Accounting
  <2>4. /\ written \in Nat /\ dropped \in Nat /\ offered \in Nat /\ QueueLen \in Nat
        /\ BatchLen \in Nat /\ Unsent \in Nat
    BY CountersNat
  <2>. HIDE DEF Inv
  <2>8. (written + dropped + Unaccounted + QueueLen + Unsent = offered)'
    BY <2>1, <2>2, <2>3, <2>4, <1>1 DEF callVars
  <2>9. (accepted + progress = Len(sent))'
    BY <2>3, <1>1 DEF callVars
  <2>. QED BY <2>8, <2>9 DEF Accounting
<1>. QED BY <1>2, <1>3, <1>4, <1>5

LEMMA CountLostInv ==
  ASSUME Inv, CountLost
  PROVE  Inv'
<1>. USE DEF Inv
<1>1. /\ run = "lost" /\ run' = "release" /\ dropped' = dropped + BatchLen
      /\ lost' = lost \union (settled + 1)..taken
      /\ UNCHANGED <<callVars, closeVars, mode, attempt, taken, settled, inFlight,
                     written, db>>
  BY DEF CountLost
<1>2. TypeOK'
  <2>1. dropped' \in Nat /\ writeErrors' \in Nat /\ lastError' \in BOOLEAN
    BY CountersNat DEF CountLost, TypeOK
  <2>2. lost' \subseteq 1..Len(sent)
    BY <1>1, WindowBytesNat DEF TypeOK
  <2>. QED BY <2>1, <2>2 DEF CountLost, TypeOK
<1>3. LogShape' /\ MutexShape' /\ RoomKept' /\ RunShape'
  BY <1>1 DEF LogShape, MutexShape, RoomKept, RunShape, QueueLen, BatchLen, Unsent,
     BytesUpTo, Bytes, BytesOf, Spans
<1>4. InFlightExact'
  BY <1>1 DEF InFlightExact, Uncounted, BytesUpTo, BytesOf
<1>5. Accounting'
  <2>1. Unaccounted = BatchLen /\ Unaccounted' = 0
    BY <1>1 DEF Unaccounted
  <2>2. QueueLen' = QueueLen /\ Unsent' = Unsent
    BY <1>1 DEF QueueLen, Unsent, Spans
  <2>3. /\ written + dropped + Unaccounted + QueueLen + Unsent = offered
        /\ accepted + progress = Len(sent)
    BY DEF Accounting
  <2>4. /\ written \in Nat /\ dropped \in Nat /\ offered \in Nat /\ QueueLen \in Nat
        /\ BatchLen \in Nat /\ Unsent \in Nat
    BY CountersNat
  <2>. HIDE DEF Inv
  <2>8. (written + dropped + Unaccounted + QueueLen + Unsent = offered)'
    BY <2>1, <2>2, <2>3, <2>4, <1>1 DEF callVars
  <2>9. (accepted + progress = Len(sent))'
    BY <2>3, <1>1 DEF callVars
  <2>. QED BY <2>8, <2>9 DEF Accounting
<1>. QED BY <1>2, <1>3, <1>4, <1>5

\* Releasing the batch gives its bytes back and empties it.
LEMMA ReleaseInv ==
  ASSUME Inv, Release
  PROVE  Inv'
<1>. USE DEF Inv
<1>1. /\ run = "release" /\ settled' = taken /\ attempt' = 0
      /\ inFlight' = inFlight - BatchBytes /\ run' = AfterFlush
      /\ UNCHANGED <<callVars, closeVars, storeVars, mode, taken, dropped>>
  BY DEF Release
<1>2. /\ run' \in {"select", "exited"} /\ (run' = "exited" <=> mode = "final")
      /\ attempt' \in 0..MaxAttempts /\ attempt' < MaxAttempts
  BY <1>1, SizeAssumption DEF AfterFlush
<1>3. BatchLen' = 0 /\ QueueLen' = QueueLen /\ Unsent' = Unsent
  BY <1>1, WindowBytesNat DEF BatchLen, QueueLen, Unsent, Spans
<1>4. /\ BytesUpTo(Len(sent))' = BytesUpTo(Len(sent))
      /\ BytesUpTo(settled)' = BytesUpTo(taken) /\ BytesUpTo(settled) <= BytesUpTo(taken)
  BY <1>1, LogBytesGrow, WindowBytesNat DEF BytesUpTo
<1>5. TypeOK'
  <2>1. inFlight' \in Int /\ settled' \in 0..taken'
    BY <1>1, WindowBytesNat DEF TypeOK, BatchBytes
  <2>. QED BY <2>1, <1>1, <1>2 DEF TypeOK
<1>6. LogShape' /\ MutexShape'
  BY <1>1 DEF LogShape, MutexShape, Spans
<1>7. RoomKept'
  <2>1. CASE mutex = Free
    BY <2>1, <1>1, <1>3, <1>4, WindowBytesNat, SizeAssumption DEF RoomKept
  <2>2. CASE mutex # Free
    <3>1. mutex \in Request /\ progress \in 0..Spans(mutex) /\ Spans(mutex) \in 0..Spans(mutex)
      BY <2>2, SpansPositive DEF TypeOK, MutexShape
    <3>2. Bytes(mutex) \in Nat /\ BytesOf(mutex, progress) \in Nat
      BY <3>1, BodyBytesGrow, SpansPositive DEF Bytes
    <3>3. Bytes(mutex)' = Bytes(mutex) /\ BytesOf(mutex, progress)' = BytesOf(mutex, progress)
      BY <1>1 DEF Bytes, BytesOf, Spans
    <3>. QED BY <2>2, <3>2, <3>3, <1>1, <1>3, <1>4, WindowBytesNat, SizeAssumption DEF RoomKept
  <2>. QED BY <2>1, <2>2
<1>8. RunShape'
  BY <1>1, <1>2, <1>3, SizeAssumption DEF RunShape
<1>9. InFlightExact'
  <2>1. Uncounted' = Uncounted /\ Uncounted \in Nat
    <3>1. CASE mutex # Free
      <4>1. mutex \in Request /\ progress \in 0..Spans(mutex)
        BY <3>1, SpansPositive DEF TypeOK, MutexShape
      <4>2. BytesOf(mutex, progress) \in Nat
        BY <4>1, BodyBytesGrow
      <4>. QED BY <4>2, <1>1 DEF Uncounted, BytesOf
    <3>2. CASE mutex = Free
      BY <3>2, <1>1 DEF Uncounted
    <3>. QED BY <3>1, <3>2
  <2>. QED BY <2>1, <1>1, <1>4, WindowBytesNat DEF InFlightExact, BatchBytes
<1>10. Accounting'
  <2>1. Unaccounted = 0 /\ Unaccounted' = 0
    BY <1>1, <1>2, <1>3 DEF Unaccounted
  <2>. QED BY <2>1, <1>1, <1>3 DEF Accounting
<1>. QED BY <1>5, <1>6, <1>7, <1>8, <1>9, <1>10

LEMMA CloseInv ==
  ASSUME Inv, NEW c \in Closer, CloseStep(c)
  PROVE  Inv'
<1>. USE DEF Inv
<1>1. /\ UNCHANGED <<callVars, runVars, storeVars, inFlight, dropped>>
      /\ closed' \in BOOLEAN /\ (closed => closed') /\ (mutex # Free => closed' = closed)
      /\ closing' \in [Closer -> {"idle", "waiting", "nil", "ctxErr"}]
  BY DEF CloseStep, CloseBegin, CloseFinished, CloseExpired, TypeOK
<1>2. TypeOK'
  BY <1>1 DEF TypeOK
<1>3. LogShape' /\ MutexShape' /\ RoomKept' /\ RunShape'
  BY <1>1 DEF LogShape, MutexShape, RoomKept, RunShape, QueueLen, BatchLen, Unsent,
     BytesUpTo, Bytes, BytesOf, Spans
<1>4. InFlightExact' /\ Accounting'
  BY <1>1 DEF InFlightExact, Accounting, QueueLen, BatchLen, BytesUpTo, Unsent, Uncounted,
     Unaccounted, Spans, BytesOf
<1>. QED BY <1>2, <1>3, <1>4

\* One case per action of the writer.
LEMMA NextInv == Inv /\ [Next]_vars => Inv'
<1>. SUFFICES ASSUME Inv, [Next]_vars PROVE Inv'
  OBVIOUS
<1>1. ASSUME NEW r \in Request, EnqueueStep(r) PROVE Inv'
  <2>1. CASE EnqueueClosed(r)
    BY <2>1, RefuseInv DEF EnqueueClosed
  <2>2. CASE EnqueueFull(r)
    BY <2>2, RefuseInv DEF EnqueueFull
  <2>. QED BY <1>1, <2>1, <2>2, AdmitInv, SendInv, CountBytesInv, EnqueueReturnInv
           DEF EnqueueStep
<1>2. ASSUME RunStep PROVE Inv'
  BY <1>2, ReceiveInv, TickInv, SeeDoneInv, DrainEmptyInv, AppendOkInv, AppendFailInv,
     CountWrittenInv, CountLostInv, ReleaseInv DEF RunStep
<1>3. ASSUME NEW c \in Closer, CloseStep(c) PROVE Inv'
  BY <1>3, CloseInv
<1>4. CASE UNCHANGED vars
  BY <1>4, StutterInv
<1>. QED BY <1>1, <1>2, <1>3, <1>4 DEF Next

\* The invariant holds in every reachable state.
THEOREM WriterInvariant == Spec => []Inv
<1>1. Init => Inv
  BY InitInv
<1>2. Inv /\ [Next]_vars => Inv'
  BY NextInv
<1>. QED BY <1>1, <1>2, PTL DEF Spec

\* What the invariant says of a single state.
LEMMA InvImplies ==
  ASSUME Inv
  PROVE  TypeOK /\ InFlightExact /\ BudgetRespected /\ SendNeverBlocks /\ Accounting
         /\ DrainedOnExit
<1>. USE DEF Inv
<1>1. BudgetRespected
  <2>1. QueueLen <= QueueSize
    BY CountersNat, SizeAssumption DEF RoomKept
  <2>2. BytesUpTo(Len(sent)) - BytesUpTo(settled) <= MaxQueueBytes
    <3>1. CASE mutex # Free
      <4>1. /\ mutex \in Request /\ progress \in 0..Spans(mutex)
            /\ Spans(mutex) \in 0..Spans(mutex)
        BY <3>1, SpansPositive DEF TypeOK, MutexShape
      <4>2. /\ BytesOf(mutex, progress) \in Nat /\ Bytes(mutex) \in Nat
            /\ BytesOf(mutex, progress) <= Bytes(mutex)
        BY <4>1, BodyBytesGrow, SpansPositive DEF Bytes
      <4>. QED BY <4>2, <3>1, WindowBytesNat, SizeAssumption DEF RoomKept
    <3>2. CASE mutex = Free
      BY <3>2 DEF RoomKept
    <3>. QED BY <3>1, <3>2
  <2>. QED BY <2>1, <2>2 DEF BudgetRespected, RunShape
<1>2. SendNeverBlocks
  <2>. SUFFICES ASSUME NEW r \in Request, pc[r] = "sending", progress < Spans(r)
                PROVE  QueueLen < QueueSize
    BY DEF SendNeverBlocks, Sending
  <2>1. mutex = r /\ r # Free
    BY BodyAssumption DEF MutexShape
  <2>2. Unsent = Spans(r) - progress
    BY <2>1 DEF Unsent
  <2>. QED BY <2>2, CountersNat, SpansPositive, SizeAssumption DEF RoomKept, TypeOK
<1>3. DrainedOnExit
  <2>. SUFFICES ASSUME run = "exited"
                PROVE  settled = Len(sent) /\ \A r \in Request : pc[r] \notin {"sending", "counting"}
    BY DEF DrainedOnExit
  <2>1. closed /\ QueueLen = 0 /\ BatchLen = 0
    BY DEF RunShape
  <2>2. settled = Len(sent)
    BY <2>1, WindowBytesNat DEF QueueLen, BatchLen
  <2>3. mutex = Free
    BY <2>1 DEF MutexShape
  <2>. QED BY <2>2, <2>3, BodyAssumption DEF MutexShape
<1>. QED BY <1>1, <1>2, <1>3

\* Every variable keeps its type, and flush never exceeds its attempts.
THEOREM TypeCorrect == Spec => []TypeOK
BY WriterInvariant, InvImplies, PTL

\* The in-flight gauge is exact but for the bytes of the call in progress.
THEOREM GaugeExact == Spec => []InFlightExact
BY WriterInvariant, InvImplies, PTL

\* Channel and batch stay within the limits on spans and on bytes.
THEOREM BudgetHolds == Spec => []BudgetRespected
BY WriterInvariant, InvImplies, PTL

\* No send waits for room while enqueueMu is held.
THEOREM SendsProceed == Spec => []SendNeverBlocks
BY WriterInvariant, InvImplies, PTL

\* No span is counted twice or not at all.
THEOREM SpansAccounted == Spec => []Accounting
BY WriterInvariant, InvImplies, PTL

\* The writer leaves nothing behind when run returns.
THEOREM ExitDrained == Spec => []DrainedOnExit
BY WriterInvariant, InvImplies, PTL

-----------------------------------------------------------------------------
(* The store follows the log.                                               *)

\* The part of the log that the store has caught up with: a batch counts from
\* the commit of its transaction, or from the end of its last attempt.
CaughtUp == IF run \in {"stored", "release"} THEN taken ELSE settled

StoreShape ==
  /\ \A p \in 1..CaughtUp : p \in lost \/ db[KeyAt(p)] >= p
  /\ \A k \in Key : db[k] > 0 => KeyAt(db[k]) = k /\ db[k] \notin lost /\ db[k] <= CaughtUp
  /\ lost \subseteq 1..CaughtUp

LEMMA KeyAtInKey ==
  ASSUME Inv, NEW p \in 1..Len(sent)
  PROVE  KeyAt(p) \in Key
<1>1. sent[p] \in Entry /\ sent[p].at \in 1..Spans(sent[p].req)
  BY DEF Inv, TypeOK, LogShape
<1>2. Body[sent[p].req] \in Seq(Key) /\ sent[p].at \in 1..Len(Body[sent[p].req])
  BY <1>1, BodyAssumption DEF Entry, Spans
<1>. QED BY <1>2 DEF KeyAt

LEMMA CaughtUpRange ==
  ASSUME TypeOK
  PROVE  CaughtUp \in Nat /\ settled <= CaughtUp /\ CaughtUp <= taken /\ taken <= Len(sent)
  BY WindowBytesNat DEF CaughtUp

\* A step that keeps the caught-up part, the store and the lost spans, and only
\* appends to the log, keeps the relation between them.
LEMMA StoreFrame ==
  ASSUME Inv, StoreShape, CaughtUp' = CaughtUp, db' = db, lost' = lost,
         \A p \in 1..Len(sent) : sent'[p] = sent[p]
  PROVE  StoreShape'
<1>1. \A p \in 1..Len(sent) : KeyAt(p)' = KeyAt(p)
  BY DEF KeyAt
<1>2. CaughtUp \in Nat /\ CaughtUp <= Len(sent)
  BY CaughtUpRange, WindowBytesNat DEF Inv
<1>3. \A p \in 1..CaughtUp : (p \in lost \/ db[KeyAt(p)] >= p)'
  BY <1>1, <1>2, WindowBytesNat DEF Inv, StoreShape
<1>4. ASSUME NEW k \in Key, db[k] > 0
      PROVE  (KeyAt(db[k]) = k /\ db[k] \notin lost /\ db[k] <= CaughtUp)'
  <2>1. KeyAt(db[k]) = k /\ db[k] \notin lost /\ db[k] <= CaughtUp
    BY <1>4 DEF StoreShape
  <2>2. db[k] \in 1..Len(sent)
    BY <1>4 DEF Inv, TypeOK
  <2>3. KeyAt(db[k])' = KeyAt(db[k])
    BY <2>2, <1>1 DEF KeyAt
  <2>. QED BY <2>1, <2>3
<1>. QED BY <1>3, <1>4 DEF StoreShape

\* Committing a batch brings the store up to the end of it.
LEMMA AppendOkStore ==
  ASSUME Inv, StoreShape, AppendOk
  PROVE  StoreShape'
<1>1. /\ run = "append" /\ run' = "stored" /\ sent' = sent /\ lost' = lost
      /\ db' = [k \in Key |-> LastInBatch(k)]
      /\ CaughtUp = settled /\ CaughtUp' = taken
  BY DEF AppendOk, CaughtUp
<1>2. \A p : KeyAt(p)' = KeyAt(p)
  BY <1>1 DEF KeyAt
<1>3. ASSUME NEW k \in Key
      PROVE  /\ LastInBatch(k) \in Nat /\ db[k] \in Nat
             /\ InBatch(k) = {} => LastInBatch(k) = db[k]
             /\ InBatch(k) # {} =>
                  /\ LastInBatch(k) \in (settled + 1)..taken
                  /\ KeyAt(LastInBatch(k)) = k
                  /\ \A q \in InBatch(k) : q <= LastInBatch(k)
             /\ db[k] <= LastInBatch(k)
  <2>1. db[k] \in 0..Len(sent) /\ (db[k] > 0 => db[k] <= settled)
    BY <1>1 DEF Inv, TypeOK, StoreShape
  <2>2. InBatch(k) = {} => LastInBatch(k) = db[k]
    BY DEF LastInBatch
  <2>3. InBatch(k) # {} =>
          /\ LastInBatch(k) \in (settled + 1)..taken
          /\ KeyAt(LastInBatch(k)) = k
          /\ \A q \in InBatch(k) : q <= LastInBatch(k)
    BY LastInBatchIsLast DEF Inv, InBatch
  <2>. QED BY <2>1, <2>2, <2>3, WindowBytesNat DEF Inv
<1>4. ASSUME NEW p \in 1..taken
      PROVE  p \in lost \/ LastInBatch(KeyAt(p)) >= p
  <2>1. KeyAt(p) \in Key /\ p \in Nat
    BY KeyAtInKey, WindowBytesNat DEF Inv
  <2>2. CASE p <= settled
    <3>1. p \in lost \/ db[KeyAt(p)] >= p
      BY <2>2, <1>1, WindowBytesNat DEF Inv, StoreShape
    <3>. QED BY <3>1, <2>1, <1>3
  <2>3. CASE p > settled
    <3>1. p \in InBatch(KeyAt(p))
      BY <2>3, WindowBytesNat DEF Inv, InBatch
    <3>. QED BY <3>1, <2>1, <1>3
  <2>. QED BY <2>1, <2>2, <2>3, WindowBytesNat DEF Inv
<1>5. ASSUME NEW k \in Key, LastInBatch(k) > 0
      PROVE  KeyAt(LastInBatch(k)) = k /\ LastInBatch(k) \notin lost /\ LastInBatch(k) <= taken
  <2>1. CASE InBatch(k) = {}
    <3>1. KeyAt(db[k]) = k /\ db[k] \notin lost /\ db[k] <= settled
      BY <2>1, <1>1, <1>3, <1>5 DEF StoreShape
    <3>. QED BY <3>1, <2>1, <1>3, WindowBytesNat DEF Inv
  <2>2. CASE InBatch(k) # {}
    <3>1. lost \subseteq 1..settled
      BY <1>1 DEF StoreShape
    <3>. QED BY <3>1, <2>2, <1>3, WindowBytesNat DEF Inv
  <2>. QED BY <2>1, <2>2
<1>6. lost \subseteq 1..taken
  BY <1>1, WindowBytesNat DEF StoreShape, Inv
<1>7. \A p \in 1..taken : KeyAt(p) \in Key
  BY KeyAtInKey, WindowBytesNat DEF Inv
<1>. HIDE DEF StoreShape
<1>8. \A p \in 1..taken : (p \in lost \/ db[KeyAt(p)] >= p)'
  BY <1>1, <1>2, <1>4, <1>7
<1>9. \A k \in Key : (db[k] > 0 => KeyAt(db[k]) = k /\ db[k] \notin lost /\ db[k] <= taken)'
  <2>. SUFFICES ASSUME NEW k \in Key, db'[k] > 0
                PROVE  KeyAt(db[k])' = k /\ db'[k] \notin lost' /\ db'[k] <= taken'
    OBVIOUS
  <2>1. db'[k] = LastInBatch(k) /\ taken' = taken
    BY <1>1 DEF AppendOk
  <2>2. KeyAt(db[k])' = KeyAt(LastInBatch(k))
    BY <2>1, <1>1 DEF KeyAt
  <2>. QED BY <2>1, <2>2, <1>1, <1>5
<1>10. taken' = taken
  BY DEF AppendOk
<1>. QED BY <1>1, <1>6, <1>8, <1>9, <1>10 DEF StoreShape

\* A batch that is given up leaves the store as it was.
LEMMA CountLostStore ==
  ASSUME Inv, StoreShape, CountLost
  PROVE  StoreShape'
<1>1. /\ sent' = sent /\ db' = db /\ lost' = lost \union (settled + 1)..taken
      /\ CaughtUp = settled /\ CaughtUp' = taken
  BY DEF CountLost, CaughtUp
<1>2. \A p : KeyAt(p)' = KeyAt(p)
  BY <1>1 DEF KeyAt
<1>3. ASSUME NEW p \in 1..taken
      PROVE  (p \in lost \/ db[KeyAt(p)] >= p)'
  <2>1. CASE p <= settled
    BY <2>1, <1>1, <1>2, WindowBytesNat DEF Inv, StoreShape
  <2>2. CASE p > settled
    BY <2>2, <1>1, WindowBytesNat DEF Inv
  <2>. QED BY <2>1, <2>2, WindowBytesNat DEF Inv
<1>4. ASSUME NEW k \in Key, db[k] > 0
      PROVE  KeyAt(db[k])' = k /\ db[k] \notin lost' /\ db[k] <= taken
  <2>1. KeyAt(db[k]) = k /\ db[k] \notin lost /\ db[k] <= settled /\ db[k] \in Nat
    BY <1>1, <1>4 DEF StoreShape, Inv, TypeOK
  <2>. QED BY <2>1, <1>1, WindowBytesNat DEF Inv, KeyAt
<1>5. lost' \subseteq 1..taken
  <2>. SUFFICES ASSUME NEW p \in lost' PROVE p \in 1..taken
    OBVIOUS
  <2>1. p \in 1..settled \/ p \in (settled + 1)..taken
    BY <1>1 DEF StoreShape
  <2>. QED BY <2>1, WindowBytesNat DEF Inv
<1>6. taken' = taken
  BY DEF CountLost
<1>. QED BY <1>1, <1>3, <1>4, <1>5, <1>6 DEF StoreShape

LEMMA StoreInit == Init => StoreShape
  BY DEF Init, StoreShape, CaughtUp

LEMMA StoreNext == Inv /\ StoreShape /\ [Next]_vars => StoreShape'
<1>. SUFFICES ASSUME Inv, StoreShape, [Next]_vars PROVE StoreShape'
  OBVIOUS
<1>1. ASSUME NEW r \in Request, EnqueueStep(r) PROVE StoreShape'
  <2>1. CASE Send(r)
    <3>1. \A p \in 1..Len(sent) : sent'[p] = sent[p]
      BY <2>1 DEF Send, Inv, TypeOK
    <3>. QED BY <2>1, <3>1, StoreFrame DEF Send, CaughtUp
  <2>2. CASE ~Send(r)
    <3>1. CaughtUp' = CaughtUp /\ db' = db /\ lost' = lost /\ sent' = sent
      BY <1>1, <2>2 DEF EnqueueStep, EnqueueClosed, EnqueueFull, Refuse, EnqueueAdmit,
         CountBytes, EnqueueReturn, CaughtUp
    <3>. QED BY <3>1, StoreFrame
  <2>. QED BY <2>1, <2>2
<1>2. ASSUME RunStep PROVE StoreShape'
  <2>1. CASE AppendOk \/ CountLost
    BY <2>1, AppendOkStore, CountLostStore
  <2>2. CASE Receive \/ Tick \/ SeeDone \/ DrainEmpty \/ AppendFail
    <3>1. CaughtUp' = CaughtUp /\ db' = db /\ lost' = lost /\ sent' = sent
      BY <2>2 DEF Receive, Tick, SeeDone, DrainEmpty, AppendFail, CaughtUp
    <3>. QED BY <3>1, StoreFrame
  <2>3. CASE CountWritten \/ Release
    <3>1. CaughtUp' = CaughtUp /\ db' = db /\ lost' = lost /\ sent' = sent
      BY <2>3 DEF CountWritten, Release, AfterFlush, CaughtUp
    <3>. QED BY <3>1, StoreFrame
  <2>. QED BY <1>2, <2>1, <2>2, <2>3 DEF RunStep
<1>3. ASSUME NEW c \in Closer, CloseStep(c) PROVE StoreShape'
  <2>1. CaughtUp' = CaughtUp /\ db' = db /\ lost' = lost /\ sent' = sent
    BY <1>3 DEF CloseStep, CloseBegin, CloseFinished, CloseExpired, CaughtUp
  <2>. QED BY <2>1, StoreFrame
<1>4. CASE UNCHANGED vars
  <2>1. CaughtUp' = CaughtUp /\ db' = db /\ lost' = lost /\ sent' = sent
    BY <1>4 DEF vars, CaughtUp
  <2>. QED BY <2>1, StoreFrame
<1>. QED BY <1>1, <1>2, <1>3, <1>4 DEF Next

LEMMA StoreShapeImplies == Inv /\ StoreShape => StoreFollowsLog
<1>. SUFFICES ASSUME Inv, StoreShape PROVE StoreFollowsLog
  OBVIOUS
<1>1. CaughtUp \in Nat /\ settled \in Nat /\ settled <= CaughtUp /\ CaughtUp <= taken /\ taken \in Nat
  BY CaughtUpRange, WindowBytesNat DEF Inv
<1>2. \A p \in 1..settled : p \in lost \/ db[KeyAt(p)] >= p
  BY <1>1 DEF StoreShape
<1>3. \A k \in Key : db[k] \in Nat
  BY DEF Inv, TypeOK
<1>. QED BY <1>1, <1>2, <1>3 DEF StoreShape, StoreFollowsLog

\* For every identity the store holds the newest settled version that was not
\* given up, in the order in which the requests were admitted.
THEOREM StoreOrdered == Spec => []StoreFollowsLog
<1>1. Init => StoreShape
  BY StoreInit
<1>2. Inv /\ StoreShape /\ [Next]_vars => StoreShape'
  BY StoreNext
<1>. QED BY <1>1, <1>2, WriterInvariant, StoreShapeImplies, PTL DEF Spec

-----------------------------------------------------------------------------
(* The writer implements IngestPromise: whatever the goroutines do in      *)
(* whatever order, callers see whole requests join a log, and the store    *)
(* follow it batch by batch.                                               *)

\* A flush has something to flush.
BatchInHand == run \in {"append", "stored", "lost", "release"} => taken # settled

\* Requests with spans in the log are those that were admitted; of a request that has
\* sent any there are spans.
LogOwners ==
  /\ \A p \in 1..Len(sent) : pc[sent[p].req] \in {"sending", "counting", "ok"}
  /\ mutex # Free /\ progress # 0 => \E p \in 1..Len(sent) : sent[p].req = mutex

RefInv == Inv /\ BatchInHand /\ LogOwners

\* How many spans are settled, as the promise has it.
Done == IF run \in {"stored", "release"} THEN taken ELSE settled

-----------------------------------------------------------------------------
(* The invariant.                                                           *)

\* Nothing is in the log or in hand.
LEMMA RefInit == Init => RefInv
BY InitInv DEF Init, RefInv, BatchInHand, LogOwners

\* The types the steps below rely on.
LEMMA RefTypes ==
  ASSUME Inv
  PROVE  /\ pc \in [Request -> CallState] /\ sent \in Seq(Entry) /\ progress \in Nat
         /\ Len(sent) \in Nat /\ taken \in Nat /\ settled \in Nat
         /\ settled <= taken /\ taken <= Len(sent)
         /\ \A p \in 1..Len(sent) : sent[p] \in Entry /\ sent[p].req \in Request
         /\ mutex \in Request \union {Free} /\ closed \in BOOLEAN
<1>1. sent \in Seq(Entry) /\ Len(sent) \in Nat
  BY WindowBytesNat DEF Inv, TypeOK
<1>2. \A p \in 1..Len(sent) : sent[p] \in Entry /\ sent[p].req \in Request
  <2> TAKE p \in 1..Len(sent)
  <2>1. sent[p] \in Entry
    BY <1>1, ElementOfSeq
  <2> QED
    BY <2>1 DEF Entry
<1>3. TypeOK
  BY DEF Inv
<1>4. taken \in Nat /\ settled \in Nat /\ settled <= taken /\ taken <= Len(sent)
  BY <1>3, WindowBytesNat
<1>5. pc \in [Request -> CallState] /\ progress \in Nat /\ mutex \in Request \union {Free} /\ closed \in BOOLEAN
  BY <1>3 DEF TypeOK
<1> QED
  BY <1>1, <1>2, <1>4, <1>5

\* One call of Enqueue.
LEMMA EnqueueOwners ==
  ASSUME RefInv, NEW r \in Request, EnqueueStep(r) PROVE LogOwners'
<1>1. /\ pc \in [Request -> CallState] /\ sent \in Seq(Entry) /\ Len(sent) \in Nat
      /\ progress \in Nat /\ \A p \in 1..Len(sent) : sent[p].req \in Request
  BY RefTypes DEF RefInv
<1>2. LogOwners /\ MutexShape
  BY DEF RefInv, Inv
<1>3. ASSUME NEW answer \in {"ErrFull", "ErrClosed"}, Refuse(r, answer), pc[r] = "idle", mutex = Free
      PROVE  LogOwners'
  <2>1. pc' = [pc EXCEPT ![r] = answer] /\ sent' = sent /\ mutex' = mutex
    BY <1>3 DEF Refuse
  <2>2. \A p \in 1..Len(sent) : sent[p].req # r
    BY <1>2, <1>3 DEF LogOwners
  <2>3. \A p \in 1..Len(sent) : pc'[sent[p].req] = pc[sent[p].req]
    BY <1>1, <2>1, <2>2
  <2> QED
    BY <1>2, <1>3, <2>1, <2>3 DEF LogOwners
<1>4. CASE EnqueueAdmit(r)
  <2>1. pc' = [pc EXCEPT ![r] = "sending"] /\ sent' = sent /\ progress' = 0
    BY <1>4 DEF EnqueueAdmit
  <2>2. \A p \in 1..Len(sent) : pc'[sent[p].req] \in {pc[sent[p].req], "sending"}
    BY <1>1, <2>1
  <2> QED
    BY <1>2, <2>1, <2>2 DEF LogOwners
<1>5. CASE Send(r)
  <2>1. /\ pc' = pc /\ mutex' = mutex /\ mutex = r /\ pc[r] = "sending"
        /\ \E entry : sent' = Append(sent, entry) /\ entry \in Entry /\ entry.req = r
    <3>1. /\ pc' = pc /\ mutex' = mutex /\ pc[r] = "sending" /\ sent' \in Seq(Entry)
      BY <1>5, NextInv DEF Send, RefInv, Next, EnqueueStep, Inv, TypeOK
    <3>2. mutex = r
      BY <1>2, <3>1 DEF MutexShape
    <3> DEFINE entry == [req |-> r, at |-> progress + 1,
                         upto |-> BytesUpTo(Len(sent)) + (BytesOf(r, progress + 1) - BytesOf(r, progress))]
    <3>3. sent' = Append(sent, entry) /\ entry.req = r
      BY <1>5 DEF Send
    <3> HIDE DEF entry
    <3>4. sent'[Len(sent) + 1] = entry /\ Len(sent') = Len(sent) + 1
      BY <1>1, <3>3
    <3>5. entry \in Entry
      BY <1>1, <3>1, <3>4
    <3> QED
      BY <3>1, <3>2, <3>3, <3>5
  <2>2. PICK entry : sent' = Append(sent, entry) /\ entry \in Entry /\ entry.req = r
    BY <2>1
  <2>3. /\ Len(sent') = Len(sent) + 1 /\ sent'[Len(sent) + 1] = entry
        /\ \A p \in 1..Len(sent) : sent'[p] = sent[p]
    BY <1>1, <2>2
  <2>4. \A p \in 1..Len(sent') : pc'[sent'[p].req] \in {"sending", "counting", "ok"}
    <3> TAKE p \in 1..Len(sent')
    <3>1. CASE p = Len(sent) + 1
      BY <3>1, <2>1, <2>2, <2>3
    <3>2. CASE p # Len(sent) + 1
      <4>1. p \in 1..Len(sent)
        BY <3>2, <2>3, <1>1
      <4> QED
        BY <4>1, <1>2, <2>1, <2>3 DEF LogOwners
    <3> QED
      BY <3>1, <3>2
  <2>5. Len(sent) + 1 \in 1..Len(sent') /\ sent'[Len(sent) + 1].req = mutex'
    BY <1>1, <2>1, <2>2, <2>3
  <2> QED
    BY <2>4, <2>5 DEF LogOwners
<1>6. CASE CountBytes(r)
  <2>1. pc' = [pc EXCEPT ![r] = "counting"] /\ UNCHANGED <<sent, progress, mutex>>
    BY <1>6 DEF CountBytes
  <2>2. \A p \in 1..Len(sent) : pc'[sent[p].req] \in {pc[sent[p].req], "counting"}
    BY <1>1, <2>1
  <2> QED
    BY <1>2, <2>1, <2>2 DEF LogOwners
<1>7. CASE EnqueueReturn(r)
  <2>1. pc' = [pc EXCEPT ![r] = "ok"] /\ sent' = sent /\ mutex' = Free
    BY <1>7 DEF EnqueueReturn
  <2>2. \A p \in 1..Len(sent) : pc'[sent[p].req] \in {pc[sent[p].req], "ok"}
    BY <1>1, <2>1
  <2> QED
    BY <1>2, <2>1, <2>2 DEF LogOwners
<1> QED
  BY <1>3, <1>4, <1>5, <1>6, <1>7 DEF EnqueueStep, EnqueueClosed, EnqueueFull

\* Every step keeps the invariant.
LEMMA RefKeeps == RefInv /\ [Next]_vars => RefInv'
<1> SUFFICES ASSUME RefInv, [Next]_vars PROVE RefInv'
  OBVIOUS
<1>1. Inv'
  BY NextInv DEF RefInv
<1>2. /\ Len(sent) \in Nat /\ taken \in Nat /\ settled \in Nat /\ settled <= taken
  BY RefTypes DEF RefInv
<1>3. LogOwners'
  <2>1. CASE \E r \in Request : EnqueueStep(r)
    BY <2>1, EnqueueOwners
  <2>2. CASE RunStep
    BY <2>2 DEF RunStep, Receive, Tick, SeeDone, DrainEmpty, AppendOk, AppendFail,
                CountWritten, CountLost, Release, RefInv, LogOwners
  <2>3. CASE \E c \in Closer : CloseStep(c)
    BY <2>3 DEF CloseStep, CloseBegin, CloseFinished, CloseExpired, RefInv, LogOwners
  <2>4. CASE UNCHANGED vars
    BY <2>4 DEF vars, RefInv, LogOwners
  <2> QED
    BY <2>1, <2>2, <2>3, <2>4 DEF Next
<1>4. BatchInHand'
  <2>1. CASE UNCHANGED <<run, taken, settled>>
    BY <2>1 DEF RefInv, BatchInHand
  <2>2. CASE Receive
    <3>1. taken' = taken + 1 /\ settled' = settled
      BY <2>2 DEF Receive
    <3> QED
      BY <3>1, <1>2 DEF BatchInHand
  <2>3. CASE Tick
    BY <2>3, <1>2 DEF Tick, NothingToFlush, BatchLen, BatchInHand
  <2>4. CASE DrainEmpty
    BY <2>4, <1>2 DEF DrainEmpty, NothingToFlush, BatchLen, BatchInHand
  <2>5. CASE AppendOk \/ AppendFail \/ CountWritten \/ CountLost
    BY <2>5 DEF AppendOk, AppendFail, CountWritten, CountLost, RefInv, BatchInHand
  <2>6. CASE Release
    BY <2>6 DEF Release, AfterFlush, BatchInHand
  <2> QED
    BY <2>1, <2>2, <2>3, <2>4, <2>5, <2>6
       DEF Next, vars, EnqueueStep, EnqueueClosed, EnqueueFull, Refuse, EnqueueAdmit, Send, CountBytes,
           EnqueueReturn, RunStep, SeeDone, CloseStep, CloseBegin, CloseFinished, CloseExpired
<1> QED
  BY <1>1, <1>3, <1>4 DEF RefInv
-----------------------------------------------------------------------------
(* The promised log.                                                        *)

\* Spans that are admitted and not yet sent are those of the call with the mutex.
LEMMA UnsentType ==
  ASSUME RefInv
  PROVE  /\ Unsent \in Nat
         /\ mutex = Free => Unsent = 0
         /\ mutex # Free => /\ mutex \in Request /\ ~closed /\ pc[mutex] \in {"sending", "counting"}
                           /\ Unsent = Spans(mutex) - progress
<1>1. Unsent \in Nat
  BY CountersNat DEF RefInv, Inv
<1>2. mutex # Free => /\ mutex \in Request /\ ~closed /\ pc[mutex] \in {"sending", "counting"}
  BY RefTypes DEF RefInv, Inv, MutexShape
<1> QED
  BY <1>1, <1>2 DEF Unsent

\* The promised log is a sequence of that many entries: the sent ones, then the rest of a body.
LEMMA LogIs ==
  ASSUME RefInv
  PROVE  /\ Len(PromisedLog) = Len(sent) + Unsent
         /\ \A p \in 1..Len(sent) : PromisedLog[p] = <<sent[p].req, sent[p].at>>
         /\ \A p \in 1..(Len(sent) + Unsent) :
              p > Len(sent) => PromisedLog[p] = <<mutex, progress + p - Len(sent)>>
<1> DEFINE n == Len(sent) + Unsent
<1>1. n \in Nat /\ Len(sent) \in Nat /\ Unsent \in Nat
  BY UnsentType, RefTypes DEF RefInv
<1>2. DOMAIN PromisedLog = 1..n
  BY DEF PromisedLog
<1>3. PromisedLog \in Seq({PromisedLog[p] : p \in 1..n})
  <2>1. PromisedLog \in [1..n -> {PromisedLog[p] : p \in 1..n}]
    BY <1>2 DEF PromisedLog
  <2> QED
    BY <2>1, <1>1, SeqDef
<1>4. Len(PromisedLog) \in Nat /\ DOMAIN PromisedLog = 1..Len(PromisedLog)
  BY <1>3, LenProperties
<1> HIDE DEF n
<1>5. Len(PromisedLog) = n
  BY <1>1, <1>2, <1>4
<1>6. \A p \in 1..Len(sent) : p \in 1..n
  BY <1>1 DEF n
<1>7. \A p \in 1..Len(sent) : PromisedLog[p] = <<sent[p].req, sent[p].at>>
  BY <1>1, <1>6 DEF PromisedLog, n
<1>8. \A p \in 1..n : p > Len(sent) => PromisedLog[p] = <<mutex, progress + p - Len(sent)>>
  BY <1>1 DEF PromisedLog, n
<1> QED
  BY <1>5, <1>7, <1>8 DEF n

\* A request is admitted when the call holds the mutex or has spans in the log.
LEMMA AdmittedIs ==
  ASSUME RefInv, NEW r \in Request
  PROVE  /\ Promise!Admitted(r) => pc[r] \in {"sending", "counting", "ok"}
         /\ (\E p \in 1..Len(sent) : sent[p].req = r) => Promise!Admitted(r)
<1>1. /\ Len(sent) \in Nat /\ Unsent \in Nat /\ Len(PromisedLog) = Len(sent) + Unsent
      /\ \A p \in 1..Len(sent) : PromisedLog[p] = <<sent[p].req, sent[p].at>>
  BY LogIs, UnsentType, RefTypes DEF RefInv
<1>2. ASSUME Promise!Admitted(r) PROVE pc[r] \in {"sending", "counting", "ok"}
  <2>1. PICK p \in 1..Len(PromisedLog) : PromisedLog[p][1] = r
    BY <1>2 DEF Promise!Admitted
  <2>2. CASE p <= Len(sent)
    <3>1. p \in 1..Len(sent)
      BY <1>1, <2>1, <2>2
    <3> QED
      BY <1>1, <2>1, <3>1 DEF RefInv, LogOwners
  <2>3. CASE p > Len(sent)
    <3>1. PromisedLog[p] = <<mutex, progress + p - Len(sent)>>
      BY <1>1, <2>1, <2>3, LogIs
    <3>2. mutex = r /\ Unsent # 0
      BY <1>1, <2>1, <2>3, <3>1
    <3> QED
      BY <3>2, UnsentType
  <2> QED
    BY <1>1, <2>1, <2>2, <2>3
<1>3. ASSUME NEW p \in 1..Len(sent), sent[p].req = r PROVE Promise!Admitted(r)
  <2>1. p \in 1..Len(PromisedLog) /\ PromisedLog[p][1] = r
    BY <1>1, <1>3
  <2> QED
    BY <2>1 DEF Promise!Admitted
<1> QED
  BY <1>2, <1>3

\* Of a sent position the promise sees the same key.
LEMMA KeyIs ==
  ASSUME RefInv, NEW p \in 1..Len(sent) PROVE Promise!KeyOf(p) = KeyAt(p)
BY LogIs DEF Promise!KeyOf, KeyAt

\* The log stays when neither the sent spans nor the call in work move.
LEMMA LogStays ==
  ASSUME UNCHANGED <<sent, mutex, progress>> PROVE PromisedLog' = PromisedLog /\ Unsent' = Unsent
BY DEF PromisedLog, Unsent, Spans

-----------------------------------------------------------------------------
(* The steps.                                                               *)

\* The promise's steps that callers see need only what the answers become.
LEMMA AnswersIs ==
  ASSUME RefInv, NEW r \in Request, NEW s \in CallState, pc' = [pc EXCEPT ![r] = s],
         NEW a, a = (CASE s = "ok" -> "accepted" [] s = "ErrFull" -> "full"
                       [] s = "ErrClosed" -> "closed" [] OTHER -> "none")
  PROVE  PromisedAnswer' = [PromisedAnswer EXCEPT ![r] = a]
<1>1. pc \in [Request -> CallState]
  BY RefTypes DEF RefInv
<1> QED
  BY <1>1 DEF PromisedAnswer

\* What has no effect on the abstract variables is a stutter.
LEMMA Stutters ==
  ASSUME PromisedLog' = PromisedLog, Done' = Done, UNCHANGED <<lost, db, closed>>,
         PromisedAnswer' = PromisedAnswer, (run' = "exited") = (run = "exited")
  PROVE  UNCHANGED Promise!vars
BY DEF Promise!vars, Done

\* A refusal: nothing of the request is in the log.
LEMMA RefuseMaps ==
  ASSUME RefInv, NEW r \in Request, EnqueueClosed(r) \/ EnqueueFull(r)
  PROVE  Promise!Refuse(r)
<1>1. pc[r] = "idle" /\ UNCHANGED <<sent, mutex, progress, run, taken, settled, lost, db, closed>>
  BY DEF EnqueueClosed, EnqueueFull, Refuse
<1>2. PromisedLog' = PromisedLog
  BY <1>1, LogStays
<1>3. ~Promise!Admitted(r) /\ PromisedAnswer[r] = "none"
  BY <1>1, AdmittedIs DEF PromisedAnswer
<1>4. PromisedAnswer' = [PromisedAnswer EXCEPT ![r] = IF ~closed THEN "full" ELSE "closed"]
  <2>1. CASE EnqueueClosed(r)
    BY <2>1, AnswersIs DEF EnqueueClosed, Refuse, CallState
  <2>2. CASE EnqueueFull(r)
    BY <2>2, AnswersIs DEF EnqueueFull, Refuse, CallState
  <2> QED
    BY <2>1, <2>2
<1> QED
  BY <1>1, <1>2, <1>3, <1>4 DEF Promise!Refuse

\* The capacity test leaves room for the whole body in channel and batch.
LEMMA AdmitMaps ==
  ASSUME RefInv, NEW r \in Request, EnqueueAdmit(r)
  PROVE  Promise!Admit(r)
<1>1. /\ pc[r] = "idle" /\ mutex = Free /\ ~closed /\ HasRoom(r)
      /\ pc' = [pc EXCEPT ![r] = "sending"] /\ mutex' = r /\ progress' = 0
      /\ UNCHANGED <<sent, run, taken, settled, lost, db, closed>>
  BY DEF EnqueueAdmit
<1>2. /\ Len(sent) \in Nat /\ Spans(r) \in Nat /\ Spans(r) = Len(Body[r]) /\ r # Free
      /\ Unsent = 0 /\ Unsent' = Spans(r)
  BY <1>1, SpansPositive, UnsentType, BodyAssumption, RefTypes DEF Unsent, Spans, RefInv
<1>3. ~Promise!Admitted(r) /\ PromisedAnswer[r] = "none"
  BY <1>1, AdmittedIs DEF PromisedAnswer
<1>4. PromisedAnswer' = PromisedAnswer
  <2>1. PromisedAnswer' = [PromisedAnswer EXCEPT ![r] = "none"]
    BY <1>1, AnswersIs DEF CallState
  <2> QED
    BY <1>3, <2>1 DEF PromisedAnswer
<1>5. Len(PromisedLog) = Len(sent)
  BY <1>2, LogIs
<1>6. PromisedLog' = [p \in 1..(Len(PromisedLog) + Len(Body[r])) |->
                        IF p <= Len(PromisedLog) THEN PromisedLog[p] ELSE <<r, p - Len(PromisedLog)>>]
  <2>1. PromisedLog' = [p \in 1..(Len(sent) + Spans(r)) |->
                          IF p <= Len(sent) THEN <<sent[p].req, sent[p].at>> ELSE <<r, 0 + p - Len(sent)>>]
    BY <1>1, <1>2 DEF PromisedLog
  <2>2. \A p \in 1..(Len(sent) + Spans(r)) : 0 + p - Len(sent) = p - Len(sent)
    BY <1>2
  <2>3. \A p \in 1..(Len(sent) + Spans(r)) : p <= Len(sent) => PromisedLog[p] = <<sent[p].req, sent[p].at>>
    BY <1>2, LogIs
  <2> QED
    BY <1>2, <1>5, <2>1, <2>2, <2>3
<1>7. Len(PromisedLog) + Len(Body[r]) - Done <= QueueSize + BatchSize
  <2>1. Spans(r) <= QueueSize - (Len(sent) - taken) /\ taken - settled <= BatchSize
    BY <1>1 DEF HasRoom, QueueLen, RefInv, Inv, RunShape, BatchLen
  <2>2. /\ taken \in Nat /\ settled \in Nat /\ settled <= taken
        /\ QueueSize \in Nat /\ BatchSize \in Nat /\ Done \in {taken, settled}
    BY RefTypes, SizeAssumption DEF RefInv, Done
  <2> QED
    BY <1>2, <1>5, <2>1, <2>2
<1> QED
  BY <1>1, <1>3, <1>4, <1>6, <1>7 DEF Promise!Admit, Done

\* A send moves the first of the spans that are admitted and not sent to the sent ones.
LEMMA SendMaps ==
  ASSUME RefInv, NEW r \in Request, Send(r)
  PROVE  UNCHANGED Promise!vars
<1>1. /\ mutex = r /\ r # Free /\ progress < Spans(r) /\ progress \in Nat /\ Spans(r) \in Nat
      /\ Len(sent) \in Nat /\ sent \in Seq(Entry)
  <2>1. pc[r] = "sending" /\ progress < Spans(r)
    BY DEF Send
  <2>2. mutex = r
    BY <2>1 DEF RefInv, Inv, MutexShape
  <2> QED
    BY <2>1, <2>2, BodyAssumption, SpansPositive, RefTypes DEF RefInv
<1>2. /\ UNCHANGED <<pc, mutex, run, taken, settled, lost, db, closed>> /\ progress' = progress + 1
  BY DEF Send
<1>3. /\ Len(sent') = Len(sent) + 1
      /\ \A p \in 1..Len(sent) : sent'[p] = sent[p]
      /\ sent'[Len(sent) + 1].req = r /\ sent'[Len(sent) + 1].at = progress + 1
  <2> DEFINE entry == [req |-> r, at |-> progress + 1,
                       upto |-> BytesUpTo(Len(sent)) + (BytesOf(r, progress + 1) - BytesOf(r, progress))]
  <2>1. sent' = Append(sent, entry) /\ entry.req = r /\ entry.at = progress + 1
    BY DEF Send
  <2>2. sent' \in Seq(Entry)
    BY NextInv DEF RefInv, Next, EnqueueStep, Inv, TypeOK
  <2> HIDE DEF entry
  <2>3. /\ Len(sent') = Len(sent) + 1 /\ sent'[Len(sent) + 1] = entry
        /\ \A p \in 1..Len(sent) : sent'[p] = sent[p]
    BY <1>1, <2>1
  <2> QED
    BY <2>1, <2>3
<1>4. Unsent = Spans(r) - progress /\ Unsent' = Spans(r) - (progress + 1)
  BY <1>1, <1>2 DEF Unsent, Spans
<1>5. PromisedLog' = PromisedLog
  <2> DEFINE n == Len(sent) + (Spans(r) - progress)
  <2>1. Len(sent) + Unsent = n /\ Len(sent') + Unsent' = n
    BY <1>1, <1>3, <1>4
  <2>2. \A p \in 1..n :
          (IF p <= Len(sent') THEN <<sent'[p].req, sent'[p].at>> ELSE <<r, progress' + p - Len(sent')>>)
          = (IF p <= Len(sent) THEN <<sent[p].req, sent[p].at>> ELSE <<r, progress + p - Len(sent)>>)
    <3> TAKE p \in 1..n
    <3>1. p \in Nat /\ p >= 1
      BY <1>1
    <3>2. CASE p <= Len(sent)
      BY <1>1, <1>3, <3>1, <3>2
    <3>3. CASE p = Len(sent) + 1
      BY <1>1, <1>3, <3>3
    <3>4. CASE p > Len(sent) + 1
      <4>1. ~(p <= Len(sent')) /\ ~(p <= Len(sent))
        BY <1>1, <1>3, <3>1, <3>4
      <4>2. progress' + p - Len(sent') = progress + p - Len(sent)
        BY <1>1, <1>2, <1>3, <3>1
      <4> QED
        BY <4>1, <4>2
    <3> QED
      BY <1>1, <3>1, <3>2, <3>3, <3>4
  <2> HIDE DEF n
  <2>3. PromisedLog = [p \in 1..n |-> IF p <= Len(sent) THEN <<sent[p].req, sent[p].at>>
                                      ELSE <<r, progress + p - Len(sent)>>]
    BY <1>1, <2>1 DEF PromisedLog
  <2>4. PromisedLog' = [p \in 1..n |-> IF p <= Len(sent') THEN <<sent'[p].req, sent'[p].at>>
                                       ELSE <<r, progress' + p - Len(sent')>>]
    BY <1>1, <1>2, <2>1 DEF PromisedLog
  <2> QED
    BY <2>2, <2>3, <2>4
<1> QED
  BY <1>2, <1>5, Stutters DEF Done, PromisedAnswer

\* Counting the bytes is not seen, returning is the answer.
LEMMA ReturnMaps ==
  ASSUME RefInv, NEW r \in Request
  PROVE  /\ CountBytes(r) => UNCHANGED Promise!vars
         /\ EnqueueReturn(r) => Promise!Accept(r)
<1>1. ASSUME CountBytes(r) PROVE UNCHANGED Promise!vars
  <2>1. /\ pc[r] = "sending" /\ pc' = [pc EXCEPT ![r] = "counting"]
        /\ UNCHANGED <<sent, mutex, progress, run, taken, settled, lost, db, closed>>
    BY <1>1 DEF CountBytes
  <2>2. PromisedAnswer' = [PromisedAnswer EXCEPT ![r] = "none"] /\ PromisedAnswer[r] = "none"
    BY <2>1, AnswersIs DEF CallState, PromisedAnswer
  <2>3. PromisedAnswer' = PromisedAnswer
    BY <2>2 DEF PromisedAnswer
  <2> QED
    BY <2>1, <2>3, LogStays, Stutters DEF Done
<1>2. ASSUME EnqueueReturn(r) PROVE Promise!Accept(r)
  <2>1. /\ pc[r] = "counting" /\ pc' = [pc EXCEPT ![r] = "ok"] /\ mutex' = Free /\ progress' = 0
        /\ UNCHANGED <<sent, run, taken, settled, lost, db, closed>>
    BY <1>2 DEF EnqueueReturn
  <2>2. mutex = r /\ r # Free /\ progress = Spans(r) /\ Spans(r) \in Nat \ {0}
    BY <2>1, BodyAssumption, SpansPositive DEF RefInv, Inv, MutexShape
  <2>3. Unsent = 0 /\ Unsent' = 0
    BY <2>1, <2>2 DEF Unsent
  <2>4. PromisedLog' = PromisedLog
    <3>1. Len(sent) \in Nat
      BY RefTypes DEF RefInv
    <3>2. PromisedLog = [p \in 1..Len(sent) |-> <<sent[p].req, sent[p].at>>]
      BY <2>3, <3>1 DEF PromisedLog
    <3>3. PromisedLog' = [p \in 1..Len(sent) |-> <<sent[p].req, sent[p].at>>]
      BY <2>1, <2>3, <3>1 DEF PromisedLog
    <3> QED
      BY <3>2, <3>3
  <2>5. Promise!Admitted(r)
    BY <2>2, AdmittedIs DEF RefInv, LogOwners
  <2>6. PromisedAnswer' = [PromisedAnswer EXCEPT ![r] = "accepted"] /\ PromisedAnswer[r] = "none"
    BY <2>1, AnswersIs DEF CallState, PromisedAnswer
  <2> QED
    BY <2>1, <2>4, <2>5, <2>6 DEF Promise!Accept
<1> QED
  BY <1>1, <1>2

\* When run returns with nothing in channel and batch, the whole log is settled.
LEMMA StopMaps ==
  ASSUME RefInv, mode \in {"draining", "final"}, taken = Len(sent), Done = taken, Done' = Done,
         run' = "exited", PromisedLog' = PromisedLog, PromisedAnswer' = PromisedAnswer,
         UNCHANGED <<lost, db, closed>>
  PROVE  Promise!Stop
<1>1. closed /\ Unsent = 0
  BY UnsentType DEF RefInv, Inv, RunShape
<1>2. Len(PromisedLog) = Len(sent)
  BY <1>1, LogIs, RefTypes DEF RefInv
<1> QED
  BY <1>1, <1>2 DEF Promise!Stop, Done

\* What is written and given up is the batch.
LEMMA FlushMaps ==
  ASSUME RefInv
  PROVE  /\ AppendOk => \E n \in 1..BatchSize : Promise!Store(n)
         /\ CountLost => \E n \in 1..BatchSize : Promise!Lose(n)
<1>1. /\ Len(sent) \in Nat /\ taken \in Nat /\ settled \in Nat /\ settled <= taken /\ taken <= Len(sent)
      /\ Unsent \in Nat /\ Len(PromisedLog) = Len(sent) + Unsent /\ BatchSize \in Nat
      /\ BatchLen = taken - settled /\ BatchLen <= BatchSize
  BY RefTypes, UnsentType, LogIs, SizeAssumption DEF RefInv, Inv, RunShape, BatchLen
<1>2. ASSUME run \in {"append", "lost"}
      PROVE  /\ BatchLen \in 1..BatchSize /\ settled + BatchLen = taken
             /\ settled + BatchLen <= Len(PromisedLog)
  <2>1. taken # settled
    BY <1>2 DEF RefInv, BatchInHand
  <2> QED
    BY <1>1, <2>1
<1>3. ASSUME AppendOk PROVE Promise!Store(BatchLen)
  <2>1. /\ run = "append" /\ run' = "stored" /\ db' = [k \in Key |-> LastInBatch(k)]
        /\ UNCHANGED <<pc, sent, mutex, progress, taken, settled, lost, closed>>
    BY <1>3 DEF AppendOk
  <2>2. PromisedLog' = PromisedLog /\ PromisedAnswer' = PromisedAnswer
    BY <2>1, LogStays DEF PromisedAnswer
  <2>3. \A k \in Key : {p \in (settled + 1)..(settled + BatchLen) : Promise!KeyOf(p) = k} = InBatch(k)
    <3>1. \A p \in (settled + 1)..taken : p \in 1..Len(sent)
      BY <1>1
    <3>2. \A p \in (settled + 1)..taken : Promise!KeyOf(p) = KeyAt(p)
      BY <3>1, KeyIs
    <3>3. settled + BatchLen = taken
      BY <1>2, <2>1
    <3> QED
      BY <3>2, <3>3 DEF InBatch
  <2>4. db' = [k \in Key |->
                 LET P == {p \in (settled + 1)..(settled + BatchLen) : Promise!KeyOf(p) = k}
                 IN  IF P = {} THEN db[k] ELSE CHOOSE p \in P : \A q \in P : q <= p]
    <3> DEFINE P(k) == {p \in (settled + 1)..(settled + BatchLen) : Promise!KeyOf(p) = k}
               Latest(S, d) == IF S = {} THEN d ELSE CHOOSE p \in S : \A q \in S : q <= p
    <3>1. \A k \in Key : LastInBatch(k) = Latest(InBatch(k), db[k])
      BY DEF LastInBatch
    <3>2. \A k \in Key : P(k) = InBatch(k)
      BY <2>3
    <3> HIDE DEF P, Latest
    <3>3. \A k \in Key : LastInBatch(k) = Latest(P(k), db[k])
      BY <3>1, <3>2
    <3>4. db' = [k \in Key |-> Latest(P(k), db[k])]
      BY <2>1, <3>3
    <3> QED
      BY <3>4 DEF P, Latest
  <2> QED
    BY <1>2, <2>1, <2>2, <2>4 DEF Promise!Store, Promise!Settles
<1>4. ASSUME CountLost PROVE Promise!Lose(BatchLen)
  <2>1. /\ run = "lost" /\ run' = "release" /\ lost' = lost \union (settled + 1)..taken
        /\ UNCHANGED <<pc, sent, mutex, progress, taken, settled, db, closed>>
    BY <1>4 DEF CountLost
  <2>2. PromisedLog' = PromisedLog /\ PromisedAnswer' = PromisedAnswer
    BY <2>1, LogStays DEF PromisedAnswer
  <2> QED
    BY <1>2, <2>1, <2>2 DEF Promise!Lose, Promise!Settles
<1>5. AppendOk \/ CountLost => BatchLen \in 1..BatchSize
  BY <1>2 DEF AppendOk, CountLost
<1> QED
  BY <1>3, <1>4, <1>5

\* The steps of run.
LEMMA RunMaps == ASSUME RefInv, RunStep PROVE [Promise!Next]_(Promise!vars)
<1>1. /\ Len(sent) \in Nat /\ taken \in Nat /\ settled \in Nat /\ settled <= taken /\ taken <= Len(sent)
  BY RefTypes DEF RefInv
<1>2. /\ UNCHANGED <<pc, sent, mutex, progress, closed>>
      /\ PromisedLog' = PromisedLog /\ PromisedAnswer' = PromisedAnswer
  <2>1. UNCHANGED <<pc, sent, mutex, progress, closed>>
    BY DEF RunStep, Receive, Tick, SeeDone, DrainEmpty, AppendOk, AppendFail, CountWritten, CountLost, Release
  <2> QED
    BY <2>1, LogStays DEF PromisedAnswer
<1>3. CASE Receive \/ Tick \/ SeeDone \/ AppendFail
  <2>1. /\ UNCHANGED <<settled, lost, db>> /\ run \in {"select", "append"}
        /\ run' \in {"select", "append", "lost"}
    BY <1>3 DEF Receive, Tick, SeeDone, AppendFail
  <2> QED
    BY <1>2, <2>1, Stutters DEF Done
<1>4. CASE CountWritten
  <2>1. UNCHANGED <<taken, settled, lost, db>> /\ run = "stored" /\ run' = "release"
    BY <1>4 DEF CountWritten
  <2> QED
    BY <1>2, <2>1, Stutters DEF Done
<1>5. CASE DrainEmpty
  <2>1. /\ UNCHANGED <<taken, settled, lost, db>> /\ run = "select" /\ mode = "draining"
        /\ taken = Len(sent) /\ run' = IF taken = settled THEN "exited" ELSE "append"
    BY <1>1, <1>5 DEF DrainEmpty, QueueLen, NothingToFlush, BatchLen
  <2>2. CASE taken = settled
    <3>1. Promise!Stop
      BY <1>2, <2>1, <2>2, StopMaps DEF Done
    <3> QED
      BY <3>1 DEF Promise!Next
  <2>3. CASE taken # settled
    BY <1>2, <2>1, <2>3, Stutters DEF Done
  <2> QED
    BY <2>2, <2>3
<1>6. CASE AppendOk \/ CountLost
  BY <1>6, FlushMaps DEF Promise!Next
<1>7. CASE Release
  <2>1. /\ run = "release" /\ settled' = taken /\ UNCHANGED <<taken, lost, db>>
        /\ run' = IF mode = "final" THEN "exited" ELSE "select"
    BY <1>7 DEF Release, AfterFlush
  <2>2. CASE mode = "final"
    <3>1. taken = Len(sent)
      BY <1>1, <2>2 DEF RefInv, Inv, RunShape, QueueLen
    <3>2. Promise!Stop
      BY <1>2, <2>1, <2>2, <3>1, StopMaps DEF Done
    <3> QED
      BY <3>2 DEF Promise!Next
  <2>3. CASE mode # "final"
    BY <1>2, <2>1, <2>3, Stutters DEF Done
  <2> QED
    BY <2>2, <2>3
<1> QED
  BY <1>3, <1>4, <1>5, <1>6, <1>7 DEF RunStep

\* Close: the mutex keeps it out of the time between admission and answer.
LEMMA CloseMaps ==
  ASSUME RefInv, NEW c \in Closer, CloseStep(c) PROVE [Promise!Next]_(Promise!vars)
<1>1. UNCHANGED <<pc, sent, mutex, progress, run, taken, settled, lost, db>>
  BY DEF CloseStep, CloseBegin, CloseFinished, CloseExpired
<1>2. PromisedLog' = PromisedLog /\ PromisedAnswer' = PromisedAnswer
  BY <1>1, LogStays DEF PromisedAnswer
<1>3. CASE CloseBegin(c)
  <2>1. mutex = Free /\ closed' = TRUE
    BY <1>3 DEF CloseBegin
  <2>2. ASSUME NEW r \in Request, Promise!Admitted(r) PROVE PromisedAnswer[r] = "accepted"
    <3>1. pc[r] \in {"sending", "counting", "ok"} /\ mutex # r
      BY <2>1, <2>2, AdmittedIs, BodyAssumption
    <3>2. pc[r] = "ok"
      BY <3>1 DEF RefInv, Inv, MutexShape
    <3> QED
      BY <3>2 DEF PromisedAnswer
  <2>3. Promise!Shut
    BY <1>1, <1>2, <2>1, <2>2 DEF Promise!Shut
  <2> QED
    BY <2>3 DEF Promise!Next
<1>4. CASE CloseFinished(c) \/ CloseExpired(c)
  <2>1. closed' = closed
    BY <1>4 DEF CloseFinished, CloseExpired
  <2> QED
    BY <1>1, <1>2, <2>1, Stutters DEF Done
<1> QED
  BY <1>3, <1>4 DEF CloseStep

\* Every step of the writer is a step of the promise or a stutter.
LEMMA StepMaps == RefInv /\ [Next]_vars => [Promise!Next]_(Promise!vars)
<1> SUFFICES ASSUME RefInv, [Next]_vars PROVE [Promise!Next]_(Promise!vars)
  OBVIOUS
<1>1. CASE \E r \in Request : EnqueueStep(r)
  <2>1. PICK r \in Request : EnqueueStep(r)
    BY <1>1
  <2>2. CASE EnqueueClosed(r) \/ EnqueueFull(r)
    BY <2>2, RefuseMaps DEF Promise!Next
  <2>3. CASE EnqueueAdmit(r)
    BY <2>3, AdmitMaps DEF Promise!Next
  <2>4. CASE Send(r) \/ CountBytes(r)
    BY <2>4, SendMaps, ReturnMaps
  <2>5. CASE EnqueueReturn(r)
    BY <2>5, ReturnMaps DEF Promise!Next
  <2> QED
    BY <2>1, <2>2, <2>3, <2>4, <2>5 DEF EnqueueStep
<1>2. CASE RunStep
  BY <1>2, RunMaps
<1>3. CASE \E c \in Closer : CloseStep(c)
  BY <1>3, CloseMaps
<1>4. CASE UNCHANGED vars
  <2>1. UNCHANGED <<pc, sent, mutex, progress, run, taken, settled, lost, db, closed>>
    BY <1>4 DEF vars
  <2> QED
    BY <2>1, LogStays, Stutters DEF Done, PromisedAnswer
<1> QED
  BY <1>1, <1>2, <1>3, <1>4 DEF Next

\* The writer starts with an empty log that is open.
LEMMA InitMaps == Init => Promise!Init
<1> SUFFICES ASSUME Init PROVE Promise!Init
  OBVIOUS
<1>1. /\ pc = [r \in Request |-> "idle"] /\ mutex = Free /\ sent = <<>> /\ settled = 0 /\ ~closed
      /\ run = "select" /\ lost = {} /\ db = [k \in Key |-> 0]
  BY DEF Init
<1>2. PromisedLog = <<>>
  <2>1. Len(PromisedLog) = 0 /\ PromisedLog = [p \in 1..0 |-> <<>>]
    BY <1>1, RefInit, LogIs, UnsentType DEF PromisedLog
  <2> QED
    BY <2>1
<1>3. PromisedAnswer = [r \in Request |-> "none"]
  BY <1>1 DEF PromisedAnswer
<1> QED
  BY <1>1, <1>2, <1>3 DEF Promise!Init

\* Whatever the calls, the bodies, the limits and the failures of the store, the writer keeps
\* its promise: requests are taken whole, stored in order, never after a refusal, and none is
\* forgotten.
THEOREM WriterKeepsPromise == Spec => ImplementsPromise
<1>1. Init => RefInv
  BY RefInit
<1>2. RefInv /\ [Next]_vars => RefInv'
  BY RefKeeps
<1>3. RefInv /\ [Next]_vars => [Promise!Next]_(Promise!vars)
  BY StepMaps
<1> QED
  BY <1>1, <1>2, <1>3, InitMaps, PTL DEF Spec, ImplementsPromise, Promise!Spec

-----------------------------------------------------------------------------
(* The life of the process.                                                 *)

LifeTypes ==
  /\ main \in {"serving", "shutdown", "closing", "cancelled", "exited"}
  /\ deadline \in {"none", "running", "expired"}
  /\ conn \in [Request -> {"none", "open", "4xx", "202", "429", "503", "cut"}]

\* The deadline begins with the signal: none while main serves, one on the way down.
Began ==
  /\ main = "serving" => deadline = "none"
  /\ main \in {"shutdown", "closing", "cancelled"} => deadline # "none"

\* Close is called when no handler is active, or late; until then the writer is open.
Waited ==
  /\ main \in {"serving", "shutdown"} => ~closed /\ \A c \in Closer : closing[c] = "idle"
  /\ main \in {"closing", "cancelled"} => HandlersDone \/ deadline = "expired"
  /\ main = "exited" /\ deadline = "running" => \A r \in Request : conn[r] # "cut"
  /\ main # "exited" => \A r \in Request : conn[r] # "cut"

\* Close says nil when run has returned, and its context's error only late.
Returns ==
  /\ \A c \in Closer : closing[c] = "nil" => run = "exited"
  /\ \A c \in Closer : closing[c] = "ctxErr" => deadline = "expired"
  /\ main = "cancelled" => CloseReturned
  /\ main = "exited" /\ deadline = "running" => run = "exited"

\* Whoever was refused by a closed writer called it late.
Refused == \A r \in Request : pc[r] = "ErrClosed" /\ conn[r] \in {"open", "503"} => deadline = "expired"

\* A 503 stands for ErrClosed, and a request that has not come has not called.
Told ==
  /\ \A r \in Request : conn[r] = "503" => pc[r] = "ErrClosed"
  /\ \A r \in Request : conn[r] = "none" => pc[r] = "idle"

LifeInv == Inv /\ LifeTypes /\ Began /\ Waited /\ Returns /\ Refused /\ Told

-----------------------------------------------------------------------------
(* The steps of the writer, as main and the handlers see them.              *)

\* A call of Enqueue changes its own state only, to ErrClosed only when the writer is closed.
LEMMA EnqueueEffect ==
  ASSUME Inv, NEW r \in Request, EnqueueStep(r)
  PROVE  /\ UNCHANGED <<closed, closing, run>>
         /\ pc[r] # "ErrClosed"
         /\ \A q \in Request : pc'[q] # pc[q] => q = r
         /\ pc'[r] = "ErrClosed" => closed
<1>1. pc \in [Request -> CallState]
  BY DEF Inv, TypeOK
<1>2. CASE EnqueueClosed(r) \/ EnqueueFull(r)
  BY <1>1, <1>2 DEF EnqueueClosed, EnqueueFull, Refuse
<1>3. CASE EnqueueAdmit(r)
  BY <1>1, <1>3 DEF EnqueueAdmit
<1>4. CASE Send(r)
  BY <1>1, <1>4 DEF Send
<1>5. CASE CountBytes(r)
  BY <1>1, <1>5 DEF CountBytes
<1>6. CASE EnqueueReturn(r)
  BY <1>1, <1>6 DEF EnqueueReturn
<1> QED
  BY <1>2, <1>3, <1>4, <1>5, <1>6 DEF EnqueueStep

\* The run goroutine changes nothing of the calls, and does nothing once it has returned.
LEMMA RunEffect ==
  ASSUME RunStep
  PROVE  UNCHANGED <<closed, closing, pc>> /\ run # "exited"
BY DEF RunStep, Receive, Tick, SeeDone, DrainEmpty, AppendOk, AppendFail, CountWritten, CountLost, Release

-----------------------------------------------------------------------------
(* The actions.                                                             *)

LEMMA InitLife == LifeInit => LifeInv
<1> SUFFICES ASSUME LifeInit PROVE LifeInv
  OBVIOUS
<1>1. Inv
  BY InitInv DEF LifeInit
<1>2. LifeTypes /\ Began
  BY DEF LifeInit, LifeTypes, Began
<1>3. Waited /\ Returns
  BY DEF LifeInit, Init, Waited, Returns
<1>4. Refused /\ Told
  BY DEF LifeInit, Init, Refused, Told
<1> QED
  BY <1>1, <1>2, <1>3, <1>4 DEF LifeInv

\* A request comes, or is answered.
LEMMA HandlerLife ==
  ASSUME LifeInv, NEW r \in Request, Arrive(r) \/ AnswerBadRequest(r) \/ Answer(r)
  PROVE  LifeInv'
<1>1. UNCHANGED <<vars, main, deadline>>
  BY DEF Arrive, AnswerBadRequest, Answer
<1>2. PICK s \in {"open", "4xx", "202", "429", "503"} :
        /\ conn' = [conn EXCEPT ![r] = s]
        /\ s = "open" => main = "serving" /\ conn[r] = "none"
        /\ s # "open" => conn[r] = "open" /\ (s = "503" => pc[r] = "ErrClosed")
  <2>1. CASE Arrive(r)
    BY <2>1 DEF Arrive
  <2>2. CASE AnswerBadRequest(r)
    BY <2>2 DEF AnswerBadRequest
  <2>3. CASE Answer(r)
    BY <2>3 DEF Answer
  <2> QED
    BY <2>1, <2>2, <2>3
<1>3. conn \in [Request -> {"none", "open", "4xx", "202", "429", "503", "cut"}]
  BY DEF LifeInv, LifeTypes
<1>4. \A q \in Request : conn'[q] = IF q = r THEN s ELSE conn[q]
  BY <1>2, <1>3
<1>5. UNCHANGED <<closed, closing, run, pc>>
  BY <1>1 DEF vars, callVars, runVars, closeVars
<1>6. Inv'
  BY <1>1, StutterInv DEF LifeInv
<1>7. LifeTypes' /\ Began'
  BY <1>1, <1>2, <1>3 DEF LifeInv, LifeTypes, Began
<1>8. Waited'
  <2>1. main \in {"closing", "cancelled"} => HandlersDone' \/ deadline = "expired"
    BY <1>2, <1>4 DEF LifeInv, Waited, HandlersDone
  <2> QED
    BY <1>1, <1>2, <1>4, <1>5, <2>1 DEF LifeInv, Waited
<1>9. Returns'
  BY <1>1, <1>5 DEF LifeInv, Returns, CloseReturned
<1>10. Refused'
  <2> SUFFICES ASSUME NEW q \in Request, pc[q] = "ErrClosed", conn'[q] \in {"open", "503"}
               PROVE deadline = "expired"
    BY <1>1, <1>5 DEF Refused
  <2>1. CASE q = r /\ s = "open"
    <3>1. conn[r] = "none" /\ main = "serving"
      BY <1>2, <2>1
    <3> QED
      BY <1>4, <2>1, <3>1 DEF LifeInv, Told
  <2>2. CASE q # r \/ s # "open"
    BY <1>2, <1>4, <2>2 DEF LifeInv, Refused
  <2> QED
    BY <2>1, <2>2
<1>11. Told'
  BY <1>2, <1>4, <1>5 DEF LifeInv, Told
<1> QED
  BY <1>6, <1>7, <1>8, <1>9, <1>10, <1>11 DEF LifeInv

\* A step of a call of Enqueue.
LEMMA CallLife ==
  ASSUME LifeInv, NEW r \in Request, CallEnqueue(r)
  PROVE  LifeInv'
<1>1. Inv /\ EnqueueStep(r) /\ UNCHANGED lifeVars /\ main # "exited" /\ conn[r] = "open"
  BY DEF LifeInv, CallEnqueue, Alive
<1>2. Inv'
  BY <1>1, NextInv DEF Next
<1>3. /\ UNCHANGED <<closed, closing, run>> /\ pc[r] # "ErrClosed"
      /\ \A q \in Request : pc'[q] # pc[q] => q = r
      /\ pc'[r] = "ErrClosed" => closed
  BY <1>1, EnqueueEffect
<1>4. UNCHANGED <<main, deadline, conn>>
  BY <1>1 DEF lifeVars
<1>5. LifeTypes' /\ Began' /\ Waited' /\ Returns'
  BY <1>3, <1>4 DEF LifeInv, LifeTypes, Began, Waited, Returns, HandlersDone, CloseReturned
<1>6. closed => deadline = "expired"
  BY <1>1 DEF LifeInv, LifeTypes, Waited, HandlersDone
<1>7. Refused'
  BY <1>3, <1>4, <1>6 DEF LifeInv, Refused
<1>8. Told'
  BY <1>1, <1>3, <1>4 DEF LifeInv, Told
<1> QED
  BY <1>2, <1>5, <1>7, <1>8 DEF LifeInv

\* A step of run.
LEMMA RunLife ==
  ASSUME LifeInv, WriterRuns
  PROVE  LifeInv'
<1>1. Inv /\ RunStep /\ UNCHANGED lifeVars /\ main # "exited"
  BY DEF LifeInv, WriterRuns, Alive
<1>2. Inv'
  BY <1>1, NextInv DEF Next
<1>3. UNCHANGED <<closed, closing, pc>> /\ run # "exited"
  BY <1>1, RunEffect
<1>4. UNCHANGED <<main, deadline, conn>>
  BY <1>1 DEF lifeVars
<1>5. LifeTypes' /\ Began' /\ Waited' /\ Refused' /\ Told'
  BY <1>3, <1>4 DEF LifeInv, LifeTypes, Began, Waited, HandlersDone, Refused, Told
<1>6. Returns'
  BY <1>1, <1>3, <1>4 DEF LifeInv, Returns, CloseReturned
<1> QED
  BY <1>2, <1>5, <1>6 DEF LifeInv

\* A step of Close.
LEMMA CloseLife ==
  ASSUME LifeInv, NEW c \in Closer, CloseRuns(c)
  PROVE  LifeInv'
<1>1. Inv /\ CloseStep(c) /\ UNCHANGED lifeVars /\ main = "closing"
  BY DEF LifeInv, CloseRuns, CloseStep
<1>2. Inv'
  BY <1>1, NextInv DEF Next
<1>3. UNCHANGED <<pc, run>> /\ closing \in [Closer -> {"idle", "waiting", "nil", "ctxErr"}]
  BY <1>1 DEF CloseStep, CloseBegin, CloseFinished, CloseExpired, LifeInv, Inv, TypeOK
<1>4. UNCHANGED <<main, deadline, conn>>
  BY <1>1 DEF lifeVars
<1>5. LifeTypes' /\ Began' /\ Waited' /\ Refused' /\ Told'
  BY <1>1, <1>3, <1>4 DEF LifeInv, LifeTypes, Began, Waited, HandlersDone, Refused, Told
<1>6. Returns'
  <2>1. \A d \in Closer : closing'[d] = closing[d]
                           \/ closing'[d] = "waiting" \/ (closing'[d] = "nil" /\ run = "exited")
                           \/ (closing'[d] = "ctxErr" /\ deadline = "expired")
    BY <1>3 DEF CloseRuns, CloseBegin, CloseFinished, CloseExpired
  <2> QED
    BY <1>1, <1>3, <1>4, <2>1 DEF LifeInv, Returns
<1> QED
  BY <1>2, <1>5, <1>6 DEF LifeInv

\* main goes on, the deadline passes, or the cleanup goes its way.
LEMMA MainLife ==
  ASSUME LifeInv,
         CleanupTick \/ CleanupStops \/ Signal \/ Expire \/ CallClose \/ CancelCleanup
  PROVE  LifeInv'
<1>1. UNCHANGED <<vars, conn>>
  BY DEF CleanupTick, CleanupStops, Signal, Expire, CallClose, CancelCleanup
<1>2. UNCHANGED <<closed, closing, run, pc>>
  BY <1>1 DEF vars
<1>3. Inv'
  BY <1>1, StutterInv DEF LifeInv
<1>4. deadline = "expired" => deadline' = "expired"
  BY DEF CleanupTick, CleanupStops, Signal, Expire, CallClose, CancelCleanup, LifeInv, Began
<1>5. Refused' /\ Told'
  BY <1>1, <1>2, <1>4 DEF LifeInv, Refused, Told
<1>6. CASE CleanupTick \/ CleanupStops
  <2>1. UNCHANGED <<main, deadline>>
    BY <1>6 DEF CleanupTick, CleanupStops
  <2>2. LifeTypes' /\ Began' /\ Waited' /\ Returns'
    BY <1>1, <1>2, <2>1 DEF LifeInv, LifeTypes, Began, Waited, Returns, HandlersDone, CloseReturned
  <2> QED
    BY <1>3, <1>5, <2>2 DEF LifeInv
<1>7. CASE Signal
  BY <1>1, <1>2, <1>3, <1>5, <1>7
     DEF LifeInv, LifeTypes, Began, Waited, Returns, HandlersDone, CloseReturned, Signal
<1>8. CASE Expire
  BY <1>1, <1>2, <1>3, <1>5, <1>8
     DEF LifeInv, LifeTypes, Began, Waited, Returns, HandlersDone, CloseReturned, Expire, Alive
<1>9. CASE CallClose
  BY <1>1, <1>2, <1>3, <1>5, <1>9
     DEF LifeInv, LifeTypes, Began, Waited, Returns, HandlersDone, CloseReturned, CallClose, ShutdownReturns
<1>10. CASE CancelCleanup
  BY <1>1, <1>2, <1>3, <1>5, <1>10
     DEF LifeInv, LifeTypes, Began, Waited, Returns, HandlersDone, CloseReturned, CancelCleanup
<1> QED
  BY <1>6, <1>7, <1>8, <1>9, <1>10

\* The process ends.
LEMMA ExitLife ==
  ASSUME LifeInv, ListenFails \/ Exit
  PROVE  LifeInv'
<1>1. /\ UNCHANGED <<vars, deadline>> /\ main' = "exited" /\ conn' = CutOff
      /\ main = "serving" \/ main = "cancelled"
  BY DEF ListenFails, Exit
<1>2. UNCHANGED <<closed, closing, run, pc>>
  BY <1>1 DEF vars
<1>3. Inv'
  BY <1>1, StutterInv DEF LifeInv
<1>4. \A r \in Request : conn'[r] = IF conn[r] = "open" THEN "cut" ELSE conn[r]
  BY <1>1 DEF CutOff
<1>5. LifeTypes' /\ Began'
  <2>1. conn' \in [Request -> {"none", "open", "4xx", "202", "429", "503", "cut"}]
    BY <1>1 DEF LifeInv, LifeTypes, CutOff
  <2> QED
    BY <1>1, <2>1 DEF LifeInv, LifeTypes, Began
<1>6. ASSUME deadline = "running" PROVE main = "cancelled" /\ HandlersDone /\ run = "exited"
  <2>1. main = "cancelled"
    BY <1>1, <1>6 DEF LifeInv, Began
  <2>2. HandlersDone /\ CloseReturned
    BY <1>6, <2>1 DEF LifeInv, Waited, Returns
  <2> QED
    BY <1>6, <2>1, <2>2 DEF LifeInv, Returns, CloseReturned
<1>7. Waited'
  BY <1>1, <1>4, <1>6 DEF LifeInv, Waited, HandlersDone
<1>8. Returns'
  BY <1>1, <1>2, <1>6 DEF LifeInv, Returns
<1>9. Refused' /\ Told'
  BY <1>1, <1>2, <1>4 DEF LifeInv, Refused, Told
<1> QED
  BY <1>3, <1>5, <1>7, <1>8, <1>9 DEF LifeInv

-----------------------------------------------------------------------------
(* The theorems.                                                            *)

\* The writer's invariant holds in the server, and what main, the handlers and Close know of
\* each other, at every point of the process's life.
THEOREM LifeInvariant == LifeSpec => []LifeInv
<1>1. LifeInit => LifeInv
  BY InitLife
<1>2. LifeInv /\ [LifeNext]_allVars => LifeInv'
  <2> SUFFICES ASSUME LifeInv, [LifeNext]_allVars PROVE LifeInv'
    OBVIOUS
  <2>1. CASE UNCHANGED allVars
    <3>1. UNCHANGED <<vars, main, deadline, conn, closed, closing, run, pc>>
      BY <2>1 DEF allVars, lifeVars, vars
    <3>2. Inv'
      BY <3>1, StutterInv DEF LifeInv
    <3> QED
      BY <3>1, <3>2 DEF LifeInv, LifeTypes, Began, Waited, Returns, HandlersDone, CloseReturned,
                        Refused, Told
  <2> QED
    BY <2>1, HandlerLife, CallLife, RunLife, CloseLife, MainLife, ExitLife DEF LifeNext
<1> QED
  BY <1>1, <1>2, PTL DEF LifeSpec

\* Until the deadline Shutdown waits for the handlers before the writer is closed: a request is
\* told 503 only after it.
THEOREM ClosedIsLate == LifeSpec => []ClosedOnlyLate
<1>1. LifeInv => ClosedOnlyLate
  BY DEF LifeInv, Told, Refused, ClosedOnlyLate
<1> QED
  BY <1>1, LifeInvariant, PTL

\* A process that ends in time has settled every span that Enqueue took and cut no handler off.
THEOREM TimelyExitIsClean == LifeSpec => []TimelyExitDrains
<1>1. LifeInv => TimelyExitDrains
  BY InvImplies DEF LifeInv, Returns, Waited, DrainedOnExit, TimelyExitDrains
<1> QED
  BY <1>1, LifeInvariant, PTL

-----------------------------------------------------------------------------
(* The process implements the promise.                                      *)

\* Every step of the process is one of the writer, or leaves the writer as it is.
LEMMA LifeSteps == [LifeNext]_allVars => [Next]_vars
<1> SUFFICES ASSUME LifeNext \/ UNCHANGED allVars PROVE [Next]_vars
  OBVIOUS
<1>1. ASSUME NEW r \in Request, Arrive(r) \/ AnswerBadRequest(r) \/ Answer(r) PROVE UNCHANGED vars
  BY <1>1 DEF Arrive, AnswerBadRequest, Answer
<1>2. ASSUME NEW r \in Request, CallEnqueue(r) PROVE Next
  BY <1>2 DEF CallEnqueue, Alive, Next
<1>3. CASE WriterRuns
  BY <1>3 DEF WriterRuns, Alive, Next
<1>4. ASSUME NEW c \in Closer, CloseRuns(c) PROVE Next
  BY <1>4 DEF CloseRuns, CloseStep, Next
<1>5. CASE CleanupTick \/ CleanupStops \/ ListenFails \/ Signal \/ Expire \/ CallClose \/ CancelCleanup \/ Exit
  BY <1>5 DEF CleanupTick, CleanupStops, ListenFails, Signal, Expire, CallClose, CancelCleanup, Exit
<1>6. CASE UNCHANGED allVars
  BY <1>6 DEF allVars
<1> QED
  BY <1>1, <1>2, <1>3, <1>4, <1>5, <1>6 DEF LifeNext

\* ImplementsPromise: whatever main does with the writer, and whenever the process ends,
\* the calls of the handlers are answered and the spans stored as IngestPromise says.
THEOREM LifeKeepsPromise == LifeSpec => ImplementsPromise
<1>1. LifeInit => Init
  BY DEF LifeInit
<1>2. LifeSpec => Spec
  BY <1>1, LifeSteps, PTL DEF LifeSpec, Spec
<1> QED
  BY <1>2, WriterKeepsPromise, PTL
=============================================================================
