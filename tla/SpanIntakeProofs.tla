-------------------------- MODULE SpanIntakeProofs --------------------------
(***************************************************************************)
(* The way of the spans into the queue, for any requests, workspaces, items *)
(* and sizes of an integer: a body is taken whole or not at all, what is   *)
(* taken is valid and in the workspace of the credential, and the duration *)
(* of a span is lost only where a product leaves the integers.             *)
(***************************************************************************)
EXTENDS SpanIntake, WellFoundedInduction, TLAPS

\* Items are as clients may write them.  In the code a day is 86 400 000 000 000 nanoseconds, Micro
\* 1000 and Width 2^63.
IntakeBounds ==
  /\ Item \subseteq ItemType
  /\ MaxItems \in Nat /\ Micro \in Nat \ {0} /\ Width \in Nat \ {0} /\ Day \in 0..(Width - 1)

Taken(r) == req[r].stage = "answered" /\ req[r].answer = "accepted"

Replies == {"invalid", "too large", "empty", "none", "accepted", "full", "closed"}

InWork == [stage : {"decoded", "valid"}, format : Formats, workspace : Workspace, body : Bodies]

Answered == [stage : {"answered"}, workspace : Workspace, body : Bodies, format : Formats, answer : Replies]

\* What passed Validate stays what it was until it is answered, and the writer has it if that is
\* what the answer says.
IntakeInv ==
  /\ DOMAIN req = Request /\ DOMAIN queue = Request
  /\ \A r \in Request : req[r] = Idle \/ req[r] \in InWork \/ req[r] \in Answered
  /\ \A r \in Request : req[r].stage = "valid" \/ Taken(r) => Verdict(r) = "none"
  /\ \A r \in Request : queue[r] = IF Taken(r) THEN Spans(r) ELSE <<>>

\* The writer has all spans of a request that was accepted, in their order, and none of any other;
\* all of them are valid and in the workspace of the credential.
TakenWhole ==
  \A r \in Request :
    IF Taken(r)
    THEN /\ Len(queue[r]) = Len(req[r].body) /\ Len(queue[r]) > 0
         /\ \A i \in 1..Len(queue[r]) :
              Fault(queue[r][i]) = "none" /\ queue[r][i].workspace = req[r].workspace
    ELSE queue[r] = <<>>

\* A duration is another than the client's if and only if CozeLoop's microseconds leave the integers.
DurationLost ==
  \A r \in Request : \A i \in 1..Len(queue[r]) :
    queue[r][i].duration # TrueDuration(r, i) <=>
      req[r].format = "cozeloop" /\ TrueDuration(r, i) \notin -Width..(Width - 1)

-----------------------------------------------------------------------------
(* The operators.                                                           *)

LEMMA FirstNat ==
  ASSUME NEW S \in SUBSET Nat, S # {}
  PROVE  \E n \in S : \A m \in S : n <= m
<1> DEFINE Less == {p \in Nat \X Nat : p[1] < p[2]}
<1>1. IsWellFoundedOn(Less, Nat)
  BY NatLessThanWellFounded, Zenon DEF OpToRel
<1>2. \A a, b \in Nat : a < b => <<a, b>> \in Less
  OBVIOUS
<1> HIDE DEF Less
<1>3. PICK n \in S : \A y \in S : <<y, n>> \notin Less
  BY <1>1, WFMin, Zenon
<1>4. ASSUME NEW m \in S PROVE n <= m
  <2>1. m \in Nat /\ n \in Nat /\ ~(m < n)
    BY <1>2, <1>3
  <2> QED
    BY <2>1
<1> QED
  BY <1>4

\* A product that fits is left alone, any other comes out within the integers.
LEMMA WrapFits ==
  ASSUME NEW n \in Int, Width \in Nat \ {0}
  PROVE  /\ Wrap(n) \in -Width..(Width - 1)
         /\ n \in -Width..(Width - 1) => Wrap(n) = n
<1> DEFINE w == 2 * Width
<1>1. w \in Nat \ {0}
  OBVIOUS
<1>2. n + Width \in Int
  OBVIOUS
<1>3. (n + Width) % w \in 0..(w - 1)
  <2> HIDE DEF w
  <2> QED
    BY <1>1, <1>2
<1>4. ASSUME n \in -Width..(Width - 1) PROVE (n + Width) % w = n + Width
  <2>1. n + Width \in Nat /\ n + Width < w
    BY <1>4
  <2> HIDE DEF w
  <2> QED
    BY <1>1, <2>1
<1> QED
  BY <1>1, <1>2, <1>3, <1>4 DEF Wrap

LEMMA BodyLength ==
  ASSUME NEW b \in Bodies, MaxItems \in Nat
  PROVE  /\ Len(b) \in Nat
         /\ \A i \in 1..Len(b) : b[i] \in Item
<1>1. PICK n \in 0..MaxItems : b \in [1..n -> Item]
  BY DEF Bodies
<1>2. n \in Nat
  OBVIOUS
<1>3. Len(b) = n
  BY <1>1, <1>2
<1> QED
  BY <1>1, <1>2, <1>3

\* The spans of a body, one by one.
LEMMA SpansAre ==
  ASSUME NEW r, req[r].body \in Bodies, req[r].format \in Formats, IntakeBounds
  PROVE  /\ Len(req[r].body) \in Nat /\ Len(Spans(r)) = Len(req[r].body)
         /\ \A i \in 1..Len(req[r].body) :
              /\ req[r].body[i] \in Item /\ req[r].body[i].duration \in Int
              /\ Spans(r)[i].workspace = req[r].workspace
              /\ Spans(r)[i].duration = IF req[r].format = "native" THEN req[r].body[i].duration
                                        ELSE Wrap(req[r].body[i].duration * Micro)
<1> DEFINE b == req[r].body
           n == Len(b)
<1>1. n \in Nat /\ \A i \in 1..n : b[i] \in Item
  BY BodyLength DEF IntakeBounds
<1>2. \A i \in 1..n : b[i] \in ItemType
  BY <1>1 DEF IntakeBounds
<1>3. Spans(r) = [i \in 1..n |-> Spans(r)[i]]
  BY DEF Spans
<1>4. Len(Spans(r)) = n
  <2> HIDE DEF n
  <2> QED
    BY <1>1, <1>3
<1>5. ASSUME NEW i \in 1..n
      PROVE  /\ b[i].duration \in Int
             /\ Spans(r)[i].workspace = req[r].workspace
             /\ Spans(r)[i].duration = IF req[r].format = "native" THEN b[i].duration
                                       ELSE Wrap(b[i].duration * Micro)
  <2>1. b[i] \in ItemType
    BY <1>2
  <2>2. Spans(r)[i] = IF req[r].format = "native" THEN [b[i] EXCEPT !.workspace = req[r].workspace]
                      ELSE [b[i] EXCEPT !.workspace = req[r].workspace, !.tokens = 0,
                                        !.timed = TRUE, !.duration = Wrap(b[i].duration * Micro)]
    BY DEF Spans
  <2> HIDE DEF b
  <2> QED
    BY <2>1, <2>2 DEF ItemType
<1> QED
  BY <1>1, <1>4, <1>5

\* If one of the spans has a fault, the first that has one decides.
LEMMA NoFault ==
  ASSUME NEW s, FaultOf(s) = "none", Len(s) \in Nat
  PROVE  s # <<>> /\ \A i \in 1..Len(s) : Fault(s[i]) = "none"
<1> DEFINE faulty == {i \in 1..Len(s) : Fault(s[i]) # "none"}
           first == CHOOSE i \in faulty : \A j \in faulty : i <= j
<1>1. s # <<>>
  BY DEF FaultOf
<1>2. ASSUME faulty # {} PROVE FALSE
  <2>1. faulty \in SUBSET Nat
    OBVIOUS
  <2>2. \E i \in faulty : \A j \in faulty : i <= j
    <3> HIDE DEF faulty
    <3> QED
      BY <1>2, <2>1, FirstNat
  <2>3. first \in faulty
    BY <2>2
  <2>4. FaultOf(s) = Fault(s[first])
    BY <1>1, <1>2 DEF FaultOf
  <2> QED
    BY <2>3, <2>4
<1> QED
  BY <1>1, <1>2

LEMMA Verdicts ==
  ASSUME NEW r
  PROVE  Verdict(r) \in {"invalid", "too large", "empty", "none"}
<1>1. \A s : Fault(s) \in {"invalid", "too large", "none"}
  BY DEF Fault
<1>2. \A s : FaultOf(s) \in {"invalid", "too large", "empty", "none"}
  BY <1>1 DEF FaultOf
<1> QED
  BY <1>2 DEF Verdict

\* What a request is about does not change with its stage.
LEMMA SameRequest ==
  ASSUME NEW r, req'[r].body = req[r].body, req'[r].format = req[r].format,
         req'[r].workspace = req[r].workspace
  PROVE  Spans(r)' = Spans(r) /\ Verdict(r)' = Verdict(r)
<1>1. Spans(r)' = Spans(r)
  BY DEF Spans
<1> QED
  BY <1>1 DEF Verdict

-----------------------------------------------------------------------------
(* The invariant.                                                           *)

LEMMA InitIntake == Init => IntakeInv
  BY DEF Init, IntakeInv, Idle, Taken

\* A step of one request changes nothing of another.
LEMMA OneRequest ==
  ASSUME IntakeInv, NEW r \in Request, NEW e, req' = [req EXCEPT ![r] = e],
         DOMAIN queue' = Request, \A q \in Request \ {r} : queue'[q] = queue[q],
         e = Idle \/ e \in InWork \/ e \in Answered,
         e.stage = "valid" \/ Taken(r)' => Verdict(r)' = "none",
         queue'[r] = IF Taken(r)' THEN Spans(r)' ELSE <<>>
  PROVE  IntakeInv'
<1>1. /\ DOMAIN req' = Request /\ req'[r] = e
      /\ \A q \in Request \ {r} : req'[q] = req[q]
  BY DEF IntakeInv
<1>2. ASSUME NEW q \in Request \ {r}
      PROVE  Spans(q)' = Spans(q) /\ Verdict(q)' = Verdict(q) /\ (Taken(q)' <=> Taken(q))
  BY <1>1, SameRequest DEF Taken
<1>3. \A q \in Request : req'[q] = Idle \/ req'[q] \in InWork \/ req'[q] \in Answered
  BY <1>1 DEF IntakeInv
<1>4. \A q \in Request : req'[q].stage = "valid" \/ Taken(q)' => Verdict(q)' = "none"
  BY <1>1, <1>2 DEF IntakeInv
<1>5. \A q \in Request : queue'[q] = IF Taken(q)' THEN Spans(q)' ELSE <<>>
  BY <1>1, <1>2 DEF IntakeInv
<1> QED
  BY <1>1, <1>3, <1>4, <1>5 DEF IntakeInv

LEMMA NextIntake ==
  ASSUME IntakeInv, NEW r \in Request, Arrive(r) \/ Refuse(r) \/ Validated(r) \/ Enqueue(r) \/ Forget(r)
  PROVE  IntakeInv'
<1>1. /\ DOMAIN req = Request /\ DOMAIN queue = Request
      /\ req[r] = Idle \/ req[r] \in InWork \/ req[r] \in Answered
      /\ req[r].stage # "answered" => queue[r] = <<>>
  BY DEF IntakeInv, Taken
<1>2. CASE Arrive(r)
  <2>1. PICK e \in InWork : e.stage = "decoded" /\ req' = [req EXCEPT ![r] = e]
    BY <1>2 DEF Arrive, InWork
  <2>2. req'[r] = e /\ req[r].stage = "idle" /\ UNCHANGED queue
    BY <1>1, <1>2, <2>1 DEF Arrive, Idle
  <2>3. ~Taken(r)'
    BY <2>1, <2>2 DEF Taken
  <2> QED
    BY <1>1, <2>1, <2>2, <2>3, OneRequest
<1>3. ASSUME NEW answer \in Replies, req[r] \in InWork, Answers(r, answer),
             answer = "accepted" => req[r].stage = "valid" /\ queue' = [queue EXCEPT ![r] = Spans(r)],
             answer # "accepted" => UNCHANGED queue
      PROVE  IntakeInv'
  <2> DEFINE e == [stage |-> "answered", workspace |-> req[r].workspace, body |-> req[r].body,
                   format |-> req[r].format, answer |-> answer]
  <2>1. req' = [req EXCEPT ![r] = e] /\ e \in Answered /\ e.stage = "answered" /\ e.answer = answer
    BY <1>3 DEF Answers, InWork, Answered
  <2>2. req'[r] = e
    BY <1>1, <2>1
  <2>3. Spans(r)' = Spans(r) /\ Verdict(r)' = Verdict(r)
    BY <2>2, SameRequest
  <2>4. Taken(r)' <=> answer = "accepted"
    BY <2>1, <2>2 DEF Taken
  <2>5. Taken(r)' => Verdict(r)' = "none"
    BY <1>3, <2>3, <2>4 DEF IntakeInv
  <2>6. /\ DOMAIN queue' = Request /\ \A q \in Request \ {r} : queue'[q] = queue[q]
        /\ queue'[r] = IF Taken(r)' THEN Spans(r)' ELSE <<>>
    <3>1. CASE answer = "accepted"
      BY <1>1, <1>3, <2>3, <2>4, <3>1
    <3>2. CASE answer # "accepted"
      <4>1. req[r].stage # "answered"
        BY <1>3 DEF InWork
      <4> QED
        BY <1>1, <1>3, <2>4, <3>2, <4>1
    <3> QED
      BY <3>1, <3>2
  <2> HIDE DEF e
  <2> QED
    BY <2>1, <2>5, <2>6, OneRequest
<1>4. CASE Refuse(r)
  <2>1. req[r] \in InWork /\ UNCHANGED queue /\ Answers(r, Verdict(r))
    BY <1>1, <1>4 DEF Refuse, Idle, Answered
  <2>2. Verdict(r) \in Replies /\ Verdict(r) # "accepted"
    BY Verdicts DEF Replies
  <2> QED
    BY Zenon, <1>3, <2>1, <2>2
<1>5. CASE Validated(r)
  <2> DEFINE e == [req[r] EXCEPT !.stage = "valid"]
  <2>1. req[r] \in InWork /\ req[r].stage = "decoded" /\ Verdict(r) = "none" /\ UNCHANGED queue
    BY <1>1, <1>5 DEF Validated, Idle, Answered
  <2>2. req' = [req EXCEPT ![r] = e]
    BY <1>5 DEF Validated
  <2>3. /\ e \in InWork /\ e.stage = "valid" /\ e.body = req[r].body /\ e.format = req[r].format
        /\ e.workspace = req[r].workspace
    BY <2>1 DEF InWork
  <2> HIDE DEF e
  <2>4. req'[r] = e
    BY <1>1, <2>2
  <2>5. Verdict(r)' = "none" /\ ~Taken(r)'
    BY <2>1, <2>3, <2>4, SameRequest DEF Taken
  <2> QED
    BY <1>1, <2>1, <2>2, <2>3, <2>5, OneRequest
<1>6. CASE Enqueue(r)
  <2>1. req[r] \in InWork /\ req[r].stage = "valid"
    BY <1>1, <1>6 DEF Enqueue, Idle, Answered
  <2>2. "accepted" \in Replies /\ "full" \in Replies /\ "closed" \in Replies
    BY DEF Replies
  <2>3. "full" # "accepted" /\ "closed" # "accepted"
    OBVIOUS
  <2>4. CASE Answers(r, "accepted") /\ queue' = [queue EXCEPT ![r] = Spans(r)]
    BY Zenon, <1>3, <2>1, <2>2, <2>4
  <2>5. CASE Answers(r, "full") /\ UNCHANGED queue
    BY Zenon, <1>3, <2>1, <2>2, <2>3, <2>5
  <2>6. CASE Answers(r, "closed") /\ UNCHANGED queue
    BY Zenon, <1>3, <2>1, <2>2, <2>3, <2>6
  <2> QED
    BY Zenon, <1>6, <2>4, <2>5, <2>6 DEF Enqueue
<1>7. CASE Forget(r)
  <2>1. req' = [req EXCEPT ![r] = Idle] /\ queue' = [queue EXCEPT ![r] = <<>>] /\ req'[r] = Idle
    BY <1>1, <1>7 DEF Forget
  <2>2. ~Taken(r)' /\ Idle.stage # "valid"
    BY <2>1 DEF Taken, Idle
  <2> QED
    BY <1>1, <2>1, <2>2, OneRequest
<1> QED
  BY <1>2, <1>4, <1>5, <1>6, <1>7

-----------------------------------------------------------------------------
(* The theorems.                                                            *)

\* Between Validate and the answer nothing of a request changes, and the writer is given what was
\* validated.
THEOREM IntakeInvariant == Spec => []IntakeInv
<1>1. IntakeInv /\ [Next]_vars => IntakeInv'
  <2> SUFFICES ASSUME IntakeInv, UNCHANGED vars PROVE IntakeInv'
    BY NextIntake DEF Next
  <2>1. \A r \in Request : Spans(r)' = Spans(r) /\ Verdict(r)' = Verdict(r)
    BY SameRequest DEF vars
  <2> QED
    BY <2>1 DEF vars, IntakeInv, Taken
<1> QED
  BY <1>1, InitIntake, PTL DEF Spec

\* What is known of the spans of a request that the writer has taken.
LEMMA SpansOfTaken ==
  ASSUME IntakeInv, IntakeBounds, NEW r \in Request, Taken(r)
  PROVE  /\ queue[r] = Spans(r) /\ Verdict(r) = "none"
         /\ req[r].body \in Bodies /\ req[r].format \in Formats
<1>1. req[r] \in Answered
  BY DEF IntakeInv, Idle, InWork, Taken
<1> QED
  BY <1>1 DEF IntakeInv, Answered

\* TakenWhole: a body is ingested whole or not at all, nothing reaches the writer that
\* Validate would refuse, and the workspace is the credential's whatever the body says.
THEOREM BodiesTakenWhole ==
  ASSUME IntakeBounds
  PROVE  Spec => []TakenWhole
<1>1. IntakeInv => TakenWhole
  <2> SUFFICES ASSUME IntakeInv, NEW r \in Request, Taken(r)
               PROVE  /\ Len(queue[r]) = Len(req[r].body) /\ Len(queue[r]) > 0
                      /\ \A i \in 1..Len(queue[r]) :
                           Fault(queue[r][i]) = "none" /\ queue[r][i].workspace = req[r].workspace
    BY DEF TakenWhole, IntakeInv
  <2>1. /\ queue[r] = Spans(r) /\ Verdict(r) = "none"
        /\ req[r].body \in Bodies /\ req[r].format \in Formats
    BY SpansOfTaken
  <2>2. /\ Len(req[r].body) \in Nat /\ Len(Spans(r)) = Len(req[r].body)
        /\ \A i \in 1..Len(req[r].body) : Spans(r)[i].workspace = req[r].workspace
    BY <2>1, SpansAre
  <2>3. FaultOf(Spans(r)) = "none"
    BY <2>1 DEF Verdict
  <2>4. Spans(r) # <<>> /\ \A i \in 1..Len(Spans(r)) : Fault(Spans(r)[i]) = "none"
    BY <2>2, <2>3, NoFault
  <2>5. Len(Spans(r)) > 0
    <3>1. Spans(r) = [i \in 1..Len(Spans(r)) |-> Spans(r)[i]]
      BY <2>2 DEF Spans
    <3> QED
      BY <2>2, <2>4, <3>1
  <2> QED
    BY <2>1, <2>2, <2>4, <2>5
<1> QED
  BY <1>1, IntakeInvariant, PTL

\* DurationLost: how far DurationKept is from being true.  Native spans keep their duration, and
\* CozeLoop's lose it exactly when the product is beyond the integers; by TakenWhole what is
\* accepted instead is a duration within a day.
THEOREM DurationsLost ==
  ASSUME IntakeBounds
  PROVE  Spec => []DurationLost
<1>1. IntakeInv => DurationLost
  <2> SUFFICES ASSUME IntakeInv, NEW r \in Request, NEW i \in 1..Len(queue[r])
               PROVE  queue[r][i].duration # TrueDuration(r, i) <=>
                        req[r].format = "cozeloop" /\ TrueDuration(r, i) \notin -Width..(Width - 1)
    BY DEF DurationLost
  <2>1. Taken(r)
    <3>1. ~Taken(r) => queue[r] = <<>>
      BY DEF IntakeInv
    <3>2. Len(<<>>) = 0
      OBVIOUS
    <3> QED
      BY <3>1, <3>2
  <2>2. queue[r] = Spans(r) /\ req[r].body \in Bodies /\ req[r].format \in Formats
    BY <2>1, SpansOfTaken
  <2> DEFINE d == req[r].body[i].duration
  <2>3. /\ d \in Int
        /\ Spans(r)[i].duration = IF req[r].format = "native" THEN d ELSE Wrap(d * Micro)
    BY <2>2, SpansAre
  <2> HIDE DEF d
  <2>4. CASE req[r].format = "native"
    <3>1. TrueDuration(r, i) = d
      BY <2>3, <2>4 DEF TrueDuration, d
    <3> QED
      BY <2>2, <2>3, <2>4, <3>1
  <2>5. CASE req[r].format = "cozeloop"
    <3>1. TrueDuration(r, i) = d * Micro
      BY <2>5 DEF TrueDuration, d
    <3>2. d * Micro \in Int /\ Width \in Nat \ {0}
      BY <2>3 DEF IntakeBounds
    <3>3. /\ Wrap(d * Micro) \in -Width..(Width - 1)
          /\ d * Micro \in -Width..(Width - 1) => Wrap(d * Micro) = d * Micro
      BY <3>2, WrapFits
    <3> QED
      BY <2>2, <2>3, <2>5, <3>1, <3>3
  <2> QED
    BY <2>2, <2>4, <2>5 DEF Formats
<1> QED
  BY <1>1, IntakeInvariant, PTL
=============================================================================
