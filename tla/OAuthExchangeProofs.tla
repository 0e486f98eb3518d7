------------------------ MODULE OAuthExchangeProofs ------------------------
(***************************************************************************)
(* For any JWTs, clients, durations and number of exchanges: a JWT that    *)
(* has not expired is used once, what is issued belongs to the signer and  *)
(* ends in time, and a refusal as used is true.                            *)
(***************************************************************************)
EXTENDS OAuthExchange, TLAPS

\* A JWT that was recorded in time stays recorded until it expires.
Kept ==
  \A j \in Jwt : timely[j] <= 1 /\ (timely[j] = 1 /\ clock < Exp[j] => j \in recorded)

\* What an exchange has in hand is what was verified.
InHand ==
  \A e \in Exchange :
    ex[e].stage \in {"consume", "issue"} =>
      SignedFor[ex[e].jwt] = ex[e].ws /\ ex[e].now < Exp[ex[e].jwt] + Leeway

TokenType == tokens \subseteq [jwt : Jwt, ws : Workspace, expires : Int]

RowsWereUsed == \A j \in recorded : uses[j] > 0

Inv ==
  /\ TypeOK /\ TokenType /\ Kept /\ InHand /\ RowsWereUsed
  /\ TokenOfSigner /\ TokenLifeBounded /\ RefusalTrue

\* What the stage of an exchange tells of its record.
LEMMA Records ==
  ASSUME TypeOK, NEW e \in Exchange
  PROVE  /\ ex[e] \in {Idle} \union Answered \union Pending
         /\ ex[e].stage \in {"consume", "issue"} => ex[e] \in Pending
         /\ ex[e].stage = "answered" => ex[e] \in Answered
<1>1. ex[e] \in {Idle} \union Answered \union Pending  BY DEF TypeOK
<1>2. CASE ex[e] = Idle  BY <1>1, <1>2 DEF Idle
<1>3. CASE ex[e] \in Answered  BY <1>1, <1>3 DEF Answered
<1>4. CASE ex[e] \in Pending  BY <1>1, <1>4 DEF Pending
<1> QED  BY <1>1, <1>2, <1>3, <1>4

\* Nothing was recorded and nobody has asked.
LEMMA InitInv == Init => Inv
<1> SUFFICES ASSUME Init PROVE Inv
  OBVIOUS
<1>1. TypeOK  BY ExchangeAssumption DEF Init, TypeOK, Time
<1>2. Kept  BY ExchangeAssumption DEF Init, Kept
<1>3. InHand /\ RefusalTrue  BY DEF Init, InHand, RefusalTrue, Idle
<1>4. TokenType /\ RowsWereUsed /\ TokenOfSigner /\ TokenLifeBounded
  BY DEF Init, TokenType, RowsWereUsed, TokenOfSigner, TokenLifeBounded
<1> QED  BY <1>1, <1>2, <1>3, <1>4 DEF Inv

\* Types are kept by every step.
LEMMA TypeStep == TypeOK /\ [Next]_vars => TypeOK'
<1> SUFFICES ASSUME TypeOK, [Next]_vars PROVE TypeOK'
  OBVIOUS
<1> USE ExchangeAssumption
<1>1. CASE Tick  BY <1>1 DEF Tick, TypeOK, Time
<1>2. CASE CleanupBegins  BY <1>2 DEF CleanupBegins, TypeOK, Time
<1>3. CASE DeleteIds  BY <1>3 DEF DeleteIds, TypeOK
<1>4. CASE Restart  BY <1>4 DEF Restart, TypeOK, Time
<1>5. ASSUME NEW c \in Client, NEW app \in Workspace \union {Disabled}, CreateApp(c, app)
      PROVE  TypeOK'
  BY <1>5 DEF CreateApp, TypeOK
<1>6. ASSUME NEW e \in Exchange, NEW j \in Jwt, NEW d \in Duration, Ask(e, j, d)
      PROVE  TypeOK'
  <2>1. clock \in Time /\ apps \in [Client -> Workspace \union {Absent, Disabled}]
    BY DEF TypeOK
  <2>2. ex'[e] \in Answered \union Pending
    BY <1>6, <2>1 DEF Ask, TypeOK, Answered, Pending
  <2>3. ex' = [ex EXCEPT ![e] = ex'[e]]
    BY <1>6 DEF Ask, TypeOK
  <2> QED  BY <1>6, <2>2, <2>3 DEF Ask, TypeOK
<1>7. ASSUME NEW e \in Exchange, Consume(e)
      PROVE  TypeOK'
  <2>1. ex[e] \in Pending  BY <1>7, Records DEF Consume
  <2>2. ex[e].jwt \in Jwt /\ [ex[e] EXCEPT !.stage = "issue"] \in Pending
    BY <2>1 DEF Pending
  <2> QED  BY <1>7, <2>2 DEF Consume, TypeOK
<1>8. ASSUME NEW e \in Exchange, AlreadyUsed(e) \/ ConsumeFails(e) \/ Issue(e) \/ IssueFails(e)
      PROVE  TypeOK'
  <2>1. ex[e] \in Pending  BY <1>8, Records DEF AlreadyUsed, ConsumeFails, Issue, IssueFails
  <2>2. ex[e].jwt \in Jwt  BY <2>1 DEF Pending
  <2>3. \E x \in Answered : ex' = [ex EXCEPT ![e] = x]
    BY <1>8, <2>2 DEF AlreadyUsed, ConsumeFails, Issue, IssueFails, Answers, Answered
  <2>4. ex' \in [Exchange -> {Idle} \union Answered \union Pending]
    BY <2>3 DEF TypeOK
  <2>5. UNCHANGED <<clock, apps, recorded, cleanup, uses, timely>>
    BY <1>8 DEF AlreadyUsed, ConsumeFails, Issue, IssueFails
  <2> QED  BY <2>4, <2>5 DEF TypeOK
<1>9. CASE UNCHANGED vars  BY <1>9 DEF vars, TypeOK
<1> QED  BY <1>1, <1>2, <1>3, <1>4, <1>5, <1>6, <1>7, <1>8, <1>9 DEF Next, Step

\* The cleanup spares what has not expired, and a use needs that nothing is recorded.
LEMMA KeptStep == TypeOK /\ Kept /\ [Next]_vars => Kept'
<1> SUFFICES ASSUME TypeOK, Kept, [Next]_vars PROVE Kept'
  OBVIOUS
<1> USE ExchangeAssumption
<1>1. CASE Tick  BY <1>1 DEF Tick, TypeOK, Time, Kept
<1>2. CASE CleanupBegins \/ Restart
  BY <1>2 DEF CleanupBegins, Restart, Kept
<1>3. CASE DeleteIds
  BY <1>3 DEF DeleteIds, TypeOK, Time, Kept
<1>4. ASSUME NEW c \in Client, NEW app \in Workspace \union {Disabled}, CreateApp(c, app)
      PROVE  Kept'
  BY <1>4 DEF CreateApp, Kept
<1>5. ASSUME NEW e \in Exchange, Consume(e)
      PROVE  Kept'
  <2> DEFINE j == ex[e].jwt
  <2>1. j \in Jwt  BY <1>5, Records DEF Consume, Pending
  <2>2. j \notin recorded  BY <1>5, <2>1 DEF Consume, Recorded, SameId
  <2>3. timely' = [timely EXCEPT ![j] = IF clock < Exp[j] THEN @ + 1 ELSE @]
        /\ recorded' = recorded \union {j} /\ clock' = clock
    BY <1>5 DEF Consume
  <2> QED  BY <2>1, <2>2, <2>3 DEF TypeOK, Kept
<1>6. ASSUME NEW e \in Exchange, Step(e), ~Consume(e)
      PROVE  Kept'
  BY <1>6 DEF Step, Ask, AlreadyUsed, ConsumeFails, Issue, IssueFails, Kept
<1>7. CASE UNCHANGED vars  BY <1>7 DEF vars, Kept
<1> QED  BY <1>1, <1>2, <1>3, <1>4, <1>5, <1>6, <1>7 DEF Next

\* An exchange keeps what it verified, although apps, clock and tables move on.
LEMMA InHandStep == TypeOK /\ InHand /\ [Next]_vars => InHand'
<1> SUFFICES ASSUME TypeOK, InHand, [Next]_vars PROVE InHand'
  OBVIOUS
<1> USE ExchangeAssumption
<1>1. ASSUME NEW e \in Exchange, NEW j \in Jwt, NEW d \in Duration, Ask(e, j, d)
      PROVE  InHand'
  BY <1>1 DEF Ask, Verified, TypeOK, InHand
<1>2. ASSUME NEW e \in Exchange, Consume(e)
      PROVE  InHand'
  BY <1>2 DEF Consume, TypeOK, InHand, Idle
<1>3. ASSUME NEW e \in Exchange,
             AlreadyUsed(e) \/ ConsumeFails(e) \/ Issue(e) \/ IssueFails(e)
      PROVE  InHand'
  <2>1. PICK answer : ex' = [ex EXCEPT ![e] = [stage |-> "answered", jwt |-> ex[e].jwt,
                                               answer |-> answer]]
    BY <1>3 DEF AlreadyUsed, ConsumeFails, Issue, IssueFails, Answers
  <2> QED  BY <2>1 DEF TypeOK, InHand
<1>4. CASE UNCHANGED ex  BY <1>4 DEF InHand
<1>5. CASE Restart  BY <1>5 DEF Restart, InHand, Idle
<1> QED  BY <1>1, <1>2, <1>3, <1>4, <1>5 DEF Next, Step, Tick, CleanupBegins, DeleteIds, CreateApp, vars

\* Tokens are stored by Issue only, from what the exchange has in hand.
LEMMA TokensStep ==
  TypeOK /\ InHand /\ TokenType /\ TokenOfSigner /\ TokenLifeBounded /\ [Next]_vars
    => (TokenType /\ TokenOfSigner /\ TokenLifeBounded)'
<1> SUFFICES ASSUME TypeOK, InHand, TokenType, TokenOfSigner, TokenLifeBounded, [Next]_vars
             PROVE  (TokenType /\ TokenOfSigner /\ TokenLifeBounded)'
  OBVIOUS
<1> USE ExchangeAssumption
<1>1. ASSUME NEW e \in Exchange, Issue(e)
      PROVE  (TokenType /\ TokenOfSigner /\ TokenLifeBounded)'
  <2>1. /\ ex[e].stage = "issue" /\ ex[e].jwt \in Jwt /\ ex[e].ws \in Workspace
        /\ ex[e].now \in Nat /\ ex[e].duration \in Least..Most
    BY <1>1, Records DEF Issue, Pending, Time
  <2>2. tokens' = tokens \union {[jwt |-> ex[e].jwt, ws |-> ex[e].ws,
                                  expires |-> ex[e].now + ex[e].duration]}
    BY <1>1 DEF Issue, Token
  <2>3. SignedFor[ex[e].jwt] = ex[e].ws /\ ex[e].now < Exp[ex[e].jwt] + Leeway
    BY <2>1 DEF InHand
  <2>4. ex[e].now + ex[e].duration \in Int
    BY <2>1
  <2>5. ex[e].now + ex[e].duration < Exp[ex[e].jwt] + Leeway + Most
    BY <2>1, <2>3
  <2>6. TokenType'  BY <2>1, <2>2, <2>4 DEF TokenType
  <2>7. TokenOfSigner'  BY <2>2, <2>3 DEF TokenOfSigner
  <2>8. TokenLifeBounded'  BY <2>2, <2>5 DEF TokenLifeBounded
  <2> QED  BY <2>6, <2>7, <2>8
<1>2. CASE UNCHANGED tokens
  BY <1>2 DEF TokenType, TokenOfSigner, TokenLifeBounded
<1> QED
  BY <1>1, <1>2 DEF Next, Step, Tick, CleanupBegins, DeleteIds, Restart, CreateApp, Ask, Consume,
     AlreadyUsed, ConsumeFails, IssueFails, vars

\* A row was brought by a use, and uses are never forgotten.
LEMMA RefusalStep ==
  TypeOK /\ RowsWereUsed /\ RefusalTrue /\ [Next]_vars => (RowsWereUsed /\ RefusalTrue)'
<1> SUFFICES ASSUME TypeOK, RowsWereUsed, RefusalTrue, [Next]_vars
             PROVE  (RowsWereUsed /\ RefusalTrue)'
  OBVIOUS
<1> USE ExchangeAssumption
<1>1. ASSUME NEW e \in Exchange, Consume(e)
      PROVE  (RowsWereUsed /\ RefusalTrue)'
  <2> DEFINE j == ex[e].jwt
  <2>1. j \in Jwt  BY <1>1, Records DEF Consume, Pending
  <2>2. /\ recorded' = recorded \union {j} /\ uses' = [uses EXCEPT ![j] = @ + 1]
        /\ ex' = [ex EXCEPT ![e].stage = "issue"]
    BY <1>1 DEF Consume
  <2>3. uses'[j] > 0 /\ \A i \in Jwt : uses[i] > 0 => uses'[i] > 0
    BY <2>1, <2>2 DEF TypeOK
  <2>4. RowsWereUsed'  BY <2>1, <2>2, <2>3 DEF RowsWereUsed, TypeOK
  <2>5. RefusalTrue'
    <3> HIDE DEF j
    <3> SUFFICES ASSUME NEW f \in Exchange,
                        ex'[f].stage = "answered", ex'[f].answer = "already used"
                 PROVE  \E i \in Jwt : SameId(i, ex'[f].jwt) /\ uses'[i] > 0
      BY DEF RefusalTrue, SameId
    <3>1. ex'[e] = [ex[e] EXCEPT !.stage = "issue"] /\ (f # e => ex'[f] = ex[f])
      BY <2>2 DEF TypeOK
    <3>6. ex[e] \in Pending  BY <1>1, Records DEF Consume
    <3>2. ex'[e].stage = "issue"  BY <3>1, <3>6 DEF Pending
    <3>3. ex'[f] = ex[f]  BY <3>1, <3>2
    <3>4. PICK i \in Jwt : SameId(i, ex[f].jwt) /\ uses[i] > 0  BY <3>3 DEF RefusalTrue
    <3>5. uses'[i] > 0  BY <2>3, <3>4
    <3> QED  BY <3>3, <3>4, <3>5
  <2> QED  BY <2>4, <2>5
<1>2. ASSUME NEW e \in Exchange, AlreadyUsed(e)
      PROVE  (RowsWereUsed /\ RefusalTrue)'
  <2>1. ex[e].jwt \in Jwt  BY <1>2, Records DEF AlreadyUsed, Pending
  <2>2. \E i \in Jwt : SameId(i, ex[e].jwt) /\ uses[i] > 0
    BY <1>2 DEF AlreadyUsed, Recorded, RowsWereUsed, TypeOK
  <2>3. /\ UNCHANGED <<recorded, uses>>
        /\ ex' = [ex EXCEPT ![e] =
             [stage |-> "answered", jwt |-> ex[e].jwt, answer |-> "already used"]]
    BY <1>2 DEF AlreadyUsed, Answers
  <2> QED  BY <2>2, <2>3 DEF TypeOK, RowsWereUsed, RefusalTrue, SameId
<1>3. ASSUME NEW e \in Exchange, NEW answer \in {"server error", "token"}, Answers(e, answer),
             UNCHANGED <<recorded, uses>>
      PROVE  (RowsWereUsed /\ RefusalTrue)'
  BY <1>3 DEF Answers, TypeOK, RowsWereUsed, RefusalTrue, SameId
<1>4. ASSUME NEW e \in Exchange, NEW j \in Jwt, NEW d \in Duration, Ask(e, j, d)
      PROVE  (RowsWereUsed /\ RefusalTrue)'
  BY <1>4 DEF Ask, TypeOK, RowsWereUsed, RefusalTrue, SameId
<1>5. CASE Restart
  BY <1>5 DEF Restart, Idle, RowsWereUsed, RefusalTrue
<1>6. ASSUME UNCHANGED <<ex, uses>>, recorded' \subseteq recorded
      PROVE  (RowsWereUsed /\ RefusalTrue)'
  BY <1>6 DEF RowsWereUsed, RefusalTrue, SameId
<1>7. ASSUME NEW e \in Exchange, ConsumeFails(e) \/ Issue(e) \/ IssueFails(e)
      PROVE  (RowsWereUsed /\ RefusalTrue)'
  BY <1>3, <1>7 DEF ConsumeFails, Issue, IssueFails
<1> QED
  BY <1>1, <1>2, <1>4, <1>5, <1>6, <1>7
     DEF Next, Step, Tick, CleanupBegins, DeleteIds, CreateApp, vars

-----------------------------------------------------------------------------
\* The inductive invariant holds in every reachable state.
THEOREM ExchangeInvariant == Spec => []Inv
<1>1. Inv /\ [Next]_vars => Inv'
  BY TypeStep, KeptStep, InHandStep, TokensStep, RefusalStep DEF Inv
<1> QED  BY InitInv, <1>1, PTL DEF Spec

\* Types are correct: no cleanup works with a time to come.
THEOREM ExchangeTypes == Spec => []TypeOK
<1>1. Inv => TypeOK  BY DEF Inv
<1> QED  BY ExchangeInvariant, <1>1, PTL

\* A JWT that has not expired is exchanged at most once.
THEOREM JwtUsedOnce == Spec => []UsedOnceInTime
<1>1. Inv => UsedOnceInTime  BY DEF Inv, Kept, UsedOnceInTime
<1> QED  BY ExchangeInvariant, <1>1, PTL

\* Tokens belong to the workspace that signed, and end in time.
THEOREM TokensJustified == Spec => [](TokenOfSigner /\ TokenLifeBounded)
<1>1. Inv => TokenOfSigner /\ TokenLifeBounded  BY DEF Inv
<1> QED  BY ExchangeInvariant, <1>1, PTL

\* Who is told that a JWT was used is told the truth.
THEOREM RefusalsTrue == Spec => []RefusalTrue
<1>1. Inv => RefusalTrue  BY DEF Inv
<1> QED  BY ExchangeInvariant, <1>1, PTL
=============================================================================
