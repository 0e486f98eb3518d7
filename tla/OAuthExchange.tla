--------------------------- MODULE OAuthExchange ---------------------------
(***************************************************************************)
(* POST /api/permission/oauth2/token: a client exchanges a JWT that it     *)
(* signed for an access token.  oauthToken reads the app of the client,    *)
(* verifies the JWT, records its id in oauth_jti and stores a token, in    *)
(* statements of their own.  CleanupExpired deletes the ids of expired     *)
(* JWTs meanwhile.  A client may send one JWT as often as it likes.        *)
(***************************************************************************)
EXTENDS Integers, FiniteSets

CONSTANTS
  Jwt,        \* JWTs that clients sign
  Client,
  Workspace,  \* each has a key pair of its own
  ClientOf,   \* ClientOf[j]: the issuer of j
  SignedFor,  \* SignedFor[j]: the workspace whose private key signed j
  Id,         \* Id[j]: the claim jti; a client may use one twice
  Exp,        \* Exp[j]: the claim exp
  Exchange,   \* requests in flight at one time
  Absent, Disabled,   \* no app; one that was created with enabled = false
  Leeway,     \* how long after exp a JWT is still valid
  DefaultDuration, Least, Most,   \* duration_seconds: when 0, and its limits
  Duration,   \* the values of duration_seconds that clients send
  MaxTime,    \* bound: the last reading of the clock
  MaxUses     \* bound: clients stop to send a JWT that was recorded so often

Time == 0..MaxTime

ASSUME ExchangeAssumption ==
  /\ ClientOf \in [Jwt -> Client] /\ SignedFor \in [Jwt -> Workspace]
  /\ Exp \in [Jwt -> Nat] /\ Leeway \in Nat /\ MaxTime \in Nat /\ MaxUses \in Nat
  /\ Least \in Nat \ {0} /\ Most \in Nat /\ DefaultDuration \in Least..Most
  /\ Duration \subseteq Int /\ Absent \notin Workspace \union {Disabled} /\ Disabled \notin Workspace

VARIABLES
  clock,
  apps,       \* apps[c]: the app of client c, as its workspace and key; Disabled or Absent
  recorded,   \* the rows of oauth_jti, by the JWT that brought them
  tokens,     \* the rows of oauth_access_tokens, with the JWT they were stored for
  ex,         \* ex[e]: an exchange
  cleanup,    \* CleanupExpired: the now of the call whose third DELETE is to come
  uses,       \* history: uses[j], how often j was recorded,
  timely      \* and how often before it expired

vars == <<clock, apps, recorded, tokens, ex, cleanup, uses, timely>>

Idle == [stage |-> "idle"]
Answered == [stage : {"answered"}, jwt : Jwt,
             answer : {"refused", "already used", "server error", "token"}]
Pending == [stage : {"consume", "issue"}, jwt : Jwt, now : Time, duration : Least..Most,
            ws : Workspace]

Init ==
  /\ clock = 0
  /\ apps = [c \in Client |-> Absent]
  /\ recorded = {} /\ tokens = {}
  /\ ex = [e \in Exchange |-> Idle]
  /\ cleanup = 0
  /\ uses = [j \in Jwt |-> 0] /\ timely = uses

Tick ==
  /\ clock < MaxTime /\ clock' = clock + 1
  /\ UNCHANGED <<apps, recorded, tokens, ex, cleanup, uses, timely>>

\* createOAuthApp, of an owner of w.  The client id is unique over all workspaces: a second
\* registration is answered with 409.
CreateApp(c, app) ==
  /\ apps[c] = Absent
  /\ apps' = [apps EXCEPT ![c] = app]
  /\ UNCHANGED <<clock, recorded, tokens, ex, cleanup, uses, timely>>

-----------------------------------------------------------------------------
(* One exchange.                                                            *)

Granted(d) == IF d = 0 THEN DefaultDuration ELSE d

\* Mistake: the issuer is compared, the key is not.
VerifiedByIssuer(j, now) == now < Exp[j] + Leeway

\* verifyJWT: the signature by the key of the app, the issuer, exp with its leeway.
Verified(j, now) == SignedFor[j] = apps[ClientOf[j]] /\ now < Exp[j] + Leeway

\* From the request body to the check of the duration; what fails has changed nothing.
Ask(e, j, d) ==
  /\ ex[e].stage \in {"idle", "answered"} /\ uses[j] < MaxUses
  /\ ex' = [ex EXCEPT ![e] =
       IF apps[ClientOf[j]] \notin Workspace \/ ~Verified(j, clock) \/ Granted(d) \notin Least..Most
       THEN [stage |-> "answered", jwt |-> j, answer |-> "refused"]
       ELSE [stage |-> "consume", jwt |-> j, now |-> clock, duration |-> Granted(d),
             ws |-> apps[ClientOf[j]]]]
  /\ UNCHANGED <<clock, apps, recorded, tokens, cleanup, uses, timely>>

Answers(e, answer) ==
  ex' = [ex EXCEPT ![e] = [stage |-> "answered", jwt |-> ex[e].jwt, answer |-> answer]]

SameId(i, j) == ClientOf[i] = ClientOf[j] /\ Id[i] = Id[j]

\* The unique index (client_id, jti).
Recorded(j) == \E i \in recorded : SameId(i, j)

\* ConsumeOAuthJTI.
Consume(e) ==
  /\ ex[e].stage = "consume" /\ ~Recorded(ex[e].jwt)
  /\ LET j == ex[e].jwt
     IN  /\ recorded' = recorded \union {j}
         /\ uses' = [uses EXCEPT ![j] = @ + 1]
         /\ timely' = [timely EXCEPT ![j] = IF clock < Exp[j] THEN @ + 1 ELSE @]
  /\ ex' = [ex EXCEPT ![e].stage = "issue"]
  /\ UNCHANGED <<clock, apps, tokens, cleanup>>

AlreadyUsed(e) ==
  /\ ex[e].stage = "consume" /\ Recorded(ex[e].jwt)
  /\ Answers(e, "already used")
  /\ UNCHANGED <<clock, apps, recorded, tokens, cleanup, uses, timely>>

ConsumeFails(e) ==
  /\ ex[e].stage = "consume"
  /\ Answers(e, "server error")
  /\ UNCHANGED <<clock, apps, recorded, tokens, cleanup, uses, timely>>

\* The token's life began when the JWT was verified.
Token(e) == [jwt |-> ex[e].jwt, ws |-> ex[e].ws, expires |-> ex[e].now + ex[e].duration]

\* CreateOAuthAccessToken.
Issue(e) ==
  /\ ex[e].stage = "issue"
  /\ tokens' = tokens \union {Token(e)}
  /\ Answers(e, "token")
  /\ UNCHANGED <<clock, apps, recorded, cleanup, uses, timely>>

\* Mistake: the client is told to try again, and the id is given back.
IssueFailsGivingBack(e) ==
  /\ ex[e].stage = "issue"
  /\ recorded' = recorded \ {ex[e].jwt}
  /\ Answers(e, "server error")
  /\ UNCHANGED <<clock, apps, tokens, cleanup, uses, timely>>

\* The token cannot be made or stored; the JWT stays recorded.
IssueFails(e) ==
  /\ ex[e].stage = "issue"
  /\ Answers(e, "server error")
  /\ UNCHANGED <<clock, apps, recorded, tokens, cleanup, uses, timely>>

-----------------------------------------------------------------------------
CleanupBegins ==
  /\ cleanup' = clock
  /\ UNCHANGED <<clock, apps, recorded, tokens, ex, uses, timely>>

\* The third DELETE of CleanupExpired.  Access tokens are deleted by the second one, in Credentials.
DeleteIds ==
  /\ recorded' = {j \in recorded : Exp[j] > cleanup}
  /\ UNCHANGED <<clock, apps, tokens, ex, cleanup, uses, timely>>

\* The process ends and starts again, with a cleanup; requests get no answer.
Restart ==
  /\ ex' = [e \in Exchange |-> Idle]
  /\ cleanup' = clock
  /\ UNCHANGED <<clock, apps, recorded, tokens, uses, timely>>

Step(e) ==
  \/ \E j \in Jwt, d \in Duration : Ask(e, j, d)
  \/ Consume(e) \/ AlreadyUsed(e) \/ ConsumeFails(e)
  \/ Issue(e) \/ IssueFails(e)

Next ==
  \/ Tick \/ CleanupBegins \/ DeleteIds \/ Restart
  \/ \E c \in Client, app \in Workspace \union {Disabled} : CreateApp(c, app)
  \/ \E e \in Exchange : Step(e)

Spec == Init /\ [][Next]_vars

-----------------------------------------------------------------------------
\* The types; no call of CleanupExpired works with a time that is still to come.
TypeOK ==
  /\ clock \in Time /\ cleanup \in 0..clock
  /\ apps \in [Client -> Workspace \union {Absent, Disabled}]
  /\ recorded \subseteq Jwt
  /\ uses \in [Jwt -> Nat] /\ timely \in [Jwt -> Nat]
  /\ ex \in [Exchange -> {Idle} \union Answered \union Pending]

\* Until it expires a JWT is exchanged at most once, whatever requests send it at the same
\* time, statements fail and cleanups run.  (JwtOnce says what does not hold.)
UsedOnceInTime == \A j \in Jwt : timely[j] <= 1

\* However long the statements take, a token ends at most Most after the JWT does.
TokenLifeBounded == \A t \in tokens : t.expires < Exp[t.jwt] + Leeway + Most

\* A token opens the workspace whose key signed its JWT, although two workspaces may try to
\* register one client id.
TokenOfSigner == \A t \in tokens : SignedFor[t.jwt] = t.ws

\* "JWT has already been used" is said only if a JWT with its id was.
RefusalTrue ==
  \A e \in Exchange :
    ex[e].stage = "answered" /\ ex[e].answer = "already used"
      => \E i \in Jwt : SameId(i, ex[e].jwt) /\ uses[i] > 0

\* What ErrAlreadyUsed is for: a JWT is used once.
JwtOnce == \A j \in Jwt : uses[j] <= 1
=============================================================================
