---------------------------- MODULE Credentials ----------------------------
(***************************************************************************)
(* Who a request is, and what it may touch: the tables api_keys,           *)
(* oauth_access_tokens and user_sessions of the metadata store, the        *)
(* requests that look their bearer token up in one after the other, and    *)
(* everything that changes the tables meanwhile: login, logout, issue and  *)
(* revocation of keys, the hourly CleanupExpired, a restart.               *)
(*                                                                         *)
(* Tokens are random: a token is issued once, and is in one table at most. *)
(* Memberships are constant here; no code removes one.                     *)
(***************************************************************************)
EXTENDS Integers

CONSTANTS
  Key, OAuth, Session,    \* tokens of the three kinds
  User, Workspace,
  Role,         \* Role[u, w]: "owner", "member" or "none"
  UserOf,       \* UserOf[s]: whose session s is
  WorkspaceOf,  \* WorkspaceOf[t]: what the key or OAuth token t is bound to
  Request,      \* requests in flight at one time
  Never,        \* no expiry, or no use yet
  Absent,       \* no row
  Minute,       \* the granularity of last_used_at
  Lifetime,     \* of a session or OAuth token
  MaxTime       \* bound: the last reading of the clock

Token == Key \union OAuth \union Session
Time  == 0..MaxTime

KeyRow == [expiry : Time \union {Never}, revoked : BOOLEAN]

ASSUME CredentialsAssumption ==
  /\ Key \cap OAuth = {} /\ Key \cap Session = {} /\ OAuth \cap Session = {}
  /\ UserOf \in [Session -> User] /\ WorkspaceOf \in [Key \union OAuth -> Workspace]
  /\ Role \in [User \X Workspace -> {"owner", "member", "none"}]
  /\ Never \notin Nat /\ Absent \notin Nat \union KeyRow /\ Minute \in Nat \ {0} /\ Lifetime \in Nat \ {0} /\ MaxTime \in Nat

VARIABLES
  clock,
  keys,       \* keys[k]: the row of a key, or Absent
  expires,    \* expires[t]: the expiry in the row of an OAuth token or session, or Absent
  issued,     \* tokens that have been in expires
  lastUsed,   \* lastUsed[k]: the column last_used_at
  lastUsedMemory,   \* the map of the process
  req,        \* req[r]: a request and what its handler has in hand
  cleanup,    \* CleanupExpired: the statement it is at, and its now
  ended       \* history: tokens that were revoked or logged out

vars == <<clock, keys, expires, issued, lastUsed, lastUsedMemory, req, cleanup, ended>>

Idle  == [stage |-> "idle"]
Waiting == [stage |-> "waiting"]

Init ==
  /\ clock = 0
  /\ keys = [k \in Key |-> Absent]
  /\ expires = [t \in OAuth \union Session |-> Absent] /\ issued = {}
  /\ lastUsed = [k \in Key |-> Never] /\ lastUsedMemory = [k \in Key |-> Never]
  /\ req = [r \in Request |-> Idle]
  /\ cleanup = [stage |-> "sessions", now |-> 0]
  /\ ended = {}

Tick ==
  /\ clock < MaxTime /\ clock' = clock + 1
  /\ UNCHANGED <<keys, expires, issued, lastUsed, lastUsedMemory, req, cleanup, ended>>

-----------------------------------------------------------------------------
(* Operations that change a table.                                          *)

\* CreateSession of a login, CreateOAuthAccessToken of an exchange; the clock was
\* read, at now, before the row is inserted.
Issue(t, now) ==
  /\ t \notin issued /\ now <= clock
  /\ expires' = [expires EXCEPT ![t] = now + Lifetime]
  /\ issued' = issued \union {t}
  /\ UNCHANGED <<clock, keys, lastUsed, lastUsedMemory, req, cleanup, ended>>

Stored == {t \in OAuth \union Session : expires[t] # Absent}

Delete(rows) ==
  expires' = [t \in OAuth \union Session |-> IF t \in rows THEN Absent ELSE expires[t]]

\* Logout deletes a session, if the token is one, and does not ask whose it is.
Logout(t) ==
  /\ Delete({t} \cap Session)
  /\ ended' = ended \union ({t} \cap Session \cap Stored)
  /\ UNCHANGED <<clock, keys, issued, lastUsed, lastUsedMemory, req, cleanup>>

-----------------------------------------------------------------------------
(* CleanupExpired: DELETE statements one after the other, all with the time  *)
(* at which the call began.  (The third is in OAuthExchange.)               *)

CleanupBegins ==
  /\ cleanup = Waiting
  /\ cleanup' = [stage |-> "sessions", now |-> clock]
  /\ UNCHANGED <<clock, keys, expires, issued, lastUsed, lastUsedMemory, req, ended>>

\* Mistake: an hour is allowed for, in the wrong direction.
ExpiredSoon(table) == {t \in table \cap Stored : expires[t] <= cleanup.now + 1}

Expired(table) == {t \in table \cap Stored : expires[t] <= cleanup.now}

DeleteSessions ==
  /\ cleanup.stage = "sessions" /\ Delete(Expired(Session))
  /\ cleanup' = [cleanup EXCEPT !.stage = "tokens"]
  /\ UNCHANGED <<clock, keys, issued, lastUsed, lastUsedMemory, req, ended>>

DeleteTokens ==
  /\ cleanup.stage = "tokens" /\ Delete(Expired(OAuth))
  /\ cleanup' = Waiting
  /\ UNCHANGED <<clock, keys, issued, lastUsed, lastUsedMemory, req, ended>>

\* A statement fails: the rest is left for the next hour, the error is ignored.
CleanupFails ==
  /\ cleanup # Waiting /\ cleanup' = Waiting
  /\ UNCHANGED <<clock, keys, expires, issued, lastUsed, lastUsedMemory, req, ended>>

-----------------------------------------------------------------------------
(* Authenticate, then the workspace of the request.                         *)

Becomes(r, next) == req' = [req EXCEPT ![r] = next]
Stays == UNCHANGED <<clock, keys, expires, issued, lastUsed, lastUsedMemory, cleanup, ended>>

\* A request that the tables know, at some stage, with nothing else in hand; a refused
\* one is over.
Known(r, stage) == [req[r] EXCEPT !.stage = stage, !.now = Never, !.row = Absent, !.last = Never]

Arrive(r, t) ==
  /\ req[r] = Idle
  /\ Becomes(r, [stage |-> "keys", tok |-> t, began |-> clock, late |-> t \in ended,
                 now |-> Never, row |-> Absent, last |-> Never, ws |-> Absent, kind |-> "none"])
  /\ Stays

\* SELECT ... FROM api_keys; on no row the time for the next lookup is read.
LookupKey(r) ==
  /\ req[r].stage = "keys"
  /\ LET t == req[r].tok
     IN  IF t \in Key /\ keys[t] # Absent
         THEN Becomes(r, [req[r] EXCEPT !.stage = "check", !.row = keys[t], !.last = lastUsed[t]])
         ELSE Becomes(r, [req[r] EXCEPT !.stage = "oauth", !.now = clock])
  /\ Stays

LookupOAuth(r) ==
  /\ req[r].stage = "oauth"
  /\ LET t == req[r].tok
     IN  Becomes(r, IF t \in OAuth \cap Stored /\ expires[t] > req[r].now
                    THEN Known(r, "workspace")
                    ELSE [req[r] EXCEPT !.stage = "session", !.now = clock])
  /\ Stays

\* Mistake: a session lives on through the last instant of a key.
SessionAtExpiry(r) == LET t == req[r].tok
  IN t \in Session \cap Stored /\ expires[t] >= req[r].now

SessionFound(r) == LET t == req[r].tok
  IN t \in Session \cap Stored /\ expires[t] > req[r].now

LookupSession(r) ==
  /\ req[r].stage = "session"
  /\ Becomes(r, IF SessionFound(r) THEN Known(r, "workspace") ELSE Idle)
  /\ Stays

\* Mistake: a revoked key that has not expired is good.
UnexpiredKey(row) == row.expiry = Never \/ row.expiry >= clock

\* A key is good up to and including its expiry.
GoodKey(row) == ~row.revoked /\ (row.expiry = Never \/ row.expiry >= clock)

CheckKey(r) ==
  /\ req[r].stage = "check"
  /\ Becomes(r, IF GoodKey(req[r].row)
                THEN [req[r] EXCEPT !.stage = "touch", !.now = clock, !.row = Absent] ELSE Idle)
  /\ Stays

\* Mistake: the column that was read with the key is compared, not the map.
DueByRow(r) == LET last == req[r].last
  IN last = Never \/ req[r].now - last >= Minute

Due(r) == LET last == lastUsedMemory[req[r].tok]
  IN last = Never \/ req[r].now - last >= Minute

\* Under lastUsedMu.
TouchMemory(r) ==
  /\ req[r].stage = "touch"
  /\ IF Due(r)
     THEN /\ lastUsedMemory' = [lastUsedMemory EXCEPT ![req[r].tok] = req[r].now]
          /\ Becomes(r, [req[r] EXCEPT !.stage = "store", !.last = Never])
     ELSE Becomes(r, Known(r, "workspace")) /\ UNCHANGED lastUsedMemory
  /\ UNCHANGED <<clock, keys, expires, issued, lastUsed, cleanup, ended>>

\* UPDATE api_keys SET last_used_at; its error is ignored.
StoreLastUsed(r) ==
  /\ req[r].stage = "store"
  /\ \/ lastUsed' = [lastUsed EXCEPT ![req[r].tok] = req[r].now]
     \/ UNCHANGED lastUsed
  /\ Becomes(r, Known(r, "workspace"))
  /\ UNCHANGED <<clock, keys, expires, issued, lastUsedMemory, cleanup, ended>>

\* UserCanAccessWorkspace, WorkspaceMemberRole.
IsMember(u, w) == Role[u, w] # "none"
IsOwner(u, w)  == Role[u, w] = "owner"

\* workspaceForRequest: a key has its workspace; a session names one in the header.
MayAccess(t, w) == IF t \in Session THEN IsMember(UserOf[t], w) ELSE WorkspaceOf[t] = w

\* requireUser and requireWorkspaceOwnerID, for keys, OAuth apps and statistics.
MayManage(t, w) == t \in Session /\ MayAccess(t, w) /\ IsOwner(UserOf[t], w)

Serve(r, w, kind) ==
  /\ req[r].stage = "workspace"
  /\ LET granted == IF kind = "data" THEN MayAccess(req[r].tok, w) ELSE MayManage(req[r].tok, w)
     IN  Becomes(r, IF granted
                    THEN [req[r] EXCEPT !.stage = "served", !.ws = w, !.kind = kind] ELSE Idle)
  /\ Stays

\* CreateAPIKey, RevokeAPIKey.
StoreKey(k, expiry) == keys' = [keys EXCEPT ![k] = [expiry |-> expiry, revoked |-> FALSE]]
Revoke(k) == keys' = [keys EXCEPT ![k].revoked = TRUE] /\ ended' = ended \union {k}

\* createUserWorkspaceKey: an expiry has to be later than a reading of the clock.
CreateKey(r, k, expiry, now) ==
  /\ req[r].stage = "served" /\ req[r].kind = "manage" /\ WorkspaceOf[k] = req[r].ws
  /\ keys[k] = Absent
  /\ now <= clock /\ (expiry # Never => expiry > now)
  /\ StoreKey(k, expiry)
  /\ Becomes(r, Idle)
  /\ UNCHANGED <<clock, expires, issued, lastUsed, lastUsedMemory, cleanup, ended>>

\* revokeUserWorkspaceKey: the key is read, then updated; nothing takes rows away between.
RevokeKey(r, k) ==
  /\ req[r].stage = "served" /\ req[r].kind = "manage"
  /\ keys[k] # Absent /\ WorkspaceOf[k] = req[r].ws
  /\ Revoke(k)
  /\ Becomes(r, Idle)
  /\ UNCHANGED <<clock, expires, issued, lastUsed, lastUsedMemory, cleanup>>

Done(r) ==
  /\ req[r].stage = "served"
  /\ Becomes(r, Idle)
  /\ Stays

\* The process ends and starts again: the map is empty, cleanup runs at once.
Restart ==
  /\ lastUsedMemory' = [k \in Key |-> Never]
  /\ req' = [r \in Request |-> Idle]
  /\ cleanup' = [stage |-> "sessions", now |-> clock]
  /\ UNCHANGED <<clock, keys, expires, issued, lastUsed, ended>>

Handle(r) ==
  \/ \E t \in Token : Arrive(r, t)
  \/ LookupKey(r) \/ LookupOAuth(r) \/ LookupSession(r)
  \/ CheckKey(r) \/ TouchMemory(r) \/ StoreLastUsed(r)
  \/ \E w \in Workspace, kind \in {"data", "manage"} : Serve(r, w, kind)
  \/ \E k \in Key, expiry \in Time \union {Never}, now \in Time : CreateKey(r, k, expiry, now)
  \/ \E k \in Key : RevokeKey(r, k)
  \/ Done(r)

Cleanup == CleanupBegins \/ DeleteSessions \/ DeleteTokens \/ CleanupFails

Next ==
  \/ Tick \/ Cleanup \/ Restart
  \/ \E t \in OAuth \union Session, now \in Time : Issue(t, now)
  \/ \E t \in Token : Logout(t)
  \/ \E r \in Request : Handle(r)

Spec == Init /\ [][Next]_vars

-----------------------------------------------------------------------------
Served(r) == req[r].stage = "served"

\* A key that was revoked and a session that was logged out are of no use to any request
\* that arrives afterwards, although Authenticate takes several reads and keeps a cache.
EndedStaysOut == \A r \in Request : Served(r) => ~req[r].late

\* A request is served only if its token had not expired when it arrived: the times that
\* the lookups compare with are read later, and cleanup is not needed for it.
ServedUnexpired ==
  \A r \in Request : Served(r) =>
    IF req[r].tok \in Key
    THEN LET expiry == keys[req[r].tok].expiry IN expiry = Never \/ expiry >= req[r].began
    ELSE req[r].tok \in Stored => expires[req[r].tok] > req[r].began

\* Cleanup takes nothing that could authenticate from now on: a row disappears by logout, or
\* when no lookup that reads the clock from then on would accept it.  One that has read it
\* before might still have.
CleanupHarmless ==
  [][\A t \in DOMAIN expires :
       expires[t] # Absent /\ expires'[t] = Absent => t \in ended' \/ expires[t] <= clock]_vars

\* However many requests use a key at once, two UPDATEs of last_used_at that one process
\* has under way write times a minute apart, and the column is never ahead of the map.
TouchesSpaced ==
  /\ \A q, r \in Request :
       /\ q # r /\ req[q].stage = "store" /\ req[r].stage = "store" /\ req[q].tok = req[r].tok
       => req[q].now + Minute <= req[r].now \/ req[r].now + Minute <= req[q].now
  /\ \A k \in Key : lastUsed[k] # Never /\ lastUsedMemory[k] # Never
                     => lastUsed[k] <= lastUsedMemory[k]
=============================================================================
