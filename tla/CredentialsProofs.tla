-------------------------- MODULE CredentialsProofs --------------------------
(***************************************************************************)
(* Who is let in, for any number of tokens, users, workspaces and          *)
(* overlapping requests, and for any readings of the clock.                *)
(***************************************************************************)
EXTENDS Credentials, TLAPS

Lookups == {"keys", "oauth", "session"}
Stages  == Lookups \union {"check", "touch", "store", "workspace", "served"}

Busy == [stage : Stages, tok : Token, began : Nat, late : BOOLEAN, now : Nat \union {Never},
         row : KeyRow \union {Absent}, last : Nat \union {Never},
         ws : Workspace \union {Absent}, kind : {"data", "manage", "none"}]

CredTypeOK ==
  /\ clock \in Nat
  /\ keys \in [Key -> KeyRow \union {Absent}]
  /\ expires \in [OAuth \union Session -> Nat \union {Absent}]
  /\ issued \subseteq OAuth \union Session /\ ended \subseteq Token
  /\ lastUsed \in [Key -> Nat \union {Never}]
  /\ lastUsedMemory \in [Key -> Nat \union {Never}]
  /\ req \in [Request -> Busy \union {Idle}]
  /\ cleanup \in [stage : {"sessions", "tokens"}, now : Nat] \union {Waiting}

\* What was revoked stays revoked, what was logged out is never there again.
Gone(t) ==
  IF t \in Key THEN keys[t] # Absent /\ keys[t].revoked = TRUE
  ELSE t \in Session \cap issued /\ expires[t] = Absent

\* What the tables say of each other and of the clock.
Tables ==
  /\ \A t \in OAuth \union Session : expires[t] # Absent => t \in issued
  /\ \A t \in ended : Gone(t)
  /\ \A k \in Key : lastUsed[k] # Never => lastUsed[k] <= clock
  /\ cleanup # Waiting => cleanup.now <= clock

\* The expiry of a token that was let in, if it has a row.
InTime(t, began) ==
  IF t \in Key THEN keys[t] # Absent /\ (keys[t].expiry = Never \/ keys[t].expiry >= began)
  ELSE t \in issued /\ (expires[t] # Absent => expires[t] > began)

\* A token that had ended when its request came is still looked for, or its key is revoked.
LateWaits(q) ==
  q.late => /\ q.tok \in ended /\ q.stage \in Lookups \union {"check"}
            /\ q.stage = "check" => q.row.revoked = TRUE

\* What a request has in hand at each stage.
InHand(q) ==
  /\ q.began <= clock
  /\ q.stage \in {"oauth", "session"} => q.now \in Nat /\ q.began <= q.now
  /\ q.stage = "check" =>
       /\ q.tok \in Key /\ keys[q.tok] # Absent
       /\ q.row \in KeyRow /\ q.row.expiry = keys[q.tok].expiry
  /\ q.stage \in {"touch", "store", "workspace", "served"} => InTime(q.tok, q.began)

\* The two steps in which the last use is stored.
Touches(q) ==
  /\ q.stage \in {"touch", "store"} => q.tok \in Key /\ q.now \in Nat /\ q.now <= clock
  /\ q.stage = "touch" /\ lastUsedMemory[q.tok] = Never /\ lastUsed[q.tok] # Never
       => lastUsed[q.tok] <= q.now
  /\ q.stage = "store" => lastUsedMemory[q.tok] # Never /\ q.now <= lastUsedMemory[q.tok]

Good(q) == q # Idle => LateWaits(q) /\ InHand(q) /\ Touches(q)

CInv ==
  /\ CredTypeOK /\ Tables
  /\ \A r \in Request : Good(req[r])
  /\ TouchesSpaced

-----------------------------------------------------------------------------
(* Requests that do not move.                                               *)

\* Whatever happens without a restart: time goes on, what was ended or issued stays so, a key
\* keeps its expiry, a row its time as long as it is there, and the memory only learns.
Evolves ==
  /\ clock <= clock' /\ ended \subseteq ended' /\ issued \subseteq issued'
  /\ \A k \in Key : keys[k] # Absent => keys'[k] # Absent /\ keys'[k].expiry = keys[k].expiry
  /\ \A t \in issued : expires'[t] \in {expires[t], Absent}
  /\ \A k \in Key :
       IF lastUsedMemory'[k] = Never
       THEN lastUsedMemory[k] = Never /\ lastUsed'[k] = lastUsed[k]
       ELSE lastUsedMemory[k] = Never \/ lastUsedMemory[k] <= lastUsedMemory'[k]

\* A request that is not at work keeps what it knows.
LEMMA Keeps ==
  ASSUME CredTypeOK, CredTypeOK', Evolves, CredentialsAssumption,
         NEW r \in Request, Good(req[r]), req'[r] = req[r]
  PROVE  Good(req[r])'
<1>1. CASE req[r] = Idle
  BY <1>1 DEF Good
<1>2. CASE req[r] # Idle
  <2> DEFINE q == req[r]
  <2>1. q \in Busy
    BY <1>2 DEF CredTypeOK
  <2>2. /\ q.tok \in Token /\ q.began \in Nat /\ clock \in Nat /\ clock' \in Nat
        /\ q.stage \in Stages /\ q.now \in Nat \union {Never}
    BY <2>1 DEF Busy, CredTypeOK
  <2>3. LateWaits(q) /\ InHand(q) /\ Touches(q)
    BY <1>2 DEF Good
  <2>4. LateWaits(q)'
    BY <2>3 DEF LateWaits, Evolves
  <2>5. InTime(q.tok, q.began) => InTime(q.tok, q.began)'
    BY <2>2 DEF InTime, Evolves
  <2>6. InHand(q)'
    BY <2>2, <2>3, <2>5 DEF InHand, Evolves
  <2>7. Touches(q)'
    <3>1. CASE q.stage \in {"touch", "store"}
      <4>1. /\ q.tok \in Key /\ q.now \in Nat /\ q.now <= clock
        BY <2>3, <3>1 DEF Touches
      <4>2. /\ lastUsedMemory[q.tok] \in Nat \union {Never}
            /\ lastUsedMemory'[q.tok] \in Nat \union {Never}
        BY <4>1 DEF CredTypeOK
      <4> QED
        BY <2>2, <2>3, <3>1, <4>1, <4>2 DEF Touches, Evolves, CredentialsAssumption
    <3>2. CASE q.stage \notin {"touch", "store"}
      BY <3>2 DEF Touches
    <3> QED
      BY <3>1, <3>2
  <2> QED
    BY <2>4, <2>6, <2>7 DEF Good
<1> QED
  BY <1>1, <1>2

-----------------------------------------------------------------------------
(* Steps of the tables.                                                     *)

\* Nothing has happened yet.
LEMMA CredInit == ASSUME CredentialsAssumption, Init PROVE CInv
<1>1. CredTypeOK
  BY DEF Init, CredTypeOK
<1>2. Tables
  BY DEF Init, Tables, Waiting
<1>3. /\ \A r \in Request : req[r] = Idle
      /\ \A k \in Key : lastUsed[k] = Never
  BY DEF Init
<1>4. TouchesSpaced
  BY <1>3 DEF TouchesSpaced, Idle
<1> QED
  BY <1>1, <1>2, <1>3, <1>4 DEF CInv, Good

\* When no request moves, and neither the last uses nor the keys change.
LEMMA RequestsRest ==
  ASSUME CInv, CredentialsAssumption, CredTypeOK', Tables', UNCHANGED <<keys, lastUsed, lastUsedMemory, req>>,
         clock <= clock', ended \subseteq ended', issued \subseteq issued',
         \A t \in issued : expires'[t] \in {expires[t], Absent}
  PROVE  CInv'
<1>1. Evolves
  <2>1. \A k \in Key : lastUsedMemory[k] \in Nat \union {Never}
    BY DEF CInv, CredTypeOK
  <2> QED
    BY <2>1 DEF Evolves
<1>2. \A r \in Request : Good(req[r])'
  BY <1>1, Keeps DEF CInv
<1>3. TouchesSpaced'
  BY DEF CInv, TouchesSpaced
<1> QED
  BY <1>2, <1>3 DEF CInv

\* The clock advances.
LEMMA TickKeeps == ASSUME CInv, CredentialsAssumption, Tick PROVE CInv'
<1>1. /\ clock \in Nat /\ clock' = clock + 1
      /\ UNCHANGED <<keys, expires, issued, lastUsed, lastUsedMemory, req, cleanup, ended>>
  BY DEF Tick, CInv, CredTypeOK
<1>2. CredTypeOK'
  BY <1>1 DEF CInv, CredTypeOK
<1>3. Tables'
  <2>1. /\ \A k \in Key : lastUsed[k] \in Nat \union {Never}
        /\ cleanup # Waiting => cleanup.now \in Nat
    BY DEF CInv, CredTypeOK
  <2> QED
    BY <1>1, <2>1 DEF CInv, Tables, Gone
<1> QED
  BY <1>1, <1>2, <1>3, RequestsRest

\* A token that was never issued has not ended either.
LEMMA IssueKeeps ==
  ASSUME CInv, CredentialsAssumption, NEW t \in OAuth \union Session, NEW now \in Time, Issue(t, now)
  PROVE  CInv'
<1>1. /\ t \notin issued /\ now \in Nat /\ clock \in Nat /\ issued' = issued \union {t}
      /\ expires' = [expires EXCEPT ![t] = now + Lifetime] /\ now + Lifetime \in Nat
      /\ UNCHANGED <<clock, keys, lastUsed, lastUsedMemory, req, cleanup, ended>>
  BY DEF Issue, CInv, CredTypeOK, Time, CredentialsAssumption
<1>2. CredTypeOK'
  BY <1>1 DEF CInv, CredTypeOK
<1>3. \A s \in OAuth \union Session : expires'[s] = IF s = t THEN now + Lifetime ELSE expires[s]
  BY <1>1 DEF CInv, CredTypeOK
<1>4. Tables'
  <2>1. \A s \in ended : Gone(s)'
    <3> SUFFICES ASSUME NEW s \in ended PROVE Gone(s)'
      OBVIOUS
    <3>1. Gone(s) /\ s \in Token
      BY DEF CInv, CredTypeOK, Tables
    <3> QED
      BY <1>1, <1>3, <3>1 DEF Gone, Token
  <2> QED
    BY <1>1, <1>3, <2>1 DEF CInv, Tables
<1>5. \A s \in issued : expires'[s] \in {expires[s], Absent}
  BY <1>1, <1>3 DEF CInv, CredTypeOK
<1> QED
  BY <1>1, <1>2, <1>4, <1>5, RequestsRest

\* Rows of expires are deleted.
LEMMA DeleteKeeps ==
  ASSUME CInv, CredentialsAssumption, NEW rows, Delete(rows), CredTypeOK', cleanup' # Waiting => cleanup'.now <= clock,
         ended \subseteq ended',
         \A t \in ended' \ ended : t \in Session /\ t \in rows /\ expires[t] # Absent,
         UNCHANGED <<clock, keys, issued, lastUsed, lastUsedMemory, req>>
  PROVE  CInv'
<1>1. \A t \in OAuth \union Session : expires'[t] = IF t \in rows THEN Absent ELSE expires[t]
  BY DEF Delete
<1>2. Tables'
  <2>1. \A s \in ended' : Gone(s)'
    <3> SUFFICES ASSUME NEW s \in ended' PROVE Gone(s)'
      OBVIOUS
    <3>1. CASE s \in ended
      <4>1. Gone(s) /\ s \in Token
        BY <3>1 DEF CInv, CredTypeOK, Tables
      <4> QED
        BY <1>1, <4>1 DEF Gone
    <3>2. CASE s \notin ended
      <4>1. s \in Session /\ s \in issued /\ expires'[s] = Absent
        BY <1>1, <3>2 DEF CInv, Tables
      <4> QED
        BY <4>1 DEF Gone, CredentialsAssumption
    <3> QED
      BY <3>1, <3>2
  <2>2. \A t \in OAuth \union Session : expires'[t] # Absent => t \in issued'
    BY <1>1 DEF CInv, Tables
  <2>3. \A k \in Key : lastUsed'[k] # Never => lastUsed'[k] <= clock'
    BY DEF CInv, Tables
  <2> QED
    BY <2>1, <2>2, <2>3 DEF Tables
<1>3. \A t \in issued : expires'[t] \in {expires[t], Absent}
  BY <1>1 DEF CInv, CredTypeOK
<1> QED
  BY <1>2, <1>3, RequestsRest DEF CInv, CredTypeOK

\* Logout and the statements of CleanupExpired.
LEMMA TablesKeep ==
  ASSUME CInv, CredentialsAssumption, Cleanup \/ \E t \in Token : Logout(t)
  PROVE  CInv'
<1>1. CASE \E t \in Token : Logout(t)
  <2>1. PICK t \in Token : Logout(t)
    BY <1>1
  <2>2. /\ Delete({t} \cap Session) /\ ended' = ended \union ({t} \cap Session \cap Stored)
        /\ UNCHANGED <<clock, keys, issued, lastUsed, lastUsedMemory, req, cleanup>>
    BY <2>1 DEF Logout
  <2>3. CredTypeOK'
    BY <2>2 DEF CInv, CredTypeOK, Delete
  <2>4. /\ ended \subseteq ended' /\ cleanup' # Waiting => cleanup'.now <= clock
        /\ \A s \in ended' \ ended : s \in Session /\ s \in {t} \cap Session /\ expires[s] # Absent
    BY <2>2 DEF Stored, CInv, Tables
  <2> QED
    BY <2>2, <2>3, <2>4, DeleteKeeps
<1>2. CASE DeleteSessions \/ DeleteTokens
  <2>1. PICK rows : /\ Delete(rows) /\ UNCHANGED <<clock, keys, issued, lastUsed, lastUsedMemory, req, ended>>
                    /\ cleanup # Waiting /\ cleanup' \in {[cleanup EXCEPT !.stage = "tokens"], Waiting}
    BY <1>2 DEF DeleteSessions, DeleteTokens, Waiting
  <2>2. cleanup \in [stage : {"sessions", "tokens"}, now : Nat] /\ cleanup.now <= clock
    BY <2>1 DEF CInv, CredTypeOK, Tables
  <2>3. CredTypeOK'
    BY <2>1, <2>2 DEF CInv, CredTypeOK, Delete
  <2>4. cleanup' # Waiting => cleanup'.now <= clock
    BY <2>1, <2>2
  <2> QED
    BY <2>1, <2>3, <2>4, DeleteKeeps
<1>3. CASE CleanupBegins \/ CleanupFails
  <2>1. /\ UNCHANGED <<clock, keys, expires, issued, lastUsed, lastUsedMemory, req, ended>>
        /\ cleanup' \in {[stage |-> "sessions", now |-> clock], Waiting} /\ clock \in Nat
    BY <1>3 DEF CleanupBegins, CleanupFails, CInv, CredTypeOK
  <2>2. CredTypeOK'
    BY <2>1 DEF CInv, CredTypeOK
  <2>3. Tables'
    BY <2>1 DEF CInv, Tables, Gone
  <2>4. \A t \in issued : expires'[t] \in {expires[t], Absent}
    BY <2>1
  <2> QED
    BY <2>1, <2>2, <2>3, <2>4, RequestsRest
<1> QED
  BY <1>1, <1>2, <1>3 DEF Cleanup

-----------------------------------------------------------------------------
(* Steps of a request.                                                      *)

\* A request moves, the others do not.
LEMMA MovesKeep ==
  ASSUME CInv, CredentialsAssumption, NEW r \in Request, Good(req[r])',
         \A d \in Request \ {r} : req'[d] = req[d],
         CredTypeOK', Tables', Evolves, TouchesSpaced'
  PROVE  CInv'
<1>1. \A d \in Request : Good(req[d])'
  BY Keeps DEF CInv
<1> QED
  BY <1>1 DEF CInv

\* And changes nothing else.
LEMMA StaysKeep ==
  ASSUME CInv, CredentialsAssumption, NEW r \in Request, NEW new \in Busy \union {Idle},
         Becomes(r, new), Stays, Good(new), new.stage # "store"
  PROVE  CInv'
<1>1. UNCHANGED <<clock, keys, expires, issued, lastUsed, lastUsedMemory, cleanup, ended>>
  BY DEF Stays
<1>2. req'[r] = new /\ \A d \in Request \ {r} : req'[d] = req[d]
  BY DEF Becomes, CInv, CredTypeOK
<1>3. Good(new)' /\ req'[r] = new
  BY <1>1, <1>2 DEF Good, LateWaits, InHand, InTime, Touches
<1>4. CredTypeOK' /\ Tables'
  BY <1>1 DEF CInv, CredTypeOK, Tables, Gone, Becomes
<1>5. Evolves
  <2>1. \A k \in Key : lastUsedMemory[k] \in Nat \union {Never}
    BY DEF CInv, CredTypeOK
  <2> QED
    BY <1>1, <2>1 DEF Evolves, CInv, CredTypeOK
<1>6. TouchesSpaced'
  BY <1>1, <1>2 DEF TouchesSpaced, CInv
<1> QED
  BY <1>2, <1>3, <1>4, <1>5, <1>6, MovesKeep

\* What is known of a request that is not idle.
LEMMA BusyNow ==
  ASSUME CInv, NEW r \in Request, req[r].stage # "idle"
  PROVE  /\ req[r] \in Busy /\ LateWaits(req[r]) /\ InHand(req[r]) /\ Touches(req[r])
<1>1. req[r] # Idle
  BY DEF Idle
<1> QED
  BY <1>1 DEF CInv, CredTypeOK, Good

\* Idle is good.
LEMMA IdleGood == Good(Idle) /\ Good(Idle)' /\ Idle.stage # "store"
BY DEF Good, Idle

\* A request arrives with whatever token; if that has ended, it is late.
LEMMA ArriveKeeps ==
  ASSUME CInv, CredentialsAssumption, NEW r \in Request, NEW t \in Token, Arrive(r, t)
  PROVE  CInv'
<1> DEFINE new == [stage |-> "keys", tok |-> t, began |-> clock, late |-> t \in ended,
                   now |-> Never, row |-> Absent, last |-> Never, ws |-> Absent, kind |-> "none"]
<1>1. new \in Busy /\ clock \in Nat
  BY DEF Busy, Stages, Lookups, CInv, CredTypeOK
<1>2. /\ new.stage = "keys" /\ new.tok = t /\ new.began = clock
      /\ new.late => t \in ended
  OBVIOUS
<1>3. Becomes(r, new) /\ Stays
  BY DEF Arrive
<1> HIDE DEF new
<1>4. Good(new)
  BY <1>1, <1>2 DEF Good, LateWaits, InHand, Touches, Lookups
<1> QED
  BY <1>1, <1>2, <1>3, <1>4, StaysKeep

\* A key that is found is checked; of one that has ended the row is revoked.
LEMMA LookupKeyKeeps ==
  ASSUME CInv, CredentialsAssumption, NEW r \in Request, LookupKey(r)
  PROVE  CInv'
<1> DEFINE q == req[r]
           found == [q EXCEPT !.stage = "check", !.row = keys[q.tok], !.last = lastUsed[q.tok]]
           other == [q EXCEPT !.stage = "oauth", !.now = clock]
<1>1. q.stage = "keys" /\ Stays
  BY DEF LookupKey
<1>2. q \in Busy /\ LateWaits(q) /\ InHand(q) /\ clock \in Nat
  BY <1>1, BusyNow DEF CInv, CredTypeOK
<1>3. CASE q.tok \in Key /\ keys[q.tok] # Absent
  <2>1. /\ keys[q.tok] \in KeyRow /\ lastUsed[q.tok] \in Nat \union {Never} /\ q.tok \in Key
    BY <1>3 DEF CInv, CredTypeOK
  <2>2. /\ found \in Busy /\ found.stage = "check" /\ found.tok = q.tok /\ found.row = keys[q.tok]
        /\ found.late = q.late /\ found.began = q.began
    BY <1>2, <2>1 DEF Busy, Stages
  <2>3. q.late => keys[q.tok].revoked = TRUE
    BY <1>2, <2>1 DEF LateWaits, CInv, Tables, Gone
  <2>4. Good(found)
    BY <1>2, <1>3, <2>1, <2>2, <2>3 DEF Good, LateWaits, InHand, Touches, Lookups
  <2>5. Becomes(r, found)
    BY <1>3 DEF LookupKey
  <2> QED
    BY <1>1, <2>2, <2>4, <2>5, StaysKeep
<1>4. CASE ~(q.tok \in Key /\ keys[q.tok] # Absent)
  <2>1. /\ other \in Busy /\ other.stage = "oauth" /\ other.now = clock /\ other.tok = q.tok
        /\ other.late = q.late /\ other.began = q.began
    BY <1>2 DEF Busy, Stages, Lookups
  <2>2. Good(other)
    BY <1>2, <2>1 DEF Good, LateWaits, InHand, Touches, Lookups
  <2>3. Becomes(r, other)
    BY <1>4 DEF LookupKey
  <2> QED
    BY <1>1, <2>1, <2>2, <2>3, StaysKeep
<1> QED
  BY <1>3, <1>4

\* Of what ended there is no row that either lookup accepts.
LEMMA Accepted ==
  ASSUME CInv, CredentialsAssumption, NEW r \in Request, req[r].stage \in {"oauth", "session"},
         req[r].tok \in Stored, expires[req[r].tok] > req[r].now
  PROVE  /\ Known(r, "workspace") \in Busy /\ Known(r, "workspace").stage = "workspace"
         /\ Good(Known(r, "workspace"))
<1> DEFINE q == req[r]
           new == Known(r, "workspace")
<1>1. q \in Busy /\ LateWaits(q) /\ InHand(q)
  BY BusyNow
<1>2. q.now \in Nat /\ q.began \in Nat /\ q.began <= q.now /\ q.began <= clock
  BY <1>1 DEF InHand, Busy
<1>3. /\ new \in Busy /\ new.stage = "workspace" /\ new.tok = q.tok
      /\ new.late = q.late /\ new.began = q.began
  BY <1>1 DEF Busy, Stages, Known
<1>4. /\ q.tok \in OAuth \union Session /\ q.tok \notin Key /\ q.tok \in issued
      /\ expires[q.tok] \in Nat
  BY DEF CInv, CredTypeOK, Tables, Stored, CredentialsAssumption
<1>5. ~q.late
  BY <1>1, <1>4 DEF LateWaits, CInv, Tables, Gone, Stored
<1>6. InTime(new.tok, new.began)
  BY <1>2, <1>3, <1>4 DEF InTime
<1> QED
  BY <1>2, <1>3, <1>5, <1>6 DEF Good, LateWaits, InHand, Touches

\* The next lookup, with a later reading of the clock.
LEMMA LookupOAuthKeeps ==
  ASSUME CInv, CredentialsAssumption, NEW r \in Request, LookupOAuth(r)
  PROVE  CInv'
<1> DEFINE q == req[r]
           other == [q EXCEPT !.stage = "session", !.now = clock]
<1>1. q.stage = "oauth" /\ Stays
  BY DEF LookupOAuth
<1>2. q \in Busy /\ LateWaits(q) /\ InHand(q) /\ clock \in Nat
  BY <1>1, BusyNow DEF CInv, CredTypeOK
<1>3. CASE q.tok \in OAuth \cap Stored /\ expires[q.tok] > q.now
  BY <1>1, <1>3, Accepted, StaysKeep DEF LookupOAuth
<1>4. CASE ~(q.tok \in OAuth \cap Stored /\ expires[q.tok] > q.now)
  <2>1. /\ other \in Busy /\ other.stage = "session" /\ other.now = clock /\ other.tok = q.tok
        /\ other.late = q.late /\ other.began = q.began
    BY <1>2 DEF Busy, Stages, Lookups
  <2>2. Good(other)
    BY <1>2, <2>1 DEF Good, LateWaits, InHand, Touches, Lookups
  <2>3. Becomes(r, other)
    BY <1>4 DEF LookupOAuth
  <2> QED
    BY <1>1, <2>1, <2>2, <2>3, StaysKeep
<1> QED
  BY <1>3, <1>4

\* ... of a session, which is touched when it was not for a while.
LEMMA LookupSessionKeeps ==
  ASSUME CInv, CredentialsAssumption, NEW r \in Request, LookupSession(r)
  PROVE  CInv'
<1>1. req[r].stage = "session" /\ Stays
  BY DEF LookupSession
<1>2. CASE SessionFound(r)
  BY <1>1, <1>2, Accepted, StaysKeep DEF LookupSession, SessionFound
<1>3. CASE ~SessionFound(r)
  BY <1>1, <1>3, IdleGood, StaysKeep DEF LookupSession
<1> QED
  BY <1>2, <1>3

\* A key that passes is not revoked, so the request is not late, and it is in time.
LEMMA CheckKeyKeeps ==
  ASSUME CInv, CredentialsAssumption, NEW r \in Request, CheckKey(r)
  PROVE  CInv'
<1> DEFINE q == req[r]
           new == [q EXCEPT !.stage = "touch", !.now = clock, !.row = Absent]
<1>1. q.stage = "check" /\ Stays
  BY DEF CheckKey
<1>2. CASE ~GoodKey(q.row)
  BY <1>1, <1>2, IdleGood, StaysKeep DEF CheckKey
<1>3. CASE GoodKey(q.row)
  <2>1. q \in Busy /\ LateWaits(q) /\ InHand(q) /\ clock \in Nat
    BY <1>1, BusyNow DEF CInv, CredTypeOK
  <2>2. /\ new \in Busy /\ new.stage = "touch" /\ new.now = clock /\ new.tok = q.tok
        /\ new.late = q.late /\ new.began = q.began
    BY <2>1 DEF Busy, Stages
  <2>3. /\ q.tok \in Key /\ keys[q.tok] # Absent /\ q.row.expiry = keys[q.tok].expiry
        /\ q.row.expiry \in Time \union {Never} /\ q.began \in Nat /\ q.began <= clock
    BY <1>1, <2>1 DEF InHand, KeyRow, Busy
  <2>4. ~q.late
    BY <1>1, <1>3, <2>1 DEF LateWaits, GoodKey
  <2>5. InTime(new.tok, new.began)
    BY <1>3, <2>1, <2>2, <2>3 DEF InTime, GoodKey, Time
  <2>6. lastUsed[q.tok] # Never => lastUsed[q.tok] <= clock
    BY <2>3 DEF CInv, Tables
  <2>7. Good(new)
    BY <2>1, <2>2, <2>3, <2>4, <2>5, <2>6 DEF Good, LateWaits, InHand, Touches
  <2>8. Becomes(r, new)
    BY <1>3 DEF CheckKey
  <2> QED
    BY <1>1, <2>2, <2>7, <2>8, StaysKeep
<1> QED
  BY <1>2, <1>3

\* The workspace is granted to the key it is bound to, or to a user by the table of members.
LEMMA ServeKeeps ==
  ASSUME CInv, CredentialsAssumption, NEW r \in Request, NEW w \in Workspace,
         NEW kind \in {"data", "manage"}, Serve(r, w, kind)
  PROVE  CInv'
<1> DEFINE q == req[r]
           new == [q EXCEPT !.stage = "served", !.ws = w, !.kind = kind]
           granted == IF kind = "data" THEN MayAccess(q.tok, w) ELSE MayManage(q.tok, w)
<1>1. q.stage = "workspace" /\ Stays /\ Becomes(r, IF granted THEN new ELSE Idle)
  BY DEF Serve
<1>2. CASE ~granted
  BY <1>1, <1>2, IdleGood, StaysKeep
<1>3. CASE granted
  <2>1. q \in Busy /\ LateWaits(q) /\ InHand(q)
    BY <1>1, BusyNow
  <2>2. /\ new \in Busy /\ new.stage = "served" /\ new.tok = q.tok /\ new.ws = w
        /\ new.kind = kind /\ new.late = q.late /\ new.began = q.began
    BY <2>1 DEF Busy, Stages
  <2>5. ~q.late
    BY <1>1, <2>1 DEF LateWaits, Lookups
  <2>6. Good(new)
    BY <1>1, <2>1, <2>2, <2>5 DEF Good, LateWaits, InHand, Touches
  <2>7. Becomes(r, new)
    BY <1>1, <1>3
  <2> QED
    BY <1>1, <2>2, <2>6, <2>7, StaysKeep
<1> QED
  BY <1>2, <1>3

\* A request is over.
LEMMA DoneKeeps ==
  ASSUME CInv, CredentialsAssumption, NEW r \in Request, Done(r) PROVE CInv'
BY IdleGood, StaysKeep DEF Done

\* The map takes a time that is a minute later than the one it has, which bounds the
\* times of all UPDATEs that are under way.
LEMMA TouchMemoryKeeps ==
  ASSUME CInv, CredentialsAssumption, NEW r \in Request, TouchMemory(r)
  PROVE  CInv'
<1> DEFINE q == req[r]
           k == q.tok
           new == [q EXCEPT !.stage = "store", !.last = Never]
<1>1. q.stage = "touch" /\ q \in Busy /\ LateWaits(q) /\ InHand(q) /\ Touches(q)
  BY BusyNow DEF TouchMemory
<1>2. /\ k \in Key /\ q.now \in Nat /\ q.now <= clock /\ InTime(k, q.began) /\ ~q.late
      /\ lastUsedMemory[k] = Never /\ lastUsed[k] # Never => lastUsed[k] <= q.now
      /\ clock \in Nat /\ q.began \in Nat /\ q.began <= clock
  BY <1>1 DEF Touches, InHand, LateWaits, Lookups, CInv, CredTypeOK, Busy
<1>3. CASE ~Due(r)
  <2>1. /\ Known(r, "workspace") \in Busy /\ Known(r, "workspace").stage = "workspace"
        /\ Known(r, "workspace").tok = k /\ Known(r, "workspace").began = q.began
        /\ ~Known(r, "workspace").late
    BY <1>1, <1>2 DEF Busy, Stages, Known
  <2>2. Good(Known(r, "workspace"))
    BY <1>2, <2>1 DEF Good, LateWaits, InHand, Touches
  <2>3. Becomes(r, Known(r, "workspace")) /\ Stays
    BY <1>3 DEF TouchMemory, Stays
  <2> QED
    BY <2>1, <2>2, <2>3, StaysKeep
<1>4. CASE Due(r)
  <2>1. /\ lastUsedMemory' = [lastUsedMemory EXCEPT ![k] = q.now] /\ Becomes(r, new)
        /\ UNCHANGED <<clock, keys, expires, issued, lastUsed, cleanup, ended>>
    BY <1>4 DEF TouchMemory
  <2>2. lastUsedMemory[k] = Never \/ (lastUsedMemory[k] \in Nat /\ lastUsedMemory[k] + Minute <= q.now)
    BY <1>2, <1>4 DEF Due, CInv, CredTypeOK, CredentialsAssumption
  <2>3. \A j \in Key : /\ lastUsedMemory'[j] = (IF j = k THEN q.now ELSE lastUsedMemory[j])
                       /\ lastUsedMemory[j] \in Nat \union {Never} /\ lastUsed[j] \in Nat \union {Never}
    BY <1>2, <2>1 DEF CInv, CredTypeOK
  <2>4. /\ new \in Busy /\ new.stage = "store" /\ new.now = q.now /\ new.tok = k
        /\ new.began = q.began /\ ~new.late
    BY <1>1, <1>2 DEF Busy, Stages
  <2> HIDE DEF new
  <2>5. req'[r] = new /\ \A d \in Request \ {r} : req'[d] = req[d]
    BY <2>1 DEF Becomes, CInv, CredTypeOK
  <2>6. CredTypeOK' /\ Tables'
    <3>1. CredTypeOK'
      BY <1>2, <2>1, <2>4 DEF CInv, CredTypeOK, Becomes
    <3> QED
      BY <2>1, <3>1 DEF CInv, Tables, Gone
  <2>7. Evolves
    BY <1>2, <2>1, <2>2, <2>3 DEF Evolves, CInv, CredTypeOK, CredentialsAssumption
  <2>8. Good(req[r])'
    <3>1. InTime(req[r].tok, req[r].began)'
      BY <1>2, <2>1, <2>4, <2>5 DEF InTime
    <3>2. /\ req'[r].stage = "store" /\ req'[r].now = q.now /\ req'[r].tok = k
          /\ req'[r].began = q.began /\ ~req'[r].late
          /\ lastUsedMemory'[k] = q.now /\ q.now # Never /\ clock' = clock
      BY <1>2, <2>1, <2>3, <2>4, <2>5 DEF CredentialsAssumption
    <3>3. LateWaits(req[r])' /\ InHand(req[r])'
      BY <1>2, <3>1, <3>2 DEF LateWaits, InHand
    <3>4. Touches(req[r])'
      BY <1>2, <3>2 DEF Touches
    <3> QED
      BY <3>3, <3>4 DEF Good
  <2>9. TouchesSpaced'
    <3>1. ASSUME NEW d \in Request \ {r}, req'[d].stage = "store", req'[d].tok = k
          PROVE  req'[d].now \in Nat /\ req'[d].now + Minute <= q.now
      <4>1. req[d].stage = "store" /\ req[d].tok = k /\ req'[d].now = req[d].now
        BY <2>5, <3>1
      <4>2. req[d].now \in Nat /\ lastUsedMemory[k] # Never /\ req[d].now <= lastUsedMemory[k]
        BY <4>1, BusyNow DEF Touches
      <4> QED
        BY <1>2, <2>2, <4>1, <4>2 DEF CredentialsAssumption
    <3>2. ASSUME NEW d \in Request, NEW e \in Request, d # e, req'[d].stage = "store",
                 req'[e].stage = "store", req'[d].tok = req'[e].tok
          PROVE  req'[d].now + Minute <= req'[e].now \/ req'[e].now + Minute <= req'[d].now
      <4>1. CASE d = r
        BY <2>4, <2>5, <3>1, <3>2, <4>1
      <4>2. CASE e = r
        BY <2>4, <2>5, <3>1, <3>2, <4>2
      <4>3. CASE d # r /\ e # r
        BY <2>5, <3>2, <4>3 DEF CInv, TouchesSpaced
      <4> QED
        BY <4>1, <4>2, <4>3
    <3>3. \A j \in Key : lastUsed'[j] # Never /\ lastUsedMemory'[j] # Never
                           => lastUsed'[j] <= lastUsedMemory'[j]
      BY <1>2, <2>1, <2>2, <2>3 DEF CInv, TouchesSpaced, CredentialsAssumption
    <3> QED
      BY <3>2, <3>3 DEF TouchesSpaced
  <2> QED
    BY <2>5, <2>6, <2>7, <2>8, <2>9, MovesKeep
<1> QED
  BY <1>3, <1>4

\* The UPDATE, or its failure.
LEMMA StoreLastUsedKeeps ==
  ASSUME CInv, CredentialsAssumption, NEW r \in Request, StoreLastUsed(r)
  PROVE  CInv'
<1> DEFINE q == req[r]
           k == q.tok
           new == Known(r, "workspace")
<1>1. q.stage = "store" /\ q \in Busy /\ LateWaits(q) /\ InHand(q) /\ Touches(q)
  BY BusyNow DEF StoreLastUsed
<1>2. /\ k \in Key /\ q.now \in Nat /\ q.now <= clock /\ InTime(k, q.began) /\ ~q.late
      /\ lastUsedMemory[k] # Never /\ q.now <= lastUsedMemory[k]
      /\ clock \in Nat /\ q.began \in Nat /\ q.began <= clock
  BY <1>1 DEF Touches, InHand, LateWaits, Lookups, CInv, CredTypeOK, Busy
<1>3. /\ new \in Busy /\ new.stage = "workspace" /\ new.tok = k /\ new.began = q.began /\ ~new.late
  BY <1>1, <1>2 DEF Busy, Stages, Known
<1>4. /\ lastUsed' \in {lastUsed, [lastUsed EXCEPT ![k] = q.now]} /\ Becomes(r, new)
      /\ UNCHANGED <<clock, keys, expires, issued, lastUsedMemory, cleanup, ended>>
  BY DEF StoreLastUsed
<1> HIDE DEF new
<1>5. req'[r] = new /\ \A d \in Request \ {r} : req'[d] = req[d]
  BY <1>4 DEF Becomes, CInv, CredTypeOK
<1>6. \A j \in Key : /\ lastUsed'[j] = lastUsed[j] \/ (j = k /\ lastUsed'[j] = q.now)
                     /\ lastUsedMemory[j] \in Nat \union {Never}
  BY <1>2, <1>4 DEF CInv, CredTypeOK
<1>7. CredTypeOK' /\ Tables'
  <2>1. CredTypeOK'
    BY <1>2, <1>3, <1>4 DEF CInv, CredTypeOK, Becomes
  <2> QED
    BY <1>2, <1>4, <1>6, <2>1 DEF CInv, Tables, Gone
<1>8. Evolves
  BY <1>2, <1>4, <1>6 DEF Evolves, CInv, CredTypeOK
<1>9. Good(req[r])'
  <2>1. InTime(req[r].tok, req[r].began)'
    BY <1>2, <1>3, <1>4, <1>5 DEF InTime
  <2> QED
    BY <1>2, <1>3, <1>4, <1>5, <2>1 DEF Good, LateWaits, InHand, Touches
<1>10. TouchesSpaced'
  <2>1. \A j \in Key : lastUsed'[j] # Never /\ lastUsedMemory'[j] # Never
                         => lastUsed'[j] <= lastUsedMemory'[j]
    BY <1>2, <1>4, <1>6 DEF CInv, TouchesSpaced
  <2> QED
    BY <1>3, <1>5, <2>1 DEF CInv, TouchesSpaced
<1> QED
  BY <1>5, <1>7, <1>8, <1>9, <1>10, MovesKeep

\* What a step of a request leaves alone when it changes keys.
LEMMA KeyTablesKeep ==
  ASSUME CInv, CredentialsAssumption, NEW r \in Request, NEW k \in Key, NEW row \in KeyRow,
         Becomes(r, Idle), keys' = [keys EXCEPT ![k] = row],
         keys[k] # Absent => keys[k].expiry = row.expiry /\ (keys[k].revoked = TRUE => row.revoked = TRUE),
         ended' = ended \/ (ended' = ended \union {k} /\ row.revoked = TRUE),
         row # Absent,
         UNCHANGED <<clock, expires, issued, lastUsed, lastUsedMemory, cleanup>>
  PROVE  CInv'
<1>1. req'[r] = Idle /\ \A d \in Request \ {r} : req'[d] = req[d]
  BY DEF Becomes, CInv, CredTypeOK
<1>2. \A j \in Key : keys'[j] = IF j = k THEN row ELSE keys[j]
  BY DEF CInv, CredTypeOK
<1>3. CredTypeOK'
  BY DEF CInv, CredTypeOK, Becomes, Token
<1>4. Tables'
  <2>1. \A t \in ended' : Gone(t)'
    <3> SUFFICES ASSUME NEW t \in ended' PROVE Gone(t)'
      OBVIOUS
    <3>1. CASE t \in ended
      <4>1. Gone(t)
        BY <3>1 DEF CInv, Tables
      <4> QED
        BY <1>2, <4>1 DEF Gone
    <3>2. CASE t \notin ended
      BY <1>2, <3>2 DEF Gone
    <3> QED
      BY <3>1, <3>2
  <2> QED
    BY <2>1 DEF CInv, Tables
<1>5. Evolves
  <2>1. \A j \in Key : lastUsedMemory[j] \in Nat \union {Never}
    BY DEF CInv, CredTypeOK
  <2>2. clock <= clock'
    BY DEF CInv, CredTypeOK
  <2>3. ended \subseteq ended'
    OBVIOUS
  <2>4. \A j \in Key : keys[j] # Absent => keys'[j] # Absent /\ keys'[j].expiry = keys[j].expiry
    BY <1>2
  <2> QED
    BY <2>1, <2>2, <2>3, <2>4 DEF Evolves
<1>6. TouchesSpaced'
  BY <1>1 DEF CInv, TouchesSpaced, Idle
<1>7. Good(req[r])'
  BY <1>1 DEF Good
<1> QED
  BY <1>1, <1>3, <1>4, <1>5, <1>6, <1>7, MovesKeep

\* A key is created where there is none, and revoked for good.
LEMMA KeysKeep ==
  ASSUME CInv, CredentialsAssumption, NEW r \in Request, NEW k \in Key,
         NEW expiry \in Time \union {Never}, NEW now \in Time,
         CreateKey(r, k, expiry, now) \/ RevokeKey(r, k)
  PROVE  CInv'
<1>1. CASE CreateKey(r, k, expiry, now)
  <2> DEFINE row == [expiry |-> expiry, revoked |-> FALSE]
  <2>1. /\ row \in KeyRow /\ keys[k] = Absent /\ Becomes(r, Idle)
        /\ keys' = [keys EXCEPT ![k] = row] /\ ended' = ended
        /\ UNCHANGED <<clock, expires, issued, lastUsed, lastUsedMemory, cleanup>>
    BY <1>1 DEF CreateKey, StoreKey, KeyRow, Time
  <2>2. row # Absent
    BY <2>1 DEF CredentialsAssumption
  <2> QED
    BY <2>1, <2>2, KeyTablesKeep
<1>2. CASE RevokeKey(r, k)
  <2> DEFINE row == [keys[k] EXCEPT !.revoked = TRUE]
  <2>1. keys[k] # Absent /\ keys[k] \in KeyRow
    BY <1>2 DEF RevokeKey, CInv, CredTypeOK
  <2>2. /\ row \in KeyRow /\ row.expiry = keys[k].expiry /\ row.revoked = TRUE
    BY <2>1 DEF KeyRow
  <2>3. /\ Becomes(r, Idle)
        /\ keys' = [keys EXCEPT ![k] = row] /\ ended' = ended \union {k}
        /\ UNCHANGED <<clock, expires, issued, lastUsed, lastUsedMemory, cleanup>>
    BY <1>2 DEF RevokeKey, Revoke
  <2>4. row # Absent
    BY <2>2 DEF CredentialsAssumption
  <2> QED
    BY <2>1, <2>2, <2>3, <2>4, KeyTablesKeep
<1> QED
  BY <1>1, <1>2

\* A restart: no request is left, and the memory is empty.
LEMMA RestartKeeps == ASSUME CInv, CredentialsAssumption, Restart PROVE CInv'
<1>1. /\ req' = [r \in Request |-> Idle] /\ lastUsedMemory' = [k \in Key |-> Never]
      /\ cleanup' = [stage |-> "sessions", now |-> clock] /\ clock \in Nat
      /\ UNCHANGED <<clock, keys, expires, issued, lastUsed, ended>>
  BY DEF Restart, CInv, CredTypeOK
<1>2. CredTypeOK'
  BY <1>1 DEF CInv, CredTypeOK
<1>3. Tables'
  BY <1>1 DEF CInv, Tables, Gone
<1>4. \A r \in Request : Good(req[r])'
  BY <1>1 DEF Good
<1>5. TouchesSpaced'
  BY <1>1 DEF TouchesSpaced, Idle
<1> QED
  BY <1>2, <1>3, <1>4, <1>5 DEF CInv

\* Every step keeps the invariant.
LEMMA CredKeeps == ASSUME CInv, CredentialsAssumption, [Next]_vars PROVE CInv'
<1>1. CASE UNCHANGED vars
  <2>1. CredTypeOK'
    BY <1>1 DEF vars, CInv, CredTypeOK
  <2>2. Tables'
    BY <1>1 DEF vars, CInv, Tables, Gone
  <2>3. \A r \in Request : Good(req[r])'
    <3> SUFFICES ASSUME NEW r \in Request PROVE Good(req[r])'
      OBVIOUS
    <3>1. Good(req[r])
      BY DEF CInv
    <3>2. (req[r] # Idle)' = (req[r] # Idle) /\ LateWaits(req[r])' = LateWaits(req[r])
      BY <1>1 DEF vars, LateWaits
    <3>3. InHand(req[r])' = InHand(req[r]) /\ Touches(req[r])' = Touches(req[r])
      BY <1>1 DEF vars, InHand, InTime, Touches
    <3> QED
      BY <3>1, <3>2, <3>3 DEF Good
  <2>4. TouchesSpaced'
    BY <1>1 DEF vars, CInv, TouchesSpaced
  <2> QED
    BY <2>1, <2>2, <2>3, <2>4 DEF CInv
<1>2. CASE \E r \in Request : Handle(r)
  <2> SUFFICES ASSUME NEW r \in Request, Handle(r) PROVE CInv'
    BY <1>2
  <2>1. CASE \E t \in Token : Arrive(r, t)
    BY <2>1, ArriveKeeps
  <2>2. CASE LookupKey(r) \/ LookupOAuth(r) \/ LookupSession(r)
    BY <2>2, LookupKeyKeeps, LookupOAuthKeeps, LookupSessionKeeps
  <2>3. CASE CheckKey(r) \/ TouchMemory(r) \/ StoreLastUsed(r)
    BY <2>3, CheckKeyKeeps, TouchMemoryKeeps, StoreLastUsedKeeps
  <2>4. CASE \E w \in Workspace, kind \in {"data", "manage"} : Serve(r, w, kind)
    BY <2>4, ServeKeeps
  <2>5. CASE \E k \in Key, expiry \in Time \union {Never}, now \in Time : CreateKey(r, k, expiry, now)
    BY <2>5, KeysKeep
  <2>6. CASE \E k \in Key : RevokeKey(r, k)
    <3>1. 0 \in Time
      BY DEF Time, CredentialsAssumption
    <3> QED
      BY <2>6, <3>1, KeysKeep
  <2>7. CASE Done(r)
    BY <2>7, DoneKeeps
  <2> QED
    BY <2>1, <2>2, <2>3, <2>4, <2>5, <2>6, <2>7 DEF Handle
<1>3. CASE \E t \in OAuth \union Session, now \in Time : Issue(t, now)
  BY <1>3, IssueKeeps
<1>4. CASE Tick \/ Restart
  BY <1>4, TickKeeps, RestartKeeps
<1>5. CASE Cleanup \/ \E t \in Token : Logout(t)
  BY <1>5, TablesKeep
<1> QED
  BY <1>1, <1>2, <1>3, <1>4, <1>5 DEF Next

-----------------------------------------------------------------------------
(* What holds of every behaviour.                                           *)

\* The invariant of the tables and of all requests.
THEOREM CredentialsInvariant == Spec => []CInv
<1>1. Init => CInv
  BY CredInit, CredentialsAssumption
<1>2. CInv /\ [Next]_vars => CInv'
  BY CredKeeps, CredentialsAssumption
<1> QED
  BY <1>1, <1>2, PTL DEF Spec

\* Nobody who comes with a revoked key or after logout is served, whatever was read before
\* the revocation or is still in the process's memory.
THEOREM EndedStayOut == Spec => []EndedStaysOut
<1>1. CInv => EndedStaysOut
  <2> SUFFICES ASSUME CInv, NEW r \in Request, Served(r) PROVE ~req[r].late
    BY DEF EndedStaysOut
  <2>1. LateWaits(req[r]) /\ req[r].stage = "served"
    BY BusyNow DEF Served
  <2> QED
    BY <2>1 DEF LateWaits, Lookups
<1> QED
  BY <1>1, CredentialsInvariant, PTL

\* A token that had expired when it came is never served.
THEOREM ServedInTime == Spec => []ServedUnexpired
<1>1. CInv => ServedUnexpired
  <2> SUFFICES ASSUME CInv, NEW r \in Request, Served(r)
               PROVE  IF req[r].tok \in Key
                      THEN keys[req[r].tok].expiry = Never \/ keys[req[r].tok].expiry >= req[r].began
                      ELSE req[r].tok \in Stored => expires[req[r].tok] > req[r].began
    BY DEF ServedUnexpired
  <2>1. InHand(req[r]) /\ req[r].stage = "served"
    BY BusyNow DEF Served
  <2> QED
    BY <2>1 DEF InHand, InTime, Stored
<1> QED
  BY <1>1, CredentialsInvariant, PTL

\* However many requests use a key at once, what they write is a minute apart.
THEOREM TouchesAreSpaced == Spec => []TouchesSpaced
<1>1. CInv => TouchesSpaced
  BY DEF CInv
<1> QED
  BY <1>1, CredentialsInvariant, PTL

\* No statement of CleanupExpired deletes what a lookup that reads the clock from then on
\* would still accept.
THEOREM CleanupIsHarmless == Spec => CleanupHarmless
<1>1. ASSUME CInv, CredentialsAssumption, [Next]_vars, NEW t \in DOMAIN expires,
             expires[t] # Absent, expires'[t] = Absent
      PROVE  t \in ended' \/ expires[t] <= clock
  <2>1. t \in OAuth \union Session /\ expires[t] \in Nat /\ clock \in Nat
    BY <1>1 DEF CInv, CredTypeOK
  <2>2. CASE DeleteSessions \/ DeleteTokens
    <3>1. /\ t \in Expired(Session) \union Expired(OAuth) /\ cleanup # Waiting
      BY <1>1, <2>1, <2>2 DEF DeleteSessions, DeleteTokens, Delete, Waiting
    <3>2. cleanup.now \in Nat /\ cleanup.now <= clock
      BY <1>1, <3>1 DEF CInv, CredTypeOK, Tables
    <3> QED
      BY <2>1, <3>1, <3>2 DEF Expired
  <2>3. CASE \E s \in Token : Logout(s)
    BY <1>1, <2>1, <2>3 DEF Logout, Delete, Stored
  <2>4. CASE \E s \in OAuth \union Session, now \in Time : Issue(s, now)
    <3>1. PICK s \in OAuth \union Session, now \in Time : Issue(s, now)
      BY <2>4
    <3>2. expires' = [expires EXCEPT ![s] = now + Lifetime] /\ now + Lifetime \in Nat
      BY <1>1, <3>1 DEF Issue, Time, CredentialsAssumption
    <3> QED
      BY <1>1, <2>1, <3>2 DEF CInv, CredTypeOK, CredentialsAssumption
  <2>5. CASE UNCHANGED vars \/ Tick \/ CleanupBegins \/ CleanupFails \/ Restart
    BY <1>1, <2>5 DEF vars, Tick, CleanupBegins, CleanupFails, Restart
  <2>6. CASE \E r \in Request : Handle(r)
    <3>1. UNCHANGED expires
      <4>1. PICK r \in Request : Handle(r)
        BY <2>6
      <4>2. CASE \E x \in Token : Arrive(r, x)
        BY <4>2, Zenon DEF Arrive, Stays
      <4>3. CASE LookupKey(r) \/ LookupOAuth(r) \/ LookupSession(r)
        BY <4>3 DEF LookupKey, LookupOAuth, LookupSession, Stays
      <4>4. CASE CheckKey(r) \/ TouchMemory(r) \/ StoreLastUsed(r)
        BY <4>4 DEF CheckKey, TouchMemory, StoreLastUsed, Stays
      <4>5. CASE ~(\E x \in Token : Arrive(r, x)) /\ ~(LookupKey(r) \/ LookupOAuth(r) \/ LookupSession(r))
                 /\ ~(CheckKey(r) \/ TouchMemory(r) \/ StoreLastUsed(r))
        BY <4>1, <4>5 DEF Handle, Serve, CreateKey, RevokeKey, Done, Stays
      <4> QED
        BY <4>2, <4>3, <4>4, <4>5
    <3> QED
      BY <1>1, <3>1
  <2> QED
    BY <1>1, <2>2, <2>3, <2>4, <2>5, <2>6 DEF Next, Cleanup
<1>2. CInv /\ [Next]_vars =>
        [\A t \in DOMAIN expires :
           expires[t] # Absent /\ expires'[t] = Absent => t \in ended' \/ expires[t] <= clock]_vars
  BY <1>1, CredentialsAssumption
<1> QED
  BY <1>2, CredentialsInvariant, PTL DEF Spec, CleanupHarmless
=============================================================================
