----------------------------- MODULE Workspaces -----------------------------
(***************************************************************************)
(* Workspaces, their members and the claims that keep a user's workspace   *)
(* names distinct: CreateWorkspaceForUser and AddWorkspaceMember of the    *)
(* metadata store, statement by statement in a transaction under           *)
(* workspaceMu, as their callers see them (createUserWorkspace, main).     *)
(* Statements of the open transaction work on its copy of the tables.      *)
(***************************************************************************)
EXTENDS Integers

CONSTANTS
  Caller,      \* requests, and in Bootstrap main
  User,
  Workspace,   \* ids; random, except for the one of the default workspace
  Name,
  Fold,        \* Fold[n]: n with its ASCII letters in one case (COLLATE NOCASE)
  Absent

ASSUME WorkspacesAssumption ==
  /\ Fold \in [Name -> Name] /\ Absent \notin Name \union Caller

VARIABLES
  names,      \* names[w]: the name in the row of workspace w, or Absent
  members,    \* rows of workspace_members, as <<w, u>>; every one is made an owner
  claims,     \* rows of workspace_name_claims
  tx,         \* who holds workspaceMu and its transaction, or Absent
  txNames, txMembers, txClaims,   \* the copy of that transaction
  call        \* call[c]: a call of the store

db       == <<names, members, claims>>
txCopy   == <<txNames, txMembers, txClaims>>
storeVars == <<names, members, claims, tx, txNames, txMembers, txClaims, call>>

Idle == [stage |-> "idle"]
Claims == [user : User, name : Name, workspace : Workspace]

StoreInit ==
  /\ names = [w \in Workspace |-> Absent] /\ members = {} /\ claims = {}
  /\ tx = Absent /\ txNames = names /\ txMembers = {} /\ txClaims = {}
  /\ call = [c \in Caller |-> Idle]

\* op is "create" or "add"; the name of an "add" is read from the row of w.
Call(c, op, w, u, n) ==
  /\ call[c].stage \in {"idle", "done"}
  /\ call' = [call EXCEPT ![c] = [stage |-> "waiting", op |-> op, ws |-> w, user |-> u, name |-> n]]
  /\ UNCHANGED <<db, tx, txCopy>>

InTx(c, stage) == tx = c /\ call[c].stage = stage
Goes(c, stage) == call' = [call EXCEPT ![c].stage = stage]

\* The call returns and unlocks; Returns also ends the transaction, which the deferred
\* Rollback undoes unless it was committed.
Result(c, result) ==
  call' = [call EXCEPT ![c] = [stage |-> "done", op |-> call[c].op, ws |-> call[c].ws,
                               user |-> call[c].user, name |-> call[c].name, result |-> result]]
Returns(c, result) == Result(c, result) /\ tx' = Absent /\ UNCHANGED txCopy

-----------------------------------------------------------------------------
(* The two operations.                                                      *)

Lock(c) ==
  /\ call[c].stage = "waiting" /\ tx = Absent
  /\ tx' = c /\ txNames' = names /\ txMembers' = members /\ txClaims' = claims
  /\ Goes(c, IF call[c].op = "create" THEN "workspace" ELSE "member")
  /\ UNCHANGED db

\* Mistake: the row is inserted outside of the transaction.
InsertWorkspaceAtOnce(c) ==
  /\ InTx(c, "workspace") /\ txNames[call[c].ws] = Absent
  /\ txNames' = [txNames EXCEPT ![call[c].ws] = call[c].name]
  /\ names' = [names EXCEPT ![call[c].ws] = call[c].name]
  /\ Goes(c, "member")
  /\ UNCHANGED <<members, claims, tx, txMembers, txClaims>>

InsertWorkspace(c) ==
  /\ InTx(c, "workspace") /\ txNames[call[c].ws] = Absent
  /\ txNames' = [txNames EXCEPT ![call[c].ws] = call[c].name]
  /\ Goes(c, "member")
  /\ UNCHANGED <<db, tx, txMembers, txClaims>>

\* Mistake: the row is inserted outside of the transaction.
InsertMemberAtOnce(c) ==
  /\ InTx(c, "member")
  /\ txMembers' = txMembers \union {<<call[c].ws, call[c].user>>}
  /\ members' = members \union {<<call[c].ws, call[c].user>>}
  /\ Goes(c, IF call[c].op = "create" THEN "claim" ELSE "look")
  /\ UNCHANGED <<names, claims, tx, txNames, txClaims>>

\* INSERT; of AddWorkspaceMember with ON CONFLICT DO UPDATE.
InsertMember(c) ==
  /\ InTx(c, "member")
  /\ txMembers' = txMembers \union {<<call[c].ws, call[c].user>>}
  /\ Goes(c, IF call[c].op = "create" THEN "claim" ELSE "look")
  /\ UNCHANGED <<db, tx, txNames, txClaims>>

\* Mistake: the column is compared with case.
ClaimsOfExact(u, n) == {x \in txClaims : x.user = u /\ x.name = n}

\* Mistake: the index is on the name alone.
ClaimsOfAnyone(u, n) == {x \in txClaims : Fold[x.name] = Fold[n]}

\* The rows with this user and name; UNIQUE(user_id, name) allows one.
ClaimsOf(u, n) == {x \in txClaims : x.user = u /\ Fold[x.name] = Fold[n]}

\* Mistake: a claim of this workspace itself counts as another's.
LookForNone(c) ==
  /\ InTx(c, "look")
  /\ IF ClaimsOf(call[c].user, txNames[call[c].ws]) = {}
     THEN Goes(c, "claim") /\ UNCHANGED <<tx, txCopy>> ELSE Returns(c, "exists")
  /\ UNCHANGED db

\* AddWorkspaceMember's two SELECTs.
Look(c) ==
  /\ InTx(c, "look")
  /\ LET found == ClaimsOf(call[c].user, txNames[call[c].ws])
     IN  \/ found = {} /\ Goes(c, "claim") /\ UNCHANGED <<tx, txCopy>>
         \/ found # {} /\ (\A x \in found : x.workspace = call[c].ws)
            /\ Goes(c, "commit") /\ UNCHANGED <<tx, txCopy>>
         \/ (\E x \in found : x.workspace # call[c].ws) /\ Returns(c, "exists")
  /\ UNCHANGED db

\* The name to claim: of the new workspace, or the one that was read.
NameOf(c) == IF call[c].op = "create" THEN call[c].name ELSE txNames[call[c].ws]

\* claimWorkspaceName.
Claim(c) ==
  /\ InTx(c, "claim") /\ ClaimsOf(call[c].user, NameOf(c)) = {}
  /\ txClaims' = txClaims \union
       {[user |-> call[c].user, name |-> NameOf(c), workspace |-> call[c].ws]}
  /\ Goes(c, "commit")
  /\ UNCHANGED <<db, tx, txNames, txMembers>>

Conflict(c) ==
  /\ InTx(c, "claim") /\ ClaimsOf(call[c].user, NameOf(c)) # {}
  /\ Returns(c, "exists") /\ UNCHANGED db

Commit(c) ==
  /\ InTx(c, "commit")
  /\ names' = txNames /\ members' = txMembers /\ claims' = txClaims
  /\ Returns(c, "done")

\* BEGIN, a statement or the COMMIT fails, a primary key that is there included.
Fails(c) == tx = c /\ call[c].stage # "done" /\ Returns(c, "error") /\ UNCHANGED db

Crash ==
  /\ tx' = Absent /\ call' = [c \in Caller |-> Idle]
  /\ UNCHANGED <<db, txCopy>>

Statement(c) ==
  \/ InsertWorkspace(c) \/ InsertMember(c) \/ Look(c) \/ Claim(c) \/ Conflict(c) \/ Commit(c)

\* createUserWorkspace, with a random id.
Fresh(w) == names[w] = Absent /\ \A c \in Caller : call[c] # Idle => call[c].ws # w
Create(c, u, n) == \E w \in Workspace : Fresh(w) /\ Call(c, "create", w, u, n)

\* The store's other operation, of a workspace that exists.
Add(c, u, w) == names[w] # Absent /\ Call(c, "add", w, u, names[w])

StoreNext ==
  \/ \E c \in Caller : Lock(c) \/ Statement(c) \/ Fails(c)
  \/ \E c \in Caller, u \in User, n \in Name : Create(c, u, n)
  \/ \E c \in Caller, u \in User, w \in Workspace : Add(c, u, w)
  \/ Crash

StoreSpec == StoreInit /\ [][StoreNext]_storeVars

-----------------------------------------------------------------------------
\* The types; whoever is between its statements holds the mutex.
StoreTypeOK ==
  /\ names \in [Workspace -> Name \union {Absent}] /\ txNames \in [Workspace -> Name \union {Absent}]
  /\ members \subseteq Workspace \X User /\ txMembers \subseteq Workspace \X User
  /\ claims \subseteq Claims /\ txClaims \subseteq Claims
  /\ tx \in Caller \union {Absent}
  /\ \A c \in Caller : call[c].stage \in {"workspace", "member", "look", "claim", "commit"}
                         <=> tx = c

\* A committed membership has its claim under the workspace's name, and a claim its
\* membership: otherwise a name is lost for its user, or is no longer protected.
ClaimsMatchMembers ==
  /\ \A m \in members : \E x \in claims : x = [user |-> m[2], name |-> names[m[1]], workspace |-> m[1]]
  /\ \A x \in claims : <<x.workspace, x.user>> \in members

\* "A workspace with this name already exists" keeps the workspaces of a user apart, in
\* any case of ASCII letters, however requests overlap.  Other letters are told apart by case.
NamesDistinct ==
  \A m, k \in members :
    m[2] = k[2] /\ Fold[names[m[1]]] = Fold[names[k[1]]] => m[1] = k[1]

Told(c, result) == call[c].stage = "done" /\ call[c].result = result

\* An answer says what happened: 201 that the workspace is there, 409 that the user has
\* one of this name and, like 500, that the new one is not.
AnswersTrue ==
  \A c \in Caller :
    /\ Told(c, "done") => <<call[c].ws, call[c].user>> \in members
    /\ Told(c, "exists") =>
         \E m \in members : m[1] # call[c].ws /\ m[2] = call[c].user
                              /\ Fold[names[m[1]]] = Fold[call[c].name]
    /\ call[c].stage = "done" /\ call[c].op = "create" /\ call[c].result # "done"
         => names[call[c].ws] = Absent

\* What a caller has asked for and was told.
Asked(c) ==
  IF call[c] = Idle THEN [answer |-> "nothing"]
  ELSE [op |-> call[c].op, ws |-> call[c].ws, user |-> call[c].user, name |-> call[c].name,
        answer |-> IF call[c].stage = "done" THEN call[c].result ELSE "none"]

Promise == INSTANCE WorkspacePromise WITH asked <- [c \in Caller |-> Asked(c)]

\* "The membership and name claim are atomic": statement by statement, through failures,
\* crashes and overlapping calls, the tables change only by whole workspaces and owners,
\* in the step that makes the answer, and an answer is decided by what is committed.
CallsAtomic == Promise!Spec
=============================================================================
