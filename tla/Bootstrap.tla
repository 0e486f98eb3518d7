----------------------------- MODULE Bootstrap -----------------------------
(***************************************************************************)
(* What main does with the metadata before it serves: ensureDefaultUser    *)
(* and ensureDefault, at every start, over the tables that earlier runs,   *)
(* earlier crashes and users' requests left behind (Workspaces).           *)
(***************************************************************************)
EXTENDS Workspaces

CONSTANTS
  Email,
  Lower,         \* Lower[e]: e in lower case, as login looks it up
  Main,          \* the caller that is main
  Default,       \* "default"
  DefaultName,   \* "Default Workspace"
  DefaultUser,   \* "default-user"
  Provisioned    \* rows of users put in the table before the first start; external

Row == [id : User, email : Email]

ASSUME BootstrapAssumption ==
  /\ Lower \in [Email -> Email] /\ Main \in Caller /\ Default \in Workspace
  /\ DefaultName \in Name /\ DefaultUser \in User /\ Provisioned \subseteq Row

VARIABLES
  phase,      \* what main is doing
  email,      \* TRACY_ADMIN_EMAIL of this start
  users,      \* the table of users
  admin,      \* the id of the user that was found or created
  failed      \* history: in this start a statement of main failed

bootVars == <<phase, email, users, admin, failed>>
vars     == <<storeVars, bootVars>>

Init ==
  /\ StoreInit
  /\ phase = "down" /\ email \in Email /\ users = Provisioned /\ admin = Absent /\ failed = FALSE

UserByEmail(e) == {x \in users : x.email = e}
Hosts(w, u) == <<w, u>> \in members

Start ==
  /\ phase = "down"
  /\ email' \in Email /\ phase' = "find user" /\ admin' = Absent /\ failed' = FALSE
  /\ UNCHANGED <<storeVars, users>>

-----------------------------------------------------------------------------
(* ensureDefaultUser.                                                       *)

FindUser ==
  /\ phase = "find user"
  /\ IF UserByEmail(email) = {} THEN phase' = "create user" /\ admin' = admin
     ELSE phase' = "find default" /\ \E x \in UserByEmail(email) : admin' = x.id
  /\ UNCHANGED <<storeVars, email, users, failed>>

Taken == \E x \in users : x.id = DefaultUser \/ x.email = email

CreateUser ==
  /\ phase = "create user" /\ ~Taken
  /\ users' = users \union {[id |-> DefaultUser, email |-> email]}
  /\ admin' = DefaultUser /\ phase' = "find default"
  /\ UNCHANGED <<storeVars, email, failed>>

\* must: a row is there already.
UserTaken ==
  /\ phase = "create user" /\ Taken /\ phase' = "fatal"
  /\ UNCHANGED <<storeVars, email, users, admin, failed>>

\* must: the SELECT, the hash or the INSERT fails.
StatementFails ==
  /\ phase \in {"find user", "create user", "find default"}
  /\ phase' = "fatal" /\ failed' = TRUE
  /\ UNCHANGED <<storeVars, email, users, admin>>

-----------------------------------------------------------------------------
(* ensureDefault.                                                           *)

\* Mistake: a default workspace that is there needs nothing more.
FindDefaultOnly ==
  /\ phase = "find default"
  /\ IF names[Default] = Absent
     THEN Call(Main, "create", Default, admin, DefaultName) /\ phase' = "ensuring"
     ELSE phase' = "serving" /\ UNCHANGED storeVars
  /\ UNCHANGED <<email, users, admin, failed>>

FindDefault ==
  /\ phase = "find default" /\ phase' = "ensuring"
  /\ IF names[Default] = Absent THEN Call(Main, "create", Default, admin, DefaultName)
     ELSE Call(Main, "add", Default, admin, names[Default])
  /\ UNCHANGED <<email, users, admin, failed>>

\* The rest of main comes after this call; must ends the process instead.
Ensured ==
  /\ phase = "ensuring" /\ call[Main].stage = "done"
  /\ phase' = IF call[Main].result = "done" THEN "serving" ELSE "fatal"
  /\ failed' = (call[Main].result = "error")
  /\ UNCHANGED <<storeVars, email, users, admin>>

\* The process ends, by itself or not; the transaction that was open is gone.
Down == phase # "down" /\ phase' = "down" /\ Crash /\ UNCHANGED <<email, users, admin, failed>>

-----------------------------------------------------------------------------
Request(c) == phase = "serving" /\ \E x \in users, n \in Name : Create(c, x.id, n)

StoreStep == \E c \in Caller : Lock(c) \/ Statement(c) \/ Fails(c)

Next ==
  \/ Start \/ FindUser \/ CreateUser \/ UserTaken \/ StatementFails
  \/ FindDefault \/ Ensured \/ Down
  \/ (\E c \in Caller \ {Main} : Request(c)) /\ UNCHANGED bootVars
  \/ StoreStep /\ UNCHANGED bootVars

Spec == Init /\ [][Next]_vars

-----------------------------------------------------------------------------
\* "The owner user of TRACY_ADMIN_EMAIL": whoever is configured now, and whatever was
\* configured, created or interrupted before, can use the default workspace when it serves.
ServingHasOwner ==
  phase = "serving" =>
    /\ Hosts(Default, admin)
    /\ \E x \in UserByEmail(email) : x.id = admin

OtherOfName(u, n) ==
  \E m \in members : m[1] # Default /\ m[2] = u /\ Fold[names[m[1]]] = Fold[n]

\* The start gives up for three reasons: a statement failed; the only user main can create
\* exists under another e-mail; the administrator has a workspace named like the default one.
FatalExplained ==
  phase = "fatal" =>
    \/ failed
    \/ UserByEmail(email) = {} /\ \E x \in users : x.id = DefaultUser
    \/ OtherOfName(admin, IF names[Default] = Absent THEN DefaultName ELSE names[Default])

\* The configured administrator can log in: login finds the user by the e-mail that is typed.
AdminCanLogIn == phase = "serving" => UserByEmail(Lower[email]) # {}
=============================================================================
