-------------------------- MODULE BootstrapProofs ---------------------------
(***************************************************************************)
(* The metadata store and the start of the server, for any users, names,   *)
(* addresses and overlapping calls, main among them: the committed tables  *)
(* fit together whatever statement fails and whenever the process dies, a  *)
(* server that serves has its owner, every answer is true, and the store   *)
(* implements WorkspacePromise.                                            *)
(***************************************************************************)
EXTENDS Bootstrap, TLAPS

(* Workspaces: how far the copy of the open transaction is from the        *)
(* committed tables at each of its stages.                                 *)

Working == {"workspace", "member", "look", "claim", "commit"}
Answers == {"done", "exists", "error"}

\* A call that waits or is between two statements, and one that has returned.
Running  == [stage : {"waiting"} \union Working, op : {"create", "add"},
             ws : Workspace, user : User, name : Name]
Returned == [stage : {"done"}, op : {"create", "add"},
             ws : Workspace, user : User, name : Name, result : Answers]

Types ==
  /\ names \in [Workspace -> Name \union {Absent}] /\ txNames \in [Workspace -> Name \union {Absent}]
  /\ members \subseteq Workspace \X User /\ txMembers \subseteq Workspace \X User
  /\ claims \subseteq Claims /\ txClaims \subseteq Claims
  /\ tx \in Caller \union {Absent}
  /\ call \in [Caller -> {Idle} \union Running \union Returned]

\* Only the holder of the mutex works.
Exclusive == \A c \in Caller : call[c].stage \in Working <=> tx = c

\* Three tables that fit together.
Fits(n, m, cl) ==
  /\ \A x \in m : n[x[1]] # Absent /\ [user |-> x[2], name |-> n[x[1]], workspace |-> x[1]] \in cl
  /\ \A x \in cl : <<x.workspace, x.user>> \in m /\ x.name = n[x.workspace]
  /\ \A x, y \in cl : x.user = y.user /\ Fold[x.name] = Fold[y.name] => x = y
  /\ \A w \in Workspace : n[w] # Absent => \E x \in m : x[1] = w

\* The row of a new workspace is there from its INSERT on.
NamesSoFar(c) ==
  IF call[c].op = "create" /\ call[c].stage # "workspace"
  THEN names[call[c].ws] = Absent /\ txNames = [names EXCEPT ![call[c].ws] = call[c].name]
  ELSE txNames = names

MembersSoFar(c) ==
  txMembers = IF call[c].stage \in {"look", "claim", "commit"}
              THEN members \union {<<call[c].ws, call[c].user>>} ELSE members

CopySoFar ==
  \A c \in Caller : call[c].stage \in Working =>
    /\ NamesSoFar(c) /\ MembersSoFar(c)
    /\ IF call[c].stage = "commit" THEN Fits(txNames, txMembers, txClaims) ELSE txClaims = claims

Stages ==
  \A c \in Caller : call[c] # Idle =>
    /\ call[c].op = "add" => names[call[c].ws] # Absent /\ call[c].stage # "workspace"
    /\ call[c].op = "create" => call[c].stage # "look"

WInv == Types /\ Exclusive /\ Fits(names, members, claims) /\ CopySoFar /\ Stages
-----------------------------------------------------------------------------
(* Calls.                                                                   *)

\* A call between its statements has all its fields; nobody else is there.
LEMMA HolderRuns ==
  ASSUME Types, Exclusive, NEW c \in Caller, call[c].stage \in Working
  PROVE  /\ call[c] \in Running /\ call[c] # Idle /\ tx = c
         /\ call[c].ws \in Workspace /\ call[c].user \in User /\ call[c].name \in Name
         /\ \A d \in Caller : call[d].stage \in Working => d = c
<1>1. call[c] \in {Idle} \union Running \union Returned
  BY DEF Types
<1>2. call[c] \notin Returned
  BY DEF Returned, Working
<1>3. call[c] # Idle
  BY DEF Idle, Working
<1>4. call[c] \in Running /\ tx = c
  BY <1>1, <1>2, <1>3 DEF Exclusive
<1>5. \A d \in Caller : call[d].stage \in Working => d = c
  BY <1>4 DEF Exclusive
<1> QED
  BY <1>3, <1>4, <1>5 DEF Running

\* The call goes on to its next stage, with the same arguments.
LEMMA GoesOn ==
  ASSUME Types, NEW c \in Caller, call[c] \in Running,
         NEW s \in {"waiting"} \union Working, Goes(c, s)
  PROVE  /\ call' \in [Caller -> {Idle} \union Running \union Returned]
         /\ call'[c].stage = s /\ call'[c] # Idle
         /\ call'[c].op = call[c].op /\ call'[c].ws = call[c].ws
         /\ call'[c].user = call[c].user /\ call'[c].name = call[c].name
         /\ \A d \in Caller \ {c} : call'[d] = call[d]
<1> DEFINE next == [call[c] EXCEPT !.stage = s]
<1>1. call' = [call EXCEPT ![c] = next]
  BY DEF Goes
<1>2. next \in Running
  BY DEF Running
<1>3. next # Idle
  <2>1. next.op \in {"create", "add"} /\ DOMAIN next # DOMAIN Idle
    BY <1>2 DEF Running, Idle
  <2> QED
    BY <2>1
<1>4. call'[c] = next
  BY <1>1 DEF Types
<1> QED
  BY <1>1, <1>2, <1>3, <1>4 DEF Types, Running

\* The call returns.
LEMMA ReturnsOnce ==
  ASSUME Types, NEW c \in Caller, call[c] \in Running, NEW r \in Answers, Result(c, r)
  PROVE  /\ call' \in [Caller -> {Idle} \union Running \union Returned]
         /\ call'[c].stage = "done" /\ call'[c].result = r /\ call'[c] # Idle
         /\ call'[c].op = call[c].op /\ call'[c].ws = call[c].ws
         /\ call'[c].user = call[c].user /\ call'[c].name = call[c].name
         /\ \A d \in Caller \ {c} : call'[d] = call[d]
<1> DEFINE next == [stage |-> "done", op |-> call[c].op, ws |-> call[c].ws,
                    user |-> call[c].user, name |-> call[c].name, result |-> r]
<1>1. call' = [call EXCEPT ![c] = next]
  BY DEF Result
<1>2. next \in Returned
  BY DEF Running, Returned
<1>3. next # Idle
  BY DEF Idle
<1> HIDE DEF next
<1>4. call'[c] = next
  BY <1>1 DEF Types
<1>5. /\ next.stage = "done" /\ next.result = r
      /\ next.op = call[c].op /\ next.ws = call[c].ws
      /\ next.user = call[c].user /\ next.name = call[c].name
  BY DEF next
<1> QED
  BY <1>1, <1>2, <1>3, <1>4, <1>5 DEF Types

\* A statement that does not end the transaction: what is left to show is about its copy.
LEMMA StatementKeeps ==
  ASSUME WInv, NEW c \in Caller, call[c].stage \in Working,
         NEW s \in Working \ {"workspace"}, Goes(c, s), UNCHANGED <<db, tx>>,
         s = "look" => call[c].op = "add",
         txNames' \in [Workspace -> Name \union {Absent}],
         txMembers' \subseteq Workspace \X User, txClaims' \subseteq Claims,
         IF call[c].op = "create"
         THEN names[call[c].ws] = Absent /\ txNames' = [names EXCEPT ![call[c].ws] = call[c].name]
         ELSE txNames' = names,
         txMembers' = IF s \in {"look", "claim", "commit"}
                      THEN members \union {<<call[c].ws, call[c].user>>} ELSE members,
         IF s = "commit" THEN Fits(txNames, txMembers, txClaims)' ELSE txClaims' = claims
  PROVE  WInv'
<1>1. /\ call[c] \in Running /\ call[c] # Idle /\ tx = c
      /\ \A d \in Caller : call[d].stage \in Working => d = c
  BY HolderRuns DEF WInv
<1>2. /\ call' \in [Caller -> {Idle} \union Running \union Returned]
      /\ call'[c].stage = s /\ call'[c] # Idle
      /\ call'[c].op = call[c].op /\ call'[c].ws = call[c].ws
      /\ call'[c].user = call[c].user /\ call'[c].name = call[c].name
      /\ \A d \in Caller \ {c} : call'[d] = call[d]
  BY <1>1, GoesOn DEF WInv
<1>3. Types'
  BY <1>2 DEF WInv, Types, db
<1>4. Exclusive'
  <2>1. SUFFICES ASSUME NEW d \in Caller PROVE call'[d].stage \in Working <=> tx' = d
    BY DEF Exclusive
  <2>2. CASE d = c
    BY <1>1, <1>2, <2>2
  <2>3. CASE d # c
    BY <1>1, <1>2, <2>3
  <2> QED
    BY <2>2, <2>3
<1>5. Fits(names, members, claims)'
  BY DEF WInv, Fits, db
<1>6. CopySoFar'
  <2>1. SUFFICES ASSUME NEW d \in Caller, call'[d].stage \in Working
                 PROVE  /\ NamesSoFar(d)' /\ MembersSoFar(d)'
                        /\ IF call'[d].stage = "commit" THEN Fits(txNames, txMembers, txClaims)'
                           ELSE (txClaims = claims)'
    BY DEF CopySoFar
  <2>2. d = c
    BY <1>1, <1>2, <2>1
  <2>3. NamesSoFar(c)' /\ MembersSoFar(c)'
    BY <1>2 DEF NamesSoFar, MembersSoFar, db
  <2>4. CASE s = "commit"
    BY <1>2, <2>2, <2>3, <2>4
  <2>5. CASE s # "commit"
    BY <1>2, <2>2, <2>3, <2>5 DEF db
  <2> QED
    BY <2>4, <2>5
<1>7. Stages'
  <2>1. SUFFICES ASSUME NEW d \in Caller, call'[d] # Idle
                 PROVE  /\ call'[d].op = "add" => names'[call'[d].ws] # Absent /\ call'[d].stage # "workspace"
                        /\ call'[d].op = "create" => call'[d].stage # "look"
    BY DEF Stages
  <2>2. CASE d = c
    BY <1>1, <1>2, <2>2 DEF WInv, Stages, db
  <2>3. CASE d # c
    BY <1>2, <2>1, <2>3 DEF WInv, Stages, db
  <2> QED
    BY <2>2, <2>3
<1> QED
  BY <1>3, <1>4, <1>5, <1>6, <1>7 DEF WInv

\* A return that leaves the committed tables alone.
LEMMA ReturnKeeps ==
  ASSUME WInv, NEW c \in Caller, call[c].stage \in Working, NEW r \in Answers,
         Returns(c, r), WorkspacesAssumption,
         names' \in [Workspace -> Name \union {Absent}],
         members' \subseteq Workspace \X User, claims' \subseteq Claims,
         Fits(names, members, claims)',
         \A w \in Workspace : names[w] # Absent => names'[w] # Absent
  PROVE  WInv'
<1>1. /\ call[c] \in Running /\ call[c] # Idle /\ tx = c
      /\ \A d \in Caller : call[d].stage \in Working => d = c
  BY HolderRuns DEF WInv
<1>2. /\ call' \in [Caller -> {Idle} \union Running \union Returned]
      /\ call'[c].stage = "done" /\ call'[c] # Idle
      /\ call'[c].op = call[c].op /\ call'[c].ws = call[c].ws
      /\ \A d \in Caller \ {c} : call'[d] = call[d]
  BY <1>1, ReturnsOnce DEF WInv, Returns
<1>3. Types'
  BY <1>2 DEF WInv, Types, Returns, txCopy
<1>4. \A d \in Caller : call'[d].stage \notin Working
  <2>1. SUFFICES ASSUME NEW d \in Caller PROVE call'[d].stage \notin Working
    OBVIOUS
  <2>2. CASE d = c
    BY <1>2, <2>2 DEF Working
  <2>3. CASE d # c
    BY <1>1, <1>2, <2>3
  <2> QED
    BY <2>2, <2>3
<1>5. Exclusive'
  BY <1>4 DEF Exclusive, Returns, WorkspacesAssumption
<1>6. CopySoFar'
  BY <1>4 DEF CopySoFar
<1>7. Stages'
  <2>1. SUFFICES ASSUME NEW d \in Caller, call'[d] # Idle
                 PROVE  /\ call'[d].op = "add" => names'[call'[d].ws] # Absent /\ call'[d].stage # "workspace"
                        /\ call'[d].op = "create" => call'[d].stage # "look"
    BY DEF Stages
  <2>2. call[d] # Idle /\ call'[d].op = call[d].op /\ call'[d].ws = call[d].ws
    BY <1>1, <1>2, <2>1
  <2>3. call'[d].stage = call[d].stage \/ call'[d].stage = "done"
    BY <1>2
  <2>4. call[d].ws \in Workspace
    BY <2>2 DEF WInv, Types, Running, Returned
  <2> QED
    BY <2>2, <2>3, <2>4 DEF WInv, Stages
<1> QED
  BY <1>3, <1>5, <1>6, <1>7 DEF WInv

-----------------------------------------------------------------------------
(* The actions.                                                             *)

\* The first state: no rows, no calls.
LEMMA InitOK ==
  ASSUME StoreInit, WorkspacesAssumption PROVE WInv
<1>1. \A c \in Caller : call[c] = Idle
  BY DEF StoreInit
<1>2. Types
  BY DEF StoreInit, Types
<1>3. Exclusive /\ CopySoFar /\ Stages
  BY <1>1 DEF StoreInit, Exclusive, CopySoFar, Stages, Idle, Working, WorkspacesAssumption
<1>4. Fits(names, members, claims)
  BY DEF StoreInit, Fits
<1> QED
  BY <1>2, <1>3, <1>4 DEF WInv

\* A new call touches no table.
LEMMA CallKeeps ==
  ASSUME WInv, NEW c \in Caller, NEW op \in {"create", "add"}, NEW w \in Workspace,
         NEW u \in User, NEW n \in Name, op = "add" => names[w] # Absent, Call(c, op, w, u, n)
  PROVE  WInv'
<1> DEFINE new == [stage |-> "waiting", op |-> op, ws |-> w, user |-> u, name |-> n]
<1>1. new \in Running /\ new # Idle
  BY DEF Running, Idle
<1>2. call[c].stage \notin Working /\ call' = [call EXCEPT ![c] = new]
  BY DEF Call, Working
<1>3. new.stage = "waiting" /\ new.op = op /\ new.ws = w
  OBVIOUS
<1> HIDE DEF new
<1>4. call'[c] = new /\ \A d \in Caller \ {c} : call'[d] = call[d]
  BY <1>2 DEF WInv, Types
<1>5. Types'
  BY <1>1, <1>2 DEF WInv, Types, Call, db, txCopy
<1>6. \A d \in Caller : call'[d].stage \in Working =>
        call'[d] = call[d] /\ call[d].stage \in Working
  BY <1>3, <1>4 DEF Working
<1>7. Exclusive'
  <2>1. SUFFICES ASSUME NEW d \in Caller PROVE call'[d].stage \in Working <=> tx' = d
    BY DEF Exclusive
  <2>2. CASE d = c
    BY <1>2, <1>3, <1>4, <2>2 DEF WInv, Exclusive, Call, Working
  <2>3. CASE d # c
    BY <1>4, <2>3 DEF WInv, Exclusive, Call
  <2> QED
    BY <2>2, <2>3
<1>8. Fits(names, members, claims)'
  BY DEF WInv, Fits, Call, db
<1>9. CopySoFar'
  BY <1>6 DEF WInv, CopySoFar, NamesSoFar, MembersSoFar, Fits, Call, db, txCopy
<1>10. Stages'
  BY <1>3, <1>4 DEF WInv, Stages, Call, db
<1> QED
  BY <1>5, <1>7, <1>8, <1>9, <1>10 DEF WInv

\* BEGIN makes a copy that is like the tables.
LEMMA LockKeeps ==
  ASSUME WInv, WorkspacesAssumption, NEW c \in Caller, Lock(c)
  PROVE  WInv'
<1> DEFINE s == IF call[c].op = "create" THEN "workspace" ELSE "member"
<1>1. call[c] \in Running
  <2>1. call[c] \in {Idle} \union Running \union Returned /\ call[c].stage = "waiting"
    BY DEF WInv, Types, Lock
  <2> QED
    BY <2>1 DEF Idle, Returned
<1>2. call[c] # Idle /\ call[c].op \in {"create", "add"}
  BY <1>1 DEF Lock, Idle, Running
<1>3. s \in Working /\ Goes(c, s)
  BY DEF Lock, Working
<1>4. /\ call' \in [Caller -> {Idle} \union Running \union Returned]
      /\ call'[c].stage = s /\ call'[c] # Idle
      /\ call'[c].op = call[c].op /\ call'[c].ws = call[c].ws
      /\ call'[c].user = call[c].user /\ call'[c].name = call[c].name
      /\ \A d \in Caller \ {c} : call'[d] = call[d]
  BY <1>1, <1>3, GoesOn DEF WInv
<1>5. Types'
  BY <1>4 DEF WInv, Types, Lock, db
<1>6. \A d \in Caller : call[d].stage \notin Working
  BY DEF WInv, Exclusive, Lock, WorkspacesAssumption
<1>7. \A d \in Caller : call'[d].stage \in Working <=> d = c
  BY <1>3, <1>4, <1>6
<1>8. Exclusive'
  BY <1>7 DEF Exclusive, Lock
<1>9. Fits(names, members, claims)'
  BY DEF WInv, Fits, Lock, db
<1>10. CopySoFar'
  <2>1. NamesSoFar(c)' /\ MembersSoFar(c)' /\ (txClaims = claims)'
    BY <1>2, <1>4 DEF NamesSoFar, MembersSoFar, Lock, db
  <2>2. call'[c].stage # "commit"
    BY <1>4
  <2> QED
    BY <1>7, <2>1, <2>2 DEF CopySoFar
<1>11. Stages'
  <2>1. SUFFICES ASSUME NEW d \in Caller, call'[d] # Idle
                 PROVE  /\ call'[d].op = "add" => names'[call'[d].ws] # Absent /\ call'[d].stage # "workspace"
                        /\ call'[d].op = "create" => call'[d].stage # "look"
    BY DEF Stages
  <2>2. CASE d = c
    BY <1>2, <1>4, <2>2 DEF WInv, Stages, Lock, db
  <2>3. CASE d # c
    BY <1>4, <2>1, <2>3 DEF WInv, Stages, Lock, db
  <2> QED
    BY <2>2, <2>3
<1> QED
  BY <1>5, <1>8, <1>9, <1>10, <1>11 DEF WInv

\* The death of the process drops the copy and the calls.
LEMMA CrashKeeps ==
  ASSUME WInv, WorkspacesAssumption, Crash PROVE WInv'
<1>1. \A c \in Caller : call'[c] = Idle
  BY DEF Crash
<1>2. Types'
  BY DEF WInv, Types, Crash, db, txCopy
<1>3. Exclusive' /\ CopySoFar' /\ Stages'
  BY <1>1 DEF Exclusive, CopySoFar, Stages, Crash, Idle, Working, WorkspacesAssumption
<1>4. Fits(names, members, claims)'
  BY DEF WInv, Fits, Crash, db
<1> QED
  BY <1>2, <1>3, <1>4 DEF WInv

\* A new membership with its claim, in a workspace that is there or is new, fits.
LEMMA ClaimFits ==
  ASSUME WorkspacesAssumption,
         NEW n \in [Workspace -> Name \union {Absent}], NEW m \in SUBSET (Workspace \X User),
         NEW cl \in SUBSET Claims, Fits(n, m, cl),
         NEW w \in Workspace, NEW u \in User, NEW k \in Name, NEW n2,
         \/ n[w] = Absent /\ n2 = [n EXCEPT ![w] = k]
         \/ n[w] = k /\ n2 = n,
         \A x \in cl : ~(x.user = u /\ Fold[x.name] = Fold[k])
  PROVE  Fits(n2, m \union {<<w, u>>}, cl \union {[user |-> u, name |-> k, workspace |-> w]})
<1> DEFINE new == [user |-> u, name |-> k, workspace |-> w]
           m2  == m \union {<<w, u>>}
<1>1. n2[w] = k /\ k # Absent
  BY DEF WorkspacesAssumption
<1>2. \A v \in Workspace : n[v] # Absent => n2[v] = n[v]
  OBVIOUS
<1>3. \A x \in m2 : n2[x[1]] # Absent
                     /\ [user |-> x[2], name |-> n2[x[1]], workspace |-> x[1]] \in cl \union {new}
  <2>1. SUFFICES ASSUME NEW x \in m2
                 PROVE  /\ n2[x[1]] # Absent
                        /\ [user |-> x[2], name |-> n2[x[1]], workspace |-> x[1]] \in cl \union {new}
    OBVIOUS
  <2>2. CASE x \in m
    <3>1. x[1] \in Workspace /\ n[x[1]] # Absent
          /\ [user |-> x[2], name |-> n[x[1]], workspace |-> x[1]] \in cl
      BY <2>2 DEF Fits
    <3> QED
      BY <1>2, <3>1
  <2>3. CASE x = <<w, u>>
    BY <1>1, <2>3
  <2> QED
    BY <2>2, <2>3
<1>4. \A x \in cl \union {new} : <<x.workspace, x.user>> \in m2 /\ x.name = n2[x.workspace]
  <2>1. SUFFICES ASSUME NEW x \in cl \union {new}
                 PROVE  <<x.workspace, x.user>> \in m2 /\ x.name = n2[x.workspace]
    OBVIOUS
  <2>2. CASE x \in cl
    <3>1. <<x.workspace, x.user>> \in m /\ x.name = n[x.workspace] /\ x.workspace \in Workspace
      BY <2>2 DEF Fits, Claims
    <3>2. n[x.workspace] # Absent
      BY <3>1 DEF Fits
    <3> QED
      BY <1>2, <3>1, <3>2
  <2>3. CASE x = new
    BY <1>1, <2>3
  <2> QED
    BY <2>2, <2>3
<1>5. \A x, y \in cl \union {new} : x.user = y.user /\ Fold[x.name] = Fold[y.name] => x = y
  BY DEF Fits
<1>6. \A v \in Workspace : n2[v] # Absent => \E x \in m2 : x[1] = v
  <2>1. SUFFICES ASSUME NEW v \in Workspace, n2[v] # Absent PROVE \E x \in m2 : x[1] = v
    OBVIOUS
  <2>2. CASE v = w
    <3>1. <<w, u>> \in m2 /\ <<w, u>>[1] = w
      OBVIOUS
    <3> QED
      BY <2>2, <3>1
  <2>3. CASE v # w
    BY <2>1, <2>3 DEF Fits
  <2> QED
    BY <2>2, <2>3
<1> QED
  BY <1>3, <1>4, <1>5, <1>6 DEF Fits

\* From its INSERT on, the copy has the row of the new workspace.
LEMMA InsertWorkspaceKeeps ==
  ASSUME WInv, NEW c \in Caller, InsertWorkspace(c) PROVE WInv'
<1>1. call[c].stage = "workspace" /\ call[c].stage \in Working /\ Goes(c, "member")
  BY DEF InsertWorkspace, InTx, Working
<1>2. call[c] \in Running /\ call[c] # Idle
  BY <1>1, HolderRuns DEF WInv
<1>3. call[c].op = "create" /\ txNames = names /\ txMembers = members /\ txClaims = claims
  BY <1>1, <1>2 DEF WInv, Stages, CopySoFar, NamesSoFar, MembersSoFar, Working, Running
<1>4. names[call[c].ws] = Absent /\ txNames' = [names EXCEPT ![call[c].ws] = call[c].name]
  BY <1>3 DEF InsertWorkspace
<1>5. txNames' \in [Workspace -> Name \union {Absent}]
  BY <1>2, <1>4 DEF WInv, Types, Running
<1> QED
  BY <1>1, <1>3, <1>4, <1>5, StatementKeeps DEF InsertWorkspace, Working, WInv, Types

\* What the copy has of the names, whatever statement comes next.
LEMMA NamesOfCopy ==
  ASSUME WInv, NEW c \in Caller, call[c].stage \in Working, call[c].stage # "workspace"
  PROVE  IF call[c].op = "create"
         THEN names[call[c].ws] = Absent /\ txNames = [names EXCEPT ![call[c].ws] = call[c].name]
         ELSE txNames = names
BY DEF WInv, CopySoFar, NamesSoFar

\* From its INSERT on, the copy has the membership.
LEMMA InsertMemberKeeps ==
  ASSUME WInv, NEW c \in Caller, InsertMember(c) PROVE WInv'
<1> DEFINE s == IF call[c].op = "create" THEN "claim" ELSE "look"
<1>1. call[c].stage = "member" /\ call[c].stage \in Working /\ Goes(c, s)
  BY DEF InsertMember, InTx, Working
<1>2. call[c] \in Running
  BY <1>1, HolderRuns DEF WInv
<1>3. s \in Working \ {"workspace"} /\ (s = "look" => call[c].op = "add") /\ s # "commit"
  BY <1>2 DEF Working, Running
<1>4. txMembers = members /\ txClaims = claims
  BY <1>1 DEF WInv, CopySoFar, MembersSoFar
<1>5. txMembers' = members \union {<<call[c].ws, call[c].user>>} /\ txMembers' \subseteq Workspace \X User
  BY <1>2, <1>4 DEF InsertMember, WInv, Types, Running
<1>6. UNCHANGED <<txNames, txClaims>> /\ UNCHANGED <<db, tx>>
  BY DEF InsertMember
<1>7. txNames' \in [Workspace -> Name \union {Absent}] /\ txClaims' \subseteq Claims
  BY <1>6 DEF WInv, Types
<1>8. IF call[c].op = "create"
      THEN names[call[c].ws] = Absent /\ txNames' = [names EXCEPT ![call[c].ws] = call[c].name]
      ELSE txNames' = names
  BY <1>1, <1>6, NamesOfCopy
<1>9. s \in {"look", "claim", "commit"}
  OBVIOUS
<1> HIDE DEF s
<1> QED
  BY <1>1, <1>3, <1>4, <1>5, <1>6, <1>7, <1>8, <1>9, StatementKeeps

\* In a claim's or a commit's stage of AddWorkspaceMember, the name that was read is one.
LEMMA NameRead ==
  ASSUME WInv, WorkspacesAssumption, NEW c \in Caller, call[c].stage \in Working,
         call[c].op = "add"
  PROVE  call[c].ws \in Workspace /\ txNames = names /\ names[call[c].ws] \in Name
<1>1. call[c] # Idle /\ call[c].ws \in Workspace
  BY HolderRuns DEF WInv
<1>2. names[call[c].ws] # Absent /\ txNames = names
  BY <1>1 DEF WInv, Stages, CopySoFar, NamesSoFar
<1> QED
  BY <1>1, <1>2 DEF WInv, Types

\* The SELECTs leave the copy as it is: either the claim is still to come, or it is there
\* already and the INSERT before has added nothing.
LEMMA LookKeeps ==
  ASSUME WInv, WorkspacesAssumption, NEW c \in Caller, Look(c) PROVE WInv'
<1> DEFINE found == ClaimsOf(call[c].user, txNames[call[c].ws])
<1>1. call[c].stage = "look" /\ call[c].stage \in Working
  BY DEF Look, InTx, Working
<1>2. call[c] \in Running /\ call[c].ws \in Workspace /\ call[c].user \in User /\ call[c] # Idle
  BY <1>1, HolderRuns DEF WInv
<1>3. call[c].op = "add"
  BY <1>1, <1>2 DEF WInv, Stages, Running
<1>4. /\ txNames = names /\ txClaims = claims
      /\ txMembers = members \union {<<call[c].ws, call[c].user>>}
  BY <1>1, <1>3 DEF WInv, CopySoFar, NamesSoFar, MembersSoFar
<1>5. UNCHANGED db
  BY DEF Look
<1>6. ASSUME Goes(c, "claim"), UNCHANGED <<tx, txCopy>> PROVE WInv'
  <2>1. UNCHANGED <<db, tx>> /\ "claim" \in Working \ {"workspace"}
    BY <1>5, <1>6 DEF Working
  <2>2. UNCHANGED <<txNames, txMembers, txClaims>>
    BY <1>6 DEF txCopy
  <2>3. /\ txNames' \in [Workspace -> Name \union {Absent}]
        /\ txMembers' \subseteq Workspace \X User /\ txClaims' \subseteq Claims
    BY <2>2 DEF WInv, Types
  <2> QED
    BY <1>1, <1>3, <1>4, <1>6, <2>1, <2>2, <2>3, StatementKeeps
<1>7. ASSUME found # {}, \A x \in found : x.workspace = call[c].ws, Goes(c, "commit"),
             UNCHANGED <<tx, txCopy>>
      PROVE  WInv'
  <2>1. UNCHANGED <<db, tx>> /\ "commit" \in Working \ {"workspace"}
    BY <1>5, <1>7 DEF Working
  <2>2. UNCHANGED <<txNames, txMembers, txClaims>>
    BY <1>7 DEF txCopy
  <2>3. /\ txNames' \in [Workspace -> Name \union {Absent}]
        /\ txMembers' \subseteq Workspace \X User /\ txClaims' \subseteq Claims
    BY <2>2 DEF WInv, Types
  <2>4. PICK x \in claims : x.user = call[c].user /\ x.workspace = call[c].ws
    BY <1>4, <1>7 DEF ClaimsOf
  <2>5. <<call[c].ws, call[c].user>> \in members
    BY <2>4 DEF WInv, Fits
  <2>6. Fits(txNames, txMembers, txClaims)'
    <3>1. txNames' = names /\ txMembers' = members /\ txClaims' = claims
      BY <1>4, <2>2, <2>5
    <3> QED
      BY <3>1 DEF WInv, Fits
  <2> QED
    BY <1>1, <1>3, <1>4, <1>7, <2>1, <2>2, <2>3, <2>6, StatementKeeps
<1>8. ASSUME Returns(c, "exists") PROVE WInv'
  BY <1>1, <1>5, <1>8, ReturnKeeps DEF WInv, Types, Fits, Answers, db
<1> QED
  BY <1>6, <1>7, <1>8 DEF Look

\* The claim completes the copy.
LEMMA ClaimKeeps ==
  ASSUME WInv, WorkspacesAssumption, NEW c \in Caller, Claim(c) PROVE WInv'
<1> DEFINE w == call[c].ws
           u == call[c].user
           k == NameOf(c)
           new == [user |-> u, name |-> k, workspace |-> w]
<1>1. call[c].stage = "claim" /\ call[c].stage \in Working
  BY DEF Claim, InTx, Working
<1>2. call[c] \in Running /\ w \in Workspace /\ u \in User /\ call[c].name \in Name
  BY <1>1, HolderRuns DEF WInv
<1>3. txClaims = claims /\ txMembers = members \union {<<w, u>>}
  BY <1>1 DEF WInv, CopySoFar, MembersSoFar
<1>4. k \in Name /\ (\/ names[w] = Absent /\ txNames = [names EXCEPT ![w] = k]
                     \/ names[w] = k /\ txNames = names)
  <2>1. CASE call[c].op = "create"
    BY <1>1, <1>2, <2>1, NamesOfCopy DEF NameOf
  <2>2. CASE call[c].op = "add"
    BY <1>1, <2>2, NameRead DEF NameOf
  <2> QED
    BY <1>2, <2>1, <2>2 DEF Running
<1>5. /\ txClaims' = claims \union {new} /\ txMembers' = txMembers /\ txNames' = txNames
      /\ UNCHANGED <<db, tx>> /\ Goes(c, "commit")
  BY <1>3 DEF Claim
<1>6. \A x \in claims : ~(x.user = u /\ Fold[x.name] = Fold[k])
  BY <1>3 DEF Claim, ClaimsOf
<1>7. new \in Claims
  BY <1>2, <1>4 DEF Claims
<1>8. Fits(txNames, txMembers, claims \union {new})
  <2>1. /\ names \in [Workspace -> Name \union {Absent}] /\ members \in SUBSET (Workspace \X User)
        /\ claims \in SUBSET Claims /\ Fits(names, members, claims)
    BY DEF WInv, Types
  <2> HIDE DEF w, u, k
  <2> QED
    BY <1>2, <1>3, <1>4, <1>6, <2>1, ClaimFits
<1>9. Fits(txNames, txMembers, txClaims)'
  BY <1>5, <1>8 DEF Fits
<1>10. /\ txNames' \in [Workspace -> Name \union {Absent}]
       /\ txMembers' \subseteq Workspace \X User /\ txClaims' \subseteq Claims
  BY <1>3, <1>5, <1>7 DEF WInv, Types
<1>11. IF call[c].op = "create"
       THEN names[call[c].ws] = Absent /\ txNames' = [names EXCEPT ![call[c].ws] = call[c].name]
       ELSE txNames' = names
  BY <1>1, <1>5, NamesOfCopy
<1>12. "commit" \in Working \ {"workspace"}
  BY DEF Working
<1> HIDE DEF new
<1> QED
  BY <1>1, <1>3, <1>5, <1>9, <1>10, <1>11, <1>12, StatementKeeps

\* A return before the COMMIT.
LEMMA GivesUp ==
  ASSUME WInv, WorkspacesAssumption, NEW c \in Caller, tx = c, NEW r \in Answers,
         Returns(c, r), UNCHANGED db
  PROVE  WInv'
<1>1. call[c].stage \in Working
  BY DEF WInv, Exclusive
<1> QED
  BY <1>1, ReturnKeeps DEF WInv, Types, Fits, db

\* The COMMIT puts a copy that fits in the place of the tables, and no workspace is lost.
LEMMA CommitKeeps ==
  ASSUME WInv, WorkspacesAssumption, NEW c \in Caller, Commit(c) PROVE WInv'
<1>1. call[c].stage = "commit" /\ call[c].stage \in Working
  BY DEF Commit, InTx, Working
<1>2. Fits(txNames, txMembers, txClaims)
  BY <1>1 DEF WInv, CopySoFar
<1>3. names' = txNames /\ members' = txMembers /\ claims' = txClaims /\ Returns(c, "done")
  BY DEF Commit
<1>4. Fits(names, members, claims)'
  BY <1>2, <1>3 DEF Fits
<1>5. \A w \in Workspace : names[w] # Absent => names'[w] # Absent
  BY <1>1, <1>3, NamesOfCopy DEF WInv, Types
<1>6. "done" \in Answers
  BY DEF Answers
<1>7. /\ names' \in [Workspace -> Name \union {Absent}]
      /\ members' \subseteq Workspace \X User /\ claims' \subseteq Claims
  BY <1>3 DEF WInv, Types
<1> QED
  BY <1>1, <1>3, <1>4, <1>5, <1>6, <1>7, ReturnKeeps

\* Every step keeps the invariant.
LEMMA StepKeeps ==
  ASSUME WInv, WorkspacesAssumption, [StoreNext]_storeVars PROVE WInv'
<1>1. ASSUME NEW c \in Caller, Lock(c) PROVE WInv'
  BY <1>1, LockKeeps
<1>2. ASSUME NEW c \in Caller, Statement(c) PROVE WInv'
  <2>1. CASE InsertWorkspace(c)
    BY <2>1, InsertWorkspaceKeeps
  <2>2. CASE InsertMember(c)
    BY <2>2, InsertMemberKeeps
  <2>3. CASE Look(c)
    BY <2>3, LookKeeps
  <2>4. CASE Claim(c)
    BY <2>4, ClaimKeeps
  <2>5. CASE Conflict(c)
    BY <2>5, GivesUp DEF Conflict, InTx, Answers
  <2>6. CASE Commit(c)
    BY <2>6, CommitKeeps
  <2> QED
    BY <1>2, <2>1, <2>2, <2>3, <2>4, <2>5, <2>6 DEF Statement
<1>3. ASSUME NEW c \in Caller, Fails(c) PROVE WInv'
  BY <1>3, GivesUp DEF Fails, Answers
<1>4. ASSUME NEW c \in Caller, NEW u \in User, NEW n \in Name, Create(c, u, n) PROVE WInv'
  <2>1. PICK w \in Workspace : Call(c, "create", w, u, n)
    BY <1>4 DEF Create
  <2> QED
    BY <1>4, <2>1, CallKeeps
<1>5. ASSUME NEW c \in Caller, NEW u \in User, NEW w \in Workspace, Add(c, u, w) PROVE WInv'
  <2>1. names[w] # Absent /\ Call(c, "add", w, u, names[w])
    BY <1>5 DEF Add
  <2>2. names[w] \in Name
    BY <2>1 DEF WInv, Types
  <2> QED
    BY <1>5, <2>1, <2>2, CallKeeps
<1>6. CASE Crash
  BY <1>6, CrashKeeps
<1>7. CASE UNCHANGED storeVars
  BY <1>7 DEF storeVars, WInv, Types, Exclusive, Fits, CopySoFar, NamesSoFar, MembersSoFar, Stages
<1> QED
  BY <1>1, <1>2, <1>3, <1>4, <1>5, <1>6, <1>7 DEF StoreNext

-----------------------------------------------------------------------------
(* What holds of every behaviour.                                           *)

\* Two workspaces of one user have two claims, and the claims of a user differ.
LEMMA NamesFit == WInv => NamesDistinct
<1>1. ASSUME WInv, NEW m \in members, NEW k \in members,
             m[2] = k[2], Fold[names[m[1]]] = Fold[names[k[1]]]
      PROVE  m[1] = k[1]
  <2> DEFINE x == [user |-> m[2], name |-> names[m[1]], workspace |-> m[1]]
             y == [user |-> k[2], name |-> names[k[1]], workspace |-> k[1]]
  <2>1. x \in claims /\ y \in claims
    BY <1>1 DEF WInv, Fits
  <2>2. x.user = y.user /\ Fold[x.name] = Fold[y.name]
    BY <1>1
  <2>3. x = y
    BY <1>1, <2>1, <2>2 DEF WInv, Fits
  <2>4. x.workspace = y.workspace
    BY <2>3
  <2> QED
    BY <2>4
<1> QED
  BY <1>1 DEF NamesDistinct

\* The invariant of the two operations.
THEOREM WorkspaceInvariant == StoreSpec => []WInv
<1>1. StoreInit => WInv
  BY InitOK, WorkspacesAssumption
<1>2. WInv /\ [StoreNext]_storeVars => WInv'
  BY StepKeeps, WorkspacesAssumption
<1> QED
  BY <1>1, <1>2, PTL DEF StoreSpec

\* The tables keep their types, and only the holder of workspaceMu works on its copy.
THEOREM StoreTypes == StoreSpec => []StoreTypeOK
<1>1. WInv => StoreTypeOK
  BY DEF WInv, Types, Exclusive, Working, StoreTypeOK
<1> QED
  BY <1>1, WorkspaceInvariant, PTL

\* A membership always has its claim, under the name of the workspace, and a claim its membership.
THEOREM ClaimsKept == StoreSpec => []ClaimsMatchMembers
<1>1. WInv => ClaimsMatchMembers
  BY DEF WInv, Fits, ClaimsMatchMembers
<1> QED
  BY <1>1, WorkspaceInvariant, PTL

\* However many requests overlap, no user has two workspaces whose names differ in case only.
THEOREM NamesStayDistinct == StoreSpec => []NamesDistinct
<1>1. WInv => NamesDistinct
  BY NamesFit
<1> QED
  BY <1>1, WorkspaceInvariant, PTL

-----------------------------------------------------------------------------
(* The start of the server: main's steps are steps of the metadata store,  *)
(* so the tables fit together in every behaviour of Bootstrap too.         *)

\* What a call knows of its member: it is in the copy from its INSERT on and stays in the
\* table after the commit, as no member is ever removed.
Joined ==
  \A c \in Caller :
    /\ call[c].stage \in Working => members \subseteq txMembers
    /\ call[c].stage \in {"look", "claim", "commit"} => <<call[c].ws, call[c].user>> \in txMembers
    /\ call[c].stage = "done" => (call[c].result = "done" => <<call[c].ws, call[c].user>> \in members)

\* What main has at each of its steps.
MainKnows ==
  /\ users \subseteq Row /\ email \in Email
  /\ phase \in {"find default", "ensuring", "serving"} =>
       admin \in User /\ \E x \in users : x.id = admin /\ x.email = email
  /\ phase = "ensuring" => call[Main].ws = Default /\ call[Main].user = admin
  /\ phase = "serving" => <<Default, admin>> \in members

BInv == WInv /\ Joined /\ MainKnows

-----------------------------------------------------------------------------
(* Members, through the steps of a call.                                    *)

\* A call goes on: what is new is about its own stage.
LEMMA GoesJoined ==
  ASSUME WInv, Joined, NEW c \in Caller, call[c] \in Running,
         NEW s \in {"waiting"} \union Working, Goes(c, s), UNCHANGED members,
         \A d \in Caller \ {c} : call[d].stage \notin Working,
         s \in Working => members \subseteq txMembers',
         s \in {"look", "claim", "commit"} => <<call[c].ws, call[c].user>> \in txMembers'
  PROVE  /\ Joined'
         /\ \A d \in Caller : call'[d].ws = call[d].ws /\ call'[d].user = call[d].user
<1>1. /\ call'[c].stage = s /\ call'[c].ws = call[c].ws /\ call'[c].user = call[c].user
      /\ \A d \in Caller \ {c} : call'[d] = call[d]
  BY GoesOn DEF WInv
<1>2. s # "done"
  BY DEF Working
<1>3. ASSUME NEW d \in Caller
      PROVE  /\ call'[d].stage \in Working => members' \subseteq txMembers'
             /\ call'[d].stage \in {"look", "claim", "commit"} => <<call'[d].ws, call'[d].user>> \in txMembers'
             /\ call'[d].stage = "done" => (call'[d].result = "done" => <<call'[d].ws, call'[d].user>> \in members')
  <2>1. CASE d = c
    BY <1>1, <1>2, <2>1
  <2>2. CASE d # c
    <3>1. call'[d] = call[d] /\ call[d].stage \notin Working
      BY <1>1, <2>2
    <3> QED
      BY <3>1 DEF Joined, Working
  <2> QED
    BY <2>1, <2>2
<1>4. Joined'
  BY <1>3 DEF Joined
<1> QED
  BY <1>1, <1>4

\* A call returns: with "done" only if its member is there.
LEMMA ReturnsJoined ==
  ASSUME WInv, Joined, NEW c \in Caller, call[c].stage \in Working, NEW r \in Answers, Returns(c, r),
         members \subseteq members', r = "done" => <<call[c].ws, call[c].user>> \in members'
  PROVE  /\ Joined'
         /\ \A d \in Caller : call'[d].ws = call[d].ws /\ call'[d].user = call[d].user
<1>1. call[c] \in Running /\ \A d \in Caller : call[d].stage \in Working => d = c
  BY HolderRuns DEF WInv
<1>2. /\ call'[c].stage = "done" /\ call'[c].result = r
      /\ call'[c].ws = call[c].ws /\ call'[c].user = call[c].user
      /\ \A d \in Caller \ {c} : call'[d] = call[d]
  BY <1>1, ReturnsOnce DEF WInv, Returns
<1>3. ASSUME NEW d \in Caller
      PROVE  /\ call'[d].stage \in Working => members' \subseteq txMembers'
             /\ call'[d].stage \in {"look", "claim", "commit"} => <<call'[d].ws, call'[d].user>> \in txMembers'
             /\ call'[d].stage = "done" => (call'[d].result = "done" => <<call'[d].ws, call'[d].user>> \in members')
  <2>1. CASE d = c
    BY <1>2, <2>1 DEF Working
  <2>2. CASE d # c
    <3>1. call'[d] = call[d] /\ call[d].stage \notin Working
      BY <1>1, <1>2, <2>2
    <3> QED
      BY <3>1 DEF Joined, Working
  <2> QED
    BY <2>1, <2>2
<1>4. Joined'
  BY <1>3 DEF Joined
<1> QED
  BY <1>2, <1>4

\* Every step of a call: members stay, and the call keeps its arguments.
LEMMA StepJoined ==
  ASSUME WInv, Joined, WorkspacesAssumption, NEW c \in Caller, Lock(c) \/ Statement(c) \/ Fails(c)
  PROVE  /\ Joined' /\ members \subseteq members'
         /\ \A d \in Caller : call'[d].ws = call[d].ws /\ call'[d].user = call[d].user
<1>1. CASE Lock(c)
  <2>1. call[c] \in Running
    <3>1. call[c] \in {Idle} \union Running \union Returned /\ call[c].stage = "waiting"
      BY <1>1 DEF WInv, Types, Lock
    <3> QED
      BY <3>1 DEF Idle, Returned
  <2>2. \A d \in Caller : call[d].stage \notin Working
    BY <1>1 DEF WInv, Exclusive, Lock, WorkspacesAssumption
  <2>3. PICK s \in {"workspace", "member"} : Goes(c, s)
    BY <1>1 DEF Lock
  <2>4. UNCHANGED members /\ txMembers' = members /\ s \in Working
    BY <1>1, <2>3 DEF Lock, db, Working
  <2>5. s \notin {"look", "claim", "commit"}
    BY <2>3
  <2> QED
    BY <2>1, <2>2, <2>3, <2>4, <2>5, GoesJoined
<1>2. CASE Statement(c) \/ Fails(c)
  <2>1. call[c].stage \in Working
    BY <1>2 DEF Statement, InsertWorkspace, InsertMember, Look, Claim, Conflict, Commit, InTx,
                Fails, WInv, Exclusive, Working
  <2>2. call[c] \in Running /\ \A d \in Caller \ {c} : call[d].stage \notin Working
    BY <2>1, HolderRuns DEF WInv
  <2>3. members \subseteq txMembers
    BY <2>1 DEF Joined
  <2>4. CASE InsertWorkspace(c)
    <3>1. Goes(c, "member") /\ UNCHANGED <<members, txMembers>> /\ "member" \in Working
      BY <2>4 DEF InsertWorkspace, db, Working
    <3> QED
      BY <2>2, <2>3, <3>1, GoesJoined
  <2>5. CASE InsertMember(c)
    <3>1. PICK s \in {"claim", "look"} : Goes(c, s)
      BY <2>5 DEF InsertMember
    <3>2. /\ UNCHANGED members /\ s \in Working
          /\ txMembers' = txMembers \union {<<call[c].ws, call[c].user>>}
      BY <2>5, <3>1 DEF InsertMember, db, Working
    <3> QED
      BY <2>2, <2>3, <3>1, <3>2, GoesJoined
  <2>6. CASE Look(c)
    <3>1. CASE UNCHANGED <<members, txMembers>> /\ \E s \in {"claim", "commit"} : Goes(c, s)
      <4>1. PICK s \in {"claim", "commit"} : Goes(c, s)
        BY <3>1
      <4>2. <<call[c].ws, call[c].user>> \in txMembers /\ s \in Working
        BY <2>6, <4>1 DEF Look, InTx, Joined, Working
      <4> QED
        BY <2>2, <2>3, <3>1, <4>1, <4>2, GoesJoined
    <3>2. CASE Returns(c, "exists") /\ UNCHANGED members
      BY <2>1, <3>2, ReturnsJoined DEF Answers
    <3> QED
      BY <2>6, <3>1, <3>2 DEF Look, db, txCopy
  <2>7. CASE Claim(c)
    <3>1. Goes(c, "commit") /\ UNCHANGED <<members, txMembers>> /\ "commit" \in Working
      BY <2>7 DEF Claim, db, Working
    <3>2. <<call[c].ws, call[c].user>> \in txMembers
      BY <2>7 DEF Claim, InTx, Joined
    <3> QED
      BY <2>2, <2>3, <3>1, <3>2, GoesJoined
  <2>8. CASE Conflict(c) \/ Fails(c)
    <3>1. PICK r \in {"exists", "error"} : Returns(c, r)
      BY <2>8 DEF Conflict, Fails
    <3>2. UNCHANGED members /\ r \in Answers /\ r # "done"
      BY <2>8, <3>1 DEF Conflict, Fails, db, Answers
    <3> QED
      BY <2>1, <3>1, <3>2, ReturnsJoined
  <2>9. CASE Commit(c)
    <3>1. Returns(c, "done") /\ members' = txMembers /\ "done" \in Answers
      BY <2>9 DEF Commit, Answers
    <3>2. <<call[c].ws, call[c].user>> \in txMembers
      BY <2>9 DEF Commit, InTx, Joined
    <3> QED
      BY <2>1, <2>3, <3>1, <3>2, ReturnsJoined
  <2> QED
    BY <1>2, <2>4, <2>5, <2>6, <2>7, <2>8, <2>9 DEF Statement
<1> QED
  BY <1>1, <1>2

\* A new call knows nothing yet.
LEMMA CallJoined ==
  ASSUME WInv, Joined, NEW c \in Caller, NEW op, NEW w, NEW u, NEW n, Call(c, op, w, u, n)
  PROVE  /\ Joined' /\ UNCHANGED members /\ call'[c].ws = w /\ call'[c].user = u
         /\ \A d \in Caller \ {c} : call'[d] = call[d]
<1>1. /\ call'[c].stage = "waiting" /\ call'[c].ws = w /\ call'[c].user = u
      /\ \A d \in Caller \ {c} : call'[d] = call[d]
      /\ UNCHANGED <<members, txMembers>>
  BY DEF WInv, Types, Call, db, txCopy
<1>2. ASSUME NEW d \in Caller
      PROVE  /\ call'[d].stage \in Working => members' \subseteq txMembers'
             /\ call'[d].stage \in {"look", "claim", "commit"} => <<call'[d].ws, call'[d].user>> \in txMembers'
             /\ call'[d].stage = "done" => (call'[d].result = "done" => <<call'[d].ws, call'[d].user>> \in members')
  <2>1. CASE d = c
    BY <1>1, <2>1 DEF Working
  <2>2. CASE d # c
    BY <1>1, <2>2 DEF Joined
  <2> QED
    BY <2>1, <2>2
<1>3. Joined'
  BY <1>2 DEF Joined
<1> QED
  BY <1>1, <1>3

-----------------------------------------------------------------------------
(* The steps of Bootstrap.                                                  *)

\* Before the first start: no calls, no members, the users that were put there.
LEMMA InitBoot == ASSUME Init, WorkspacesAssumption, BootstrapAssumption PROVE BInv
<1>1. WInv
  BY InitOK DEF Init
<1>2. Joined
  BY DEF Joined, Init, StoreInit, Idle, Working
<1>3. MainKnows
  BY DEF MainKnows, Init, BootstrapAssumption
<1> QED
  BY <1>1, <1>2, <1>3 DEF BInv

\* A step that leaves the store alone.
LEMMA StoreRests ==
  ASSUME BInv, WorkspacesAssumption, UNCHANGED storeVars PROVE WInv' /\ Joined'
<1>1. WInv'
  BY StepKeeps DEF BInv
<1>2. Joined'
  BY DEF BInv, Joined, storeVars
<1> QED
  BY <1>1, <1>2

\* The statements of ensureDefaultUser.
LEMMA UserSteps ==
  ASSUME BInv, WorkspacesAssumption, BootstrapAssumption,
         Start \/ FindUser \/ CreateUser \/ UserTaken \/ StatementFails
  PROVE  BInv'
<1>1. UNCHANGED storeVars
  BY DEF Start, FindUser, CreateUser, UserTaken, StatementFails
<1>2. CASE FindUser
  <2>1. users' = users /\ email' = email /\ users \subseteq Row
    BY <1>2 DEF FindUser, BInv, MainKnows
  <2>2. CASE UserByEmail(email) = {}
    <3>1. phase' = "create user" /\ MainKnows'
      BY <1>2, <2>1, <2>2 DEF BInv, MainKnows, FindUser
    <3> QED
      BY <1>1, <3>1, StoreRests DEF BInv
  <2>3. CASE UserByEmail(email) # {}
    <3>1. PICK x \in UserByEmail(email) : admin' = x.id
      BY <1>2, <2>3 DEF FindUser
    <3>2. x \in users /\ x.email = email /\ x.id \in User
      BY <2>1, <3>1 DEF UserByEmail, Row
    <3>3. phase' = "find default"
      BY <1>2, <2>3 DEF FindUser
    <3>4. MainKnows'
      BY <2>1, <3>1, <3>2, <3>3 DEF BInv, MainKnows
    <3> QED
      BY <1>1, <3>4, StoreRests DEF BInv
  <2> QED
    BY <2>2, <2>3
<1>3. CASE CreateUser
  <2> DEFINE new == [id |-> DefaultUser, email |-> email]
  <2>1. new \in Row /\ new \in users' /\ new.id = DefaultUser /\ new.email = email
    BY <1>3 DEF CreateUser, Row, BInv, MainKnows, BootstrapAssumption
  <2>2. users' = users \union {new} /\ admin' = DefaultUser /\ phase' = "find default" /\ email' = email
    BY <1>3 DEF CreateUser
  <2> HIDE DEF new
  <2>3. admin' \in User /\ users' \subseteq Row
    BY <2>1, <2>2 DEF BInv, MainKnows, BootstrapAssumption
  <2>4. MainKnows'
    BY <2>1, <2>2, <2>3 DEF BInv, MainKnows
  <2> QED
    BY <1>1, <2>4, StoreRests DEF BInv
<1>4. CASE UserTaken \/ StatementFails
  <2>1. MainKnows'
    BY <1>4 DEF BInv, MainKnows, UserTaken, StatementFails
  <2> QED
    BY <1>1, <2>1, StoreRests DEF BInv
<1>5. Start => MainKnows'
  BY DEF BInv, MainKnows, Start
<1> QED
  BY <1>1, <1>2, <1>3, <1>4, <1>5, StoreRests DEF BInv

\* ensureDefault: the call it makes, and what it returned.
LEMMA DefaultSteps ==
  ASSUME BInv, WorkspacesAssumption, BootstrapAssumption, FindDefault \/ Ensured
  PROVE  BInv'
<1>1. CASE FindDefault
  <2>1. admin \in User /\ Main \in Caller /\ Default \in Workspace /\ DefaultName \in Name
    BY <1>1 DEF FindDefault, BInv, MainKnows, BootstrapAssumption
  <2>2. PICK op \in {"create", "add"}, n \in Name :
          Call(Main, op, Default, admin, n) /\ (op = "add" => names[Default] # Absent)
    <3>1. CASE names[Default] = Absent
      BY <1>1, <2>1, <3>1 DEF FindDefault
    <3>2. CASE names[Default] # Absent
      <4>1. names[Default] \in Name
        BY <2>1, <3>2 DEF BInv, WInv, Types
      <4> QED
        BY <1>1, <3>2, <4>1 DEF FindDefault
    <3> QED
      BY <3>1, <3>2
  <2>3. WInv'
    BY <2>1, <2>2, CallKeeps DEF BInv
  <2>4. Joined' /\ call'[Main].ws = Default /\ call'[Main].user = admin
    BY <2>1, <2>2, CallJoined DEF BInv
  <2>5. MainKnows'
    BY <1>1, <2>4 DEF BInv, MainKnows, FindDefault
  <2> QED
    BY <2>3, <2>4, <2>5 DEF BInv
<1>2. CASE Ensured
  <2>1. WInv' /\ Joined'
    BY <1>2, StoreRests DEF Ensured
  <2>2. call[Main].ws = Default /\ call[Main].user = admin /\ call[Main].stage = "done"
    BY <1>2 DEF Ensured, BInv, MainKnows
  <2>3. call[Main].result = "done" => <<Default, admin>> \in members
    BY <2>2 DEF BInv, Joined, BootstrapAssumption
  <2>4. UNCHANGED <<users, email, admin, members>>
    BY <1>2 DEF Ensured, storeVars
  <2>5. phase' = (IF call[Main].result = "done" THEN "serving" ELSE "fatal")
    BY <1>2 DEF Ensured
  <2>6. admin \in User /\ \E x \in users : x.id = admin /\ x.email = email
    BY <1>2 DEF Ensured, BInv, MainKnows
  <2>7. MainKnows'
    BY <2>3, <2>4, <2>5, <2>6 DEF BInv, MainKnows
  <2> QED
    BY <2>1, <2>7 DEF BInv
<1> QED
  BY <1>1, <1>2

\* The death of the process.
LEMMA DownKeeps ==
  ASSUME BInv, WorkspacesAssumption, Down PROVE BInv'
<1>1. Crash /\ phase' = "down" /\ UNCHANGED <<email, users, admin, failed>>
  BY DEF Down
<1>2. WInv'
  BY <1>1, CrashKeeps DEF BInv
<1>3. Joined'
  BY <1>1 DEF Joined, Crash, Idle, Working
<1>4. MainKnows'
  BY <1>1 DEF BInv, MainKnows
<1> QED
  BY <1>2, <1>3, <1>4 DEF BInv

\* Requests, and the steps of all calls, main's included.
LEMMA CallSteps ==
  ASSUME BInv, WorkspacesAssumption, BootstrapAssumption, UNCHANGED bootVars,
         StoreStep \/ \E c \in Caller \ {Main} : Request(c)
  PROVE  BInv'
<1>1. CASE StoreStep
  <2>1. PICK c \in Caller : Lock(c) \/ Statement(c) \/ Fails(c)
    BY <1>1 DEF StoreStep
  <2>2. WInv'
    BY <2>1, StepKeeps DEF BInv, StoreNext
  <2>3. /\ Joined' /\ members \subseteq members'
        /\ \A d \in Caller : call'[d].ws = call[d].ws /\ call'[d].user = call[d].user
    BY <2>1, StepJoined DEF BInv
  <2>4. MainKnows'
    BY <2>3 DEF BInv, MainKnows, bootVars, BootstrapAssumption
  <2> QED
    BY <2>2, <2>3, <2>4 DEF BInv
<1>2. CASE \E c \in Caller \ {Main} : Request(c)
  <2>1. PICK c \in Caller \ {Main}, x \in users, n \in Name : phase = "serving" /\ Create(c, x.id, n)
    BY <1>2 DEF Request
  <2>2. x.id \in User
    BY DEF BInv, MainKnows, Row
  <2>3. PICK w \in Workspace : Call(c, "create", w, x.id, n)
    BY <2>1 DEF Create
  <2>4. WInv'
    BY <2>2, <2>3, CallKeeps DEF BInv
  <2>5. Joined' /\ UNCHANGED members
    BY <2>3, CallJoined DEF BInv
  <2>6. MainKnows'
    BY <2>1, <2>5 DEF BInv, MainKnows, bootVars
  <2> QED
    BY <2>4, <2>5, <2>6 DEF BInv
<1> QED
  BY <1>1, <1>2

\* Every step keeps the invariant.
LEMMA BootKeeps ==
  ASSUME BInv, WorkspacesAssumption, BootstrapAssumption, [Next]_vars PROVE BInv'
<1>1. CASE UNCHANGED vars
  <2>1. MainKnows'
    BY <1>1 DEF vars, storeVars, bootVars, BInv, MainKnows
  <2> QED
    BY <1>1, <2>1, StoreRests DEF vars, BInv
<1> QED
  BY <1>1, UserSteps, DefaultSteps, DownKeeps, CallSteps DEF Next

-----------------------------------------------------------------------------
(* What holds of every behaviour.                                           *)

\* The invariant of main and of all calls.
THEOREM BootInvariant == Spec => []BInv
<1>1. Init => BInv
  BY InitBoot, WorkspacesAssumption, BootstrapAssumption
<1>2. BInv /\ [Next]_vars => BInv'
  BY BootKeeps, WorkspacesAssumption, BootstrapAssumption
<1> QED
  BY <1>1, <1>2, PTL DEF Spec

\* However the server was configured, interrupted and used before: when it serves, the
\* configured administrator exists and is a member of the default workspace.
THEOREM ServesWithOwner == Spec => []ServingHasOwner
<1>1. BInv => ServingHasOwner
  BY DEF BInv, MainKnows, ServingHasOwner, Hosts, UserByEmail
<1> QED
  BY <1>1, BootInvariant, PTL

\* With main among the callers, memberships have their claims and claims their memberships,
THEOREM BootClaims == Spec => []ClaimsMatchMembers
<1>1. BInv => ClaimsMatchMembers
  BY DEF BInv, WInv, Fits, ClaimsMatchMembers
<1> QED
  BY <1>1, BootInvariant, PTL

\* no user has two workspaces of one name,
THEOREM BootNames == Spec => []NamesDistinct
<1>1. BInv => NamesDistinct
  BY NamesFit DEF BInv
<1> QED
  BY <1>1, BootInvariant, PTL

-----------------------------------------------------------------------------
(* What the callers are told, main among them: an answer says what         *)
(* happened, and a start that gives up has one of three reasons.           *)

\* Two calls are never about one workspace: ids are fresh, and nobody but main names one.
Apart ==
  \A c, d \in Caller : c # d /\ call[c] # Idle /\ call[d] # Idle => call[c].ws # call[d].ws

\* The user of a call has the name elsewhere.
Elsewhere(c) ==
  \E m \in members : m[1] # call[c].ws /\ m[2] = call[c].user
                       /\ Fold[names[m[1]]] = Fold[call[c].name]

\* A new workspace is not there before "done"; the name of another is the one in its row,
\* and is free for its user when it is about to be claimed.
Says(c) ==
  call[c] # Idle =>
    /\ call[c].op = "create" /\ ~Told(c, "done") => names[call[c].ws] = Absent
    /\ call[c].op = "add" => call[c].name = names[call[c].ws]
    /\ call[c].op = "add" /\ call[c].stage = "claim"
         => ClaimsOf(call[c].user, txNames[call[c].ws]) = {}
    /\ Told(c, "exists") => Elsewhere(c)

Said == \A c \in Caller : Says(c)

\* Requests come only while the server serves; until then the calls are main's one.
Quiet ==
  /\ phase # "serving" => \A c \in Caller \ {Main} : call[c] = Idle
  /\ phase \in {"ensuring", "serving"} => call[Main] # Idle /\ call[Main].ws = Default
  /\ phase # "ensuring" => call[Main].stage \in {"idle", "done"}
  /\ phase = "ensuring" /\ call[Main].op = "create" => call[Main].name = DefaultName
  /\ phase = "create user" => UserByEmail(email) = {}

AInv == BInv /\ Apart /\ Said /\ Quiet /\ FatalExplained

-----------------------------------------------------------------------------
(* The steps of calls.                                                      *)

\* Whoever calls has arguments.
LEMMA CallTypes ==
  ASSUME Types, NEW c \in Caller, call[c] # Idle
  PROVE  /\ call[c].ws \in Workspace /\ call[c].user \in User /\ call[c].name \in Name
         /\ call[c].op \in {"create", "add"} /\ call[c].stage # "idle"
<1>1. call[c] \in Running \union Returned
  BY DEF Types
<1> QED
  BY <1>1 DEF Running, Returned, Working

\* What is told of another name stays true: members stay, and so do the names of workspaces
\* that are there.
LEMMA ElsewhereStays ==
  ASSUME WInv, NEW c \in Caller, Elsewhere(c), members \subseteq members',
         \A w \in Workspace : names[w] # Absent => names'[w] = names[w],
         call'[c].ws = call[c].ws, call'[c].user = call[c].user, call'[c].name = call[c].name
  PROVE  Elsewhere(c)'
<1>1. PICK m \in members : /\ m[1] # call[c].ws /\ m[2] = call[c].user
                           /\ Fold[names[m[1]]] = Fold[call[c].name]
  BY DEF Elsewhere
<1>2. m[1] \in Workspace /\ names[m[1]] # Absent
  BY <1>1 DEF WInv, Types, Fits
<1>3. m \in members' /\ names'[m[1]] = names[m[1]]
  BY <1>1, <1>2
<1> QED
  BY <1>1, <1>3 DEF Elsewhere

\* Other calls, when one moves.
LEMMA OthersSaid ==
  ASSUME WInv, Apart, Said, NEW c \in Caller, NEW d \in Caller \ {c}, call[c] # Idle,
         call'[d] = call[d], call[d].stage \notin Working, members \subseteq members',
         \A w \in Workspace : names[w] # Absent \/ w # call[c].ws => names'[w] = names[w]
  PROVE  Says(d)'
<1>1. CASE call[d] = Idle
  BY <1>1 DEF Says
<1>2. CASE call[d] # Idle
  <2>1. call[d].ws \in Workspace /\ call[d].ws # call[c].ws /\ Says(d)
    BY <1>2, CallTypes DEF Apart, Said, WInv
  <2>2. names'[call[d].ws] = names[call[d].ws] /\ call[d].stage # "claim"
    BY <2>1 DEF Working
  <2>3. Told(d, "exists") => Elsewhere(d)'
    BY <1>2, <2>1, ElsewhereStays DEF Says
  <2> QED
    BY <1>2, <2>1, <2>2, <2>3 DEF Says, Told
<1> QED
  BY <1>1, <1>2

\* The calls stay apart as long as they keep their workspaces.
LEMMA StayApart ==
  ASSUME Apart, \A d \in Caller : call'[d] # Idle => call[d] # Idle /\ call'[d].ws = call[d].ws
  PROVE  Apart'
BY DEF Apart

\* A call goes on.
LEMMA GoesSaid ==
  ASSUME WInv, Apart, Said, NEW c \in Caller, call[c] \in Running, call[c] # Idle,
         NEW s \in {"waiting"} \union Working, Goes(c, s), UNCHANGED <<names, members>>,
         \A d \in Caller \ {c} : call[d].stage \notin Working,
         s = "claim" /\ call[c].op = "add" =>
           {x \in txClaims' : x.user = call[c].user /\ Fold[x.name] = Fold[txNames'[call[c].ws]]} = {}
  PROVE  /\ Apart' /\ Said'
         /\ \A d \in Caller \ {c} : call'[d] = call[d]
         /\ call'[c] # Idle /\ call'[c].ws = call[c].ws /\ call'[c].op = call[c].op
         /\ call'[c].name = call[c].name
<1>1. /\ call'[c].stage = s /\ call'[c] # Idle
      /\ call'[c].op = call[c].op /\ call'[c].ws = call[c].ws
      /\ call'[c].user = call[c].user /\ call'[c].name = call[c].name
      /\ \A d \in Caller \ {c} : call'[d] = call[d]
  BY GoesOn DEF WInv
<1>2. s # "done" /\ call[c].stage # "done"
  BY DEF Working, Running
<1>3. Says(c)'
  <2>1. Says(c) /\ ~Told(c, "done")
    BY <1>2 DEF Said, Told
  <2>2. ~Told(c, "done")' /\ ~Told(c, "exists")'
    BY <1>1, <1>2 DEF Told
  <2>3. (call[c].op = "add" /\ call[c].stage = "claim" => ClaimsOf(call[c].user, txNames[call[c].ws]) = {})'
    BY <1>1 DEF ClaimsOf
  <2> QED
    BY <1>1, <2>1, <2>2, <2>3 DEF Says
<1>4. \A d \in Caller \ {c} : Says(d)'
  BY <1>1, OthersSaid
<1>5. Apart'
  BY <1>1, StayApart
<1> QED
  BY <1>1, <1>3, <1>4, <1>5 DEF Said

\* A call returns.
LEMMA ReturnsSaid ==
  ASSUME WInv, Apart, Said, NEW c \in Caller, call[c].stage \in Working, NEW r \in Answers, Returns(c, r),
         members \subseteq members',
         \A w \in Workspace : names[w] # Absent \/ w # call[c].ws => names'[w] = names[w],
         r # "done" => UNCHANGED names, r = "exists" => Elsewhere(c)
  PROVE  /\ Apart' /\ Said'
         /\ \A d \in Caller \ {c} : call'[d] = call[d]
         /\ call'[c] # Idle /\ call'[c].ws = call[c].ws /\ call'[c].op = call[c].op
         /\ call'[c].name = call[c].name
<1>1. /\ call[c] \in Running /\ call[c] # Idle /\ call[c].ws \in Workspace
      /\ \A d \in Caller : call[d].stage \in Working => d = c
  BY HolderRuns DEF WInv
<1>2. /\ call'[c].stage = "done" /\ call'[c].result = r /\ call'[c] # Idle
      /\ call'[c].op = call[c].op /\ call'[c].ws = call[c].ws
      /\ call'[c].user = call[c].user /\ call'[c].name = call[c].name
      /\ \A d \in Caller \ {c} : call'[d] = call[d]
  BY <1>1, ReturnsOnce DEF WInv, Returns
<1>3. Says(c)'
  <2>1. Says(c) /\ ~Told(c, "done")
    BY DEF Said, Told, Working
  <2>2. call[c].op = "create" /\ r # "done" => names'[call[c].ws] = Absent
    BY <1>1, <2>1 DEF Says
  <2>3. call[c].op = "add" => call[c].name = names'[call[c].ws]
    <3>1. call[c].op = "add" => call[c].name = names[call[c].ws] /\ names[call[c].ws] # Absent
      BY <1>1, <2>1 DEF Says, WInv, Stages
    <3> QED
      BY <1>1, <3>1
  <2>4. r = "exists" => Elsewhere(c)'
    BY <1>2, ElsewhereStays
  <2>5. Told(c, "done")' = (r = "done") /\ Told(c, "exists")' = (r = "exists")
    BY <1>2 DEF Told
  <2> QED
    BY <1>2, <2>2, <2>3, <2>4, <2>5 DEF Says
<1>4. \A d \in Caller \ {c} : Says(d)'
  BY <1>1, <1>2, OthersSaid
<1>5. Apart'
  BY <1>1, <1>2, StayApart
<1> QED
  BY <1>2, <1>3, <1>4, <1>5 DEF Said
\* AddWorkspaceMember's look: a claim that was found is that of a membership.
LEMMA LookSaid ==
  ASSUME WInv, Apart, Said, WorkspacesAssumption, NEW c \in Caller, Look(c)
  PROVE  \/ /\ UNCHANGED <<names, members>>
            /\ \E s \in {"claim", "commit"} :
                 /\ Goes(c, s)
                 /\ s = "claim" => {x \in txClaims' : x.user = call[c].user
                                      /\ Fold[x.name] = Fold[txNames'[call[c].ws]]} = {}
         \/ Returns(c, "exists") /\ Elsewhere(c) /\ UNCHANGED <<names, members>>
<1> DEFINE found == ClaimsOf(call[c].user, txNames[call[c].ws])
<1>1. call[c].stage = "look" /\ call[c].stage \in Working
  BY DEF Look, InTx, Working
<1>2. call[c].ws \in Workspace /\ call[c] # Idle /\ call[c].op = "add"
  BY <1>1, HolderRuns DEF WInv, Stages, Running
<1>3. txNames = names /\ txClaims = claims /\ call[c].name = names[call[c].ws]
  BY <1>1, <1>2 DEF WInv, CopySoFar, NamesSoFar, MembersSoFar, Said, Says
<1>4. CASE found = {} /\ Goes(c, "claim") /\ UNCHANGED <<tx, txCopy>>
  BY <1>4 DEF Look, db, txCopy, ClaimsOf
<1>5. CASE Goes(c, "commit") /\ UNCHANGED <<tx, txCopy>>
  BY <1>5 DEF Look, db
<1>6. CASE (\E x \in found : x.workspace # call[c].ws) /\ Returns(c, "exists")
  <2>1. PICK x \in found : x.workspace # call[c].ws
    BY <1>6
  <2>2. x \in claims /\ x.user = call[c].user /\ Fold[x.name] = Fold[names[call[c].ws]]
    BY <1>3, <2>1 DEF ClaimsOf
  <2>3. <<x.workspace, x.user>> \in members /\ x.name = names[x.workspace]
    BY <2>2 DEF WInv, Fits
  <2> DEFINE m == <<x.workspace, x.user>>
  <2>4. m \in members /\ m[1] = x.workspace /\ m[2] = x.user
    BY <2>3
  <2> HIDE DEF m
  <2>5. Elsewhere(c)
    BY <1>3, <2>1, <2>2, <2>3, <2>4 DEF Elsewhere
  <2> QED
    BY <1>6, <2>5 DEF Look, db
<1> QED
  BY <1>4, <1>5, <1>6 DEF Look

\* A claim meets another one only for a new workspace, whose user has the name elsewhere.
LEMMA ConflictSaid ==
  ASSUME WInv, Apart, Said, WorkspacesAssumption, NEW c \in Caller, Conflict(c)
  PROVE  Elsewhere(c)
<1>1. call[c].stage = "claim" /\ call[c].stage \in Working
  BY DEF Conflict, InTx, Working
<1>2. call[c].ws \in Workspace /\ call[c] # Idle /\ call[c].op \in {"create", "add"}
  BY <1>1, HolderRuns DEF WInv, Running
<1>3. txClaims = claims /\ Says(c)
  BY <1>1 DEF WInv, CopySoFar, Said
<1>4. call[c].op = "create"
  BY <1>1, <1>2, <1>3 DEF Says, Conflict, NameOf
<1>5. names[call[c].ws] = Absent
  BY <1>1, <1>2, <1>3, <1>4 DEF Says, Told
<1>6. PICK x \in claims : x.user = call[c].user /\ Fold[x.name] = Fold[call[c].name]
  BY <1>3, <1>4 DEF Conflict, NameOf, ClaimsOf
<1> DEFINE m == <<x.workspace, x.user>>
<1>7. m \in members /\ m[1] = x.workspace /\ m[2] = x.user /\ x.name = names[x.workspace]
  BY <1>6 DEF WInv, Fits
<1> HIDE DEF m
<1>8. names[m[1]] # Absent
  BY <1>7 DEF WInv, Fits
<1> QED
  BY <1>5, <1>6, <1>7, <1>8 DEF Elsewhere

\* Every step of a call keeps the answers true.
LEMMA StepSaid ==
  ASSUME WInv, Joined, Apart, Said, WorkspacesAssumption, NEW c \in Caller,
         Lock(c) \/ Statement(c) \/ Fails(c)
  PROVE  /\ Apart' /\ Said' /\ call[c].stage \in {"waiting"} \union Working
         /\ \A d \in Caller \ {c} : call'[d] = call[d]
         /\ call'[c] # Idle /\ call'[c].ws = call[c].ws /\ call'[c].op = call[c].op
         /\ call'[c].name = call[c].name
<1>1. CASE Lock(c)
  <2>1. call[c] \in Running /\ call[c] # Idle /\ call[c].stage = "waiting"
    <3>1. call[c] \in {Idle} \union Running \union Returned /\ call[c].stage = "waiting"
      BY <1>1 DEF WInv, Types, Lock
    <3> QED
      BY <3>1 DEF Idle, Returned
  <2>2. \A d \in Caller : call[d].stage \notin Working
    BY <1>1 DEF WInv, Exclusive, Lock, WorkspacesAssumption
  <2>3. PICK s \in {"workspace", "member"} : Goes(c, s)
    BY <1>1 DEF Lock
  <2>4. UNCHANGED <<names, members>> /\ s \in Working /\ s # "claim"
    BY <1>1, <2>3 DEF Lock, db, Working
  <2> QED
    BY <2>1, <2>2, <2>3, <2>4, GoesSaid
<1>2. CASE Statement(c) \/ Fails(c)
  <2>1. call[c].stage \in Working
    BY <1>2 DEF Statement, InsertWorkspace, InsertMember, Look, Claim, Conflict, Commit, InTx,
                Fails, WInv, Exclusive, Working
  <2>2. call[c] \in Running /\ call[c] # Idle /\ \A d \in Caller \ {c} : call[d].stage \notin Working
    BY <2>1, HolderRuns DEF WInv
  <2>3. CASE InsertWorkspace(c) \/ InsertMember(c) \/ Claim(c)
    <3>1. PICK s \in {"member", "claim", "look", "commit"} :
            Goes(c, s) /\ (s = "claim" => call[c].op # "add")
      BY <2>3 DEF InsertWorkspace, InsertMember, Claim
    <3>2. UNCHANGED <<names, members>> /\ s \in Working
      BY <2>3, <3>1 DEF InsertWorkspace, InsertMember, Claim, db, Working
    <3> QED
      BY <2>1, <2>2, <3>1, <3>2, GoesSaid
  <2>4. CASE Look(c)
    <3>1. CASE /\ UNCHANGED <<names, members>>
               /\ \E s \in {"claim", "commit"} :
                    /\ Goes(c, s)
                    /\ s = "claim" => {x \in txClaims' : x.user = call[c].user
                                         /\ Fold[x.name] = Fold[txNames'[call[c].ws]]} = {}
      <4>1. PICK s \in {"claim", "commit"} :
              /\ Goes(c, s)
              /\ s = "claim" => {x \in txClaims' : x.user = call[c].user
                                   /\ Fold[x.name] = Fold[txNames'[call[c].ws]]} = {}
        BY <3>1
      <4>2. s \in Working
        BY DEF Working
      <4> QED
        BY <2>1, <2>2, <3>1, <4>1, <4>2, GoesSaid
    <3>2. CASE Returns(c, "exists") /\ Elsewhere(c) /\ UNCHANGED <<names, members>>
      BY <2>1, <3>2, ReturnsSaid DEF Answers
    <3> QED
      BY <2>4, <3>1, <3>2, LookSaid
  <2>5. CASE Conflict(c)
    <3>1. Returns(c, "exists") /\ UNCHANGED <<names, members>> /\ Elsewhere(c)
      BY <2>5, ConflictSaid DEF Conflict, db
    <3> QED
      BY <2>1, <3>1, ReturnsSaid DEF Answers
  <2>6. CASE Fails(c)
    <3>1. Returns(c, "error") /\ UNCHANGED <<names, members>>
      BY <2>6 DEF Fails, db
    <3> QED
      BY <2>1, <3>1, ReturnsSaid DEF Answers
  <2>7. CASE Commit(c)
    <3>1. Returns(c, "done") /\ names' = txNames /\ members' = txMembers /\ "done" \in Answers
      BY <2>7 DEF Commit, Answers
    <3>2. members \subseteq members'
      BY <2>1, <3>1 DEF Joined
    <3>3. \A w \in Workspace : names[w] # Absent \/ w # call[c].ws => names'[w] = names[w]
      <4>1. call[c].stage # "workspace"
        BY <2>7 DEF Commit, InTx
      <4>2. CASE call[c].op = "create"
        <5>1. names[call[c].ws] = Absent /\ txNames = [names EXCEPT ![call[c].ws] = call[c].name]
          BY <2>1, <4>1, <4>2, NamesOfCopy
        <5>2. names \in [Workspace -> Name \union {Absent}]
          BY DEF WInv, Types
        <5> QED
          BY <3>1, <5>1, <5>2
      <4>3. CASE call[c].op # "create"
        BY <2>1, <3>1, <4>1, <4>3, NamesOfCopy
      <4> QED
        BY <4>2, <4>3
    <3> QED
      BY <2>1, <3>1, <3>2, <3>3, ReturnsSaid
  <2> QED
    BY <1>2, <2>3, <2>4, <2>5, <2>6, <2>7 DEF Statement
<1> QED
  BY <1>1, <1>2

\* A new call, about a workspace that no other call is about.
LEMMA CallSaid ==
  ASSUME WInv, Apart, Said, NEW c \in Caller, NEW op \in {"create", "add"}, NEW w \in Workspace,
         NEW u \in User, NEW n \in Name, Call(c, op, w, u, n),
         \A d \in Caller \ {c} : call[d] # Idle => call[d].ws # w,
         op = "create" => names[w] = Absent, op = "add" => n = names[w]
  PROVE  /\ Apart' /\ Said'
         /\ call'[c] # Idle /\ call'[c].op = op /\ call'[c].name = n
<1> DEFINE new == [stage |-> "waiting", op |-> op, ws |-> w, user |-> u, name |-> n]
<1>1. /\ call' = [call EXCEPT ![c] = new] /\ UNCHANGED <<names, members, txNames, txClaims>>
      /\ new.stage = "waiting" /\ new.op = op /\ new.ws = w /\ new.user = u /\ new.name = n
  BY DEF Call, db, txCopy
<1>2. new # Idle
  BY DEF Idle
<1> HIDE DEF new
<1>3. call'[c] = new /\ \A d \in Caller \ {c} : call'[d] = call[d]
  BY <1>1 DEF WInv, Types
<1>4. Says(c)'
  BY <1>1, <1>3 DEF Says, Told
<1>5. ASSUME NEW d \in Caller \ {c} PROVE Says(d)'
  <2>1. Says(d) /\ call'[d] = call[d]
    BY <1>3 DEF Said
  <2> QED
    BY <1>1, <2>1 DEF Says, Told, Elsewhere, ClaimsOf
<1>6. Apart'
  BY <1>1, <1>3 DEF Apart
<1> QED
  BY <1>1, <1>2, <1>3, <1>4, <1>5, <1>6 DEF Said
-----------------------------------------------------------------------------
(* The steps of Bootstrap.                                                  *)

\* Nobody has called, main has not started.
LEMMA InitAnswers == ASSUME Init, WorkspacesAssumption, BootstrapAssumption PROVE AInv
<1>1. BInv
  BY InitBoot
<1>2. phase = "down" /\ \A c \in Caller : call[c] = Idle
  BY DEF Init, StoreInit
<1>3. Apart /\ Said
  BY <1>2 DEF Apart, Said, Says
<1>4. Main \in Caller /\ Idle.stage = "idle"
  BY DEF BootstrapAssumption, Idle
<1>5. Quiet /\ FatalExplained
  BY <1>2, <1>4 DEF Quiet, FatalExplained
<1> QED
  BY <1>1, <1>3, <1>5 DEF AInv

\* Steps of main that leave the store alone.
LEMMA RestsSaid ==
  ASSUME Apart, Said, UNCHANGED storeVars PROVE Apart' /\ Said'
BY DEF Apart, Said, Says, Told, Elsewhere, ClaimsOf, storeVars

\* ensureDefaultUser gives up for a failed statement, or because the id is taken while the
\* address is not: FindUser has looked for it.
LEMMA UserAnswers ==
  ASSUME AInv, WorkspacesAssumption, BootstrapAssumption,
         Start \/ FindUser \/ CreateUser \/ UserTaken \/ StatementFails
  PROVE  AInv'
<1>1. BInv' /\ Apart' /\ Said'
  BY UserSteps, RestsSaid DEF AInv, Start, FindUser, CreateUser, UserTaken, StatementFails
<1>2. /\ UNCHANGED call
      /\ \A c \in Caller \ {Main} : call[c] = Idle
      /\ call[Main].stage \in {"idle", "done"}
      /\ phase' \in {"find user", "create user", "find default", "fatal"}
  BY DEF AInv, Quiet, Start, FindUser, CreateUser, UserTaken, StatementFails, storeVars
<1>3. (phase = "create user" => UserByEmail(email) = {})'
  <2>1. phase' = "create user" => FindUser
    BY DEF Start, CreateUser, UserTaken, StatementFails
  <2>2. FindUser /\ phase' = "create user" => UserByEmail(email) = {} /\ UNCHANGED <<users, email>>
    BY DEF FindUser
  <2> QED
    BY <2>1, <2>2 DEF UserByEmail
<1>4. Quiet'
  BY <1>2, <1>3 DEF Quiet
<1>5. FatalExplained'
  <2>1. CASE StatementFails
    BY <2>1 DEF StatementFails, FatalExplained
  <2>2. CASE UserTaken
    <3>1. UserByEmail(email) = {} /\ Taken /\ UNCHANGED <<users, email>>
      BY <2>2 DEF UserTaken, AInv, Quiet
    <3>2. \E x \in users : x.id = DefaultUser
      BY <3>1 DEF Taken, UserByEmail
    <3> QED
      BY <3>1, <3>2 DEF FatalExplained, UserByEmail
  <2>3. CASE Start \/ FindUser \/ CreateUser
    <3>1. phase' # "fatal"
      BY <2>3 DEF Start, FindUser, CreateUser
    <3> QED
      BY <3>1 DEF FatalExplained
  <2> QED
    BY <2>1, <2>2, <2>3
<1> QED
  BY <1>1, <1>4, <1>5 DEF AInv

\* ensureDefault gives up when its call was told "error", or "exists".
LEMMA DefaultAnswers ==
  ASSUME AInv, WorkspacesAssumption, BootstrapAssumption, FindDefault \/ Ensured
  PROVE  AInv'
<1>1. BInv'
  BY DefaultSteps DEF AInv
<1>2. CASE FindDefault
  <2>1. admin \in User /\ Main \in Caller /\ Default \in Workspace /\ DefaultName \in Name
    BY <1>2 DEF FindDefault, AInv, BInv, MainKnows, BootstrapAssumption
  <2>2. PICK op \in {"create", "add"}, n \in Name :
          /\ Call(Main, op, Default, admin, n)
          /\ op = "create" => names[Default] = Absent /\ n = DefaultName
          /\ op = "add" => n = names[Default]
    <3>1. CASE names[Default] = Absent
      BY <1>2, <2>1, <3>1 DEF FindDefault
    <3>2. CASE names[Default] # Absent
      <4>1. names[Default] \in Name
        BY <2>1, <3>2 DEF AInv, BInv, WInv, Types
      <4> QED
        BY <1>2, <3>2, <4>1 DEF FindDefault
    <3> QED
      BY <3>1, <3>2
  <2>3. phase = "find default" /\ phase' = "ensuring" /\ \A d \in Caller \ {Main} : call[d] = Idle
    BY <1>2 DEF FindDefault, AInv, Quiet
  <2>4. /\ Apart' /\ Said'
        /\ call'[Main] # Idle /\ call'[Main].op = op /\ call'[Main].name = n
    <3>1. WInv /\ Apart /\ Said
      BY DEF AInv, BInv
    <3>2. /\ Call(Main, op, Default, admin, n)
          /\ op = "create" => names[Default] = Absent
          /\ op = "add" => n = names[Default]
      BY <2>2
    <3>3. \A d \in Caller \ {Main} : call[d] # Idle => call[d].ws # Default
      BY <2>3
    <3> QED
      BY <2>1, <3>1, <3>2, <3>3, CallSaid
  <2>5. call'[Main].ws = Default /\ \A d \in Caller \ {Main} : call'[d] = call[d]
    BY <2>1, <2>2, CallJoined DEF AInv, BInv
  <2>6. Quiet' /\ FatalExplained'
    BY <2>2, <2>3, <2>4, <2>5 DEF Quiet, FatalExplained
  <2> QED
    BY <1>1, <2>4, <2>6 DEF AInv
<1>3. CASE Ensured
  <2>1. Apart' /\ Said'
    BY <1>3, RestsSaid DEF AInv, Ensured
  <2>2. /\ phase = "ensuring" /\ call[Main].stage = "done"
        /\ phase' = (IF call[Main].result = "done" THEN "serving" ELSE "fatal")
        /\ failed' = (call[Main].result = "error")
        /\ UNCHANGED <<call, names, members, email, users, admin>>
    BY <1>3 DEF Ensured, storeVars
  <2>3. /\ call[Main] # Idle /\ call[Main].ws = Default /\ call[Main].user = admin
        /\ call[Main].op = "create" => call[Main].name = DefaultName
        /\ \A d \in Caller \ {Main} : call[d] = Idle
        /\ Main \in Caller /\ Says(Main)
    BY <2>2 DEF AInv, Quiet, BInv, MainKnows, Said, BootstrapAssumption
  <2>4. Quiet'
    BY <2>2, <2>3 DEF Quiet
  <2>5. FatalExplained'
    <3> SUFFICES ASSUME phase' = "fatal", ~failed' PROVE OtherOfName(admin, IF names[Default] = Absent
                                                             THEN DefaultName ELSE names[Default])'
      BY DEF FatalExplained
    <3>1. call[Main] \in Returned
      BY <2>2, <2>3 DEF AInv, BInv, WInv, Types, Running, Working
    <3>2. call[Main].result = "exists" /\ call[Main].op \in {"create", "add"}
      BY <2>2, <3>1 DEF Returned, Answers
    <3>3. Elsewhere(Main)
      BY <2>2, <2>3, <3>2 DEF Says, Told
    <3>4. call[Main].name = IF names[Default] = Absent THEN DefaultName ELSE names[Default]
      <4>1. CASE call[Main].op = "create"
        BY <2>2, <2>3, <3>2, <4>1 DEF Says, Told
      <4>2. CASE call[Main].op = "add"
        BY <2>3, <4>2 DEF Says, AInv, BInv, WInv, Stages
      <4> QED
        BY <3>2, <4>1, <4>2
    <3>5. OtherOfName(admin, call[Main].name)
      BY <2>3, <3>3 DEF Elsewhere, OtherOfName
    <3> QED
      BY <2>2, <3>4, <3>5 DEF OtherOfName
  <2> QED
    BY <1>1, <2>1, <2>4, <2>5 DEF AInv
<1> QED
  BY <1>2, <1>3

\* The death of the process leaves no calls.
LEMMA DownAnswers ==
  ASSUME AInv, WorkspacesAssumption, BootstrapAssumption, Down PROVE AInv'
<1>1. BInv'
  BY DownKeeps DEF AInv
<1>2. phase' = "down" /\ Main \in Caller /\ Idle.stage = "idle" /\ \A c \in Caller : call'[c] = Idle
  BY DEF Down, Crash, BootstrapAssumption, Idle
<1>3. Apart' /\ Said'
  BY <1>2 DEF Apart, Said, Says
<1>4. Quiet' /\ FatalExplained'
  BY <1>2 DEF Quiet, FatalExplained
<1> QED
  BY <1>1, <1>3, <1>4 DEF AInv

\* Requests, and the steps of all calls.
LEMMA CallAnswers ==
  ASSUME AInv, WorkspacesAssumption, BootstrapAssumption, UNCHANGED bootVars,
         StoreStep \/ \E c \in Caller \ {Main} : Request(c)
  PROVE  AInv'
<1>1. BInv' /\ Main \in Caller /\ UNCHANGED phase
  BY CallSteps DEF AInv, BootstrapAssumption, bootVars
<1>2. CASE StoreStep
  <2>1. PICK c \in Caller : Lock(c) \/ Statement(c) \/ Fails(c)
    BY <1>2 DEF StoreStep
  <2>2. /\ Apart' /\ Said' /\ call[c].stage \in {"waiting"} \union Working
        /\ \A d \in Caller \ {c} : call'[d] = call[d]
        /\ call'[c] # Idle /\ call'[c].ws = call[c].ws /\ call'[c].op = call[c].op
        /\ call'[c].name = call[c].name
    BY <2>1, StepSaid DEF AInv, BInv
  <2>3. call[c].stage \notin {"idle", "done"} /\ call[c] # Idle
    BY <2>2 DEF Working, Idle
  <2>4. /\ phase \in {"ensuring", "serving"}
        /\ phase = "ensuring" => c = Main
        /\ phase = "serving" => c # Main
    BY <2>3 DEF AInv, Quiet
  <2>5. Quiet'
    BY <1>1, <2>2, <2>4 DEF AInv, Quiet
  <2>6. FatalExplained'
    BY <1>1, <2>4 DEF FatalExplained
  <2> QED
    BY <1>1, <2>2, <2>5, <2>6 DEF AInv
<1>3. CASE \E c \in Caller \ {Main} : Request(c)
  <2>1. PICK c \in Caller \ {Main}, x \in users, n \in Name : phase = "serving" /\ Create(c, x.id, n)
    BY <1>3 DEF Request
  <2>2. x.id \in User
    BY DEF AInv, BInv, MainKnows, Row
  <2>3. PICK w \in Workspace : Fresh(w) /\ Call(c, "create", w, x.id, n)
    BY <2>1 DEF Create
  <2>4. Apart' /\ Said'
    BY <2>2, <2>3, CallSaid DEF AInv, BInv, Fresh
  <2>5. call'[Main] = call[Main]
    BY <1>1, <2>3, CallJoined DEF AInv, BInv
  <2>6. Quiet' /\ FatalExplained'
    BY <1>1, <2>1, <2>5 DEF AInv, Quiet, FatalExplained
  <2> QED
    BY <1>1, <2>4, <2>6 DEF AInv
<1> QED
  BY <1>2, <1>3

\* Every step keeps the invariant.
LEMMA AnswersKeep ==
  ASSUME AInv, WorkspacesAssumption, BootstrapAssumption, [Next]_vars PROVE AInv'
<1>1. CASE UNCHANGED vars
  <2>1. BInv'
    BY <1>1, BootKeeps DEF AInv
  <2>2. Apart' /\ Said' /\ UNCHANGED <<call, names, members, phase, email, users, admin, failed>>
    BY <1>1, RestsSaid DEF AInv, vars, storeVars, bootVars
  <2>3. Quiet'
    BY <2>2 DEF AInv, Quiet, UserByEmail
  <2>4. FatalExplained'
    BY <2>2 DEF AInv, FatalExplained, UserByEmail, OtherOfName
  <2> QED
    BY <2>1, <2>2, <2>3, <2>4 DEF AInv
<1> QED
  BY <1>1, UserAnswers, DefaultAnswers, DownAnswers, CallAnswers DEF Next

-----------------------------------------------------------------------------
(* The two operations implement WorkspacePromise: the COMMIT is the moment *)
(* of a creation, a claim that is found that of a refusal, and statements  *)
(* before them are no steps.                                               *)

\* What the promise sees of a call.
LEMMA AskedOf ==
  ASSUME Types, NEW c \in Caller, call[c] # Idle
  PROVE  /\ Asked(c).op = call[c].op /\ Asked(c).ws = call[c].ws
         /\ Asked(c).user = call[c].user /\ Asked(c).name = call[c].name
         /\ (call[c].stage # "done" => Promise!Waits(c))
         /\ (Promise!Waits(c) => call[c].stage # "done")
<1>1. /\ Asked(c).op = call[c].op /\ Asked(c).ws = call[c].ws
      /\ Asked(c).user = call[c].user /\ Asked(c).name = call[c].name
      /\ Asked(c).answer = IF call[c].stage = "done" THEN call[c].result ELSE "none"
  BY DEF Asked
<1>2. call[c].stage = "done" => call[c].result # "none"
  BY DEF Types, Running, Returned, Working, Answers
<1> QED
  BY <1>1, <1>2 DEF Promise!Waits

\* Whoever is idle or has its answer does not wait.
LEMMA MayAsk ==
  ASSUME Types, NEW c \in Caller, call[c].stage \in {"idle", "done"} PROVE ~Promise!Waits(c)
<1>1. CASE call[c] = Idle
  BY <1>1 DEF Asked, Promise!Waits
<1>2. CASE call[c] # Idle
  BY <1>2, AskedOf, CallTypes
<1> QED
  BY <1>1, <1>2

\* One call moves.
LEMMA OneMoves ==
  ASSUME NEW c \in Caller, \A d \in Caller \ {c} : call'[d] = call[d]
  PROVE  [d \in Caller |-> Asked(d)]' = [[d \in Caller |-> Asked(d)] EXCEPT ![c] = Asked(c)']
<1>1. \A d \in Caller \ {c} : Asked(d)' = Asked(d)
  BY DEF Asked
<1> QED
  BY <1>1

\* A call that goes on says nothing.
LEMMA GoesUnseen ==
  ASSUME Types, NEW c \in Caller, call[c] \in Running, call[c] # Idle,
         NEW s \in {"waiting"} \union Working, Goes(c, s), UNCHANGED <<names, members>>
  PROVE  UNCHANGED Promise!vars
<1>1. /\ call'[c].stage = s /\ call'[c] # Idle
      /\ call'[c].op = call[c].op /\ call'[c].ws = call[c].ws
      /\ call'[c].user = call[c].user /\ call'[c].name = call[c].name
      /\ \A d \in Caller \ {c} : call'[d] = call[d]
  BY GoesOn
<1>2. s # "done" /\ call[c].stage # "done"
  BY DEF Working, Running
<1>3. Asked(c)' = Asked(c)
  BY <1>1, <1>2 DEF Asked
<1>4. \A d \in Caller : Asked(d)' = Asked(d)
  BY <1>1, <1>3 DEF Asked
<1> QED
  BY <1>4 DEF Promise!vars

\* A call that returns has waited and is answered.
LEMMA ReturnsAnswer ==
  ASSUME WInv, NEW c \in Caller, call[c].stage \in Working, NEW r \in Answers, Returns(c, r)
  PROVE  Promise!Answer(c, r)
<1>1. /\ call[c] \in Running /\ call[c] # Idle
      /\ \A d \in Caller : call[d].stage \in Working => d = c
  BY HolderRuns DEF WInv
<1>2. /\ call'[c].stage = "done" /\ call'[c].result = r /\ call'[c] # Idle
      /\ call'[c].op = call[c].op /\ call'[c].ws = call[c].ws
      /\ call'[c].user = call[c].user /\ call'[c].name = call[c].name
      /\ \A d \in Caller \ {c} : call'[d] = call[d]
  BY <1>1, ReturnsOnce DEF WInv, Returns
<1>3. call[c].stage # "done"
  BY DEF Working
<1>4. Asked(c)' = [Asked(c) EXCEPT !.answer = r]
  BY <1>1, <1>2, <1>3 DEF Asked
<1>5. Promise!Waits(c)
  BY <1>1, <1>3, AskedOf DEF WInv
<1>6. [d \in Caller |-> Asked(d)]' = [[d \in Caller |-> Asked(d)] EXCEPT ![c] = Asked(c)']
  BY <1>2, OneMoves
<1> QED
  BY <1>4, <1>5, <1>6 DEF Promise!Answer

LEMMA ElsewherePromised ==
  ASSUME Types, NEW c \in Caller, call[c] # Idle PROVE Elsewhere(c) <=> Promise!Elsewhere(c)
BY AskedOf DEF Elsewhere, Promise!Elsewhere

\* What is committed leaves no two workspaces of one name to its user: the copy fits.
LEMMA CommitAlone ==
  ASSUME WInv, Said, WorkspacesAssumption, NEW c \in Caller, Commit(c) PROVE ~Elsewhere(c)
<1>1. call[c].stage = "commit" /\ call[c].stage \in Working
  BY DEF Commit, InTx, Working
<1>2. call[c] # Idle /\ call[c].ws \in Workspace /\ call[c].op \in {"create", "add"}
  BY <1>1, HolderRuns DEF WInv, Running
<1>3. Fits(txNames, txMembers, txClaims) /\ txMembers = members \union {<<call[c].ws, call[c].user>>}
  BY <1>1 DEF WInv, CopySoFar, MembersSoFar
<1>4. /\ txNames[call[c].ws] = call[c].name
      /\ \A w \in Workspace : w # call[c].ws => txNames[w] = names[w]
  BY <1>1, <1>2, NamesOfCopy DEF WInv, Types, Said, Says
<1>5. SUFFICES ASSUME NEW m \in members, m[1] # call[c].ws, m[2] = call[c].user,
                      Fold[names[m[1]]] = Fold[call[c].name]
               PROVE  FALSE
  BY DEF Elsewhere
<1> DEFINE own == <<call[c].ws, call[c].user>>
           x == [user |-> own[2], name |-> txNames[own[1]], workspace |-> own[1]]
           y == [user |-> m[2], name |-> txNames[m[1]], workspace |-> m[1]]
<1>6. own \in txMembers /\ m \in txMembers /\ m[1] \in Workspace
  BY <1>3, <1>5 DEF WInv, Types
<1>7. x \in txClaims /\ y \in txClaims
  BY <1>3, <1>6 DEF Fits
<1>8. x.user = y.user /\ Fold[x.name] = Fold[y.name] /\ x.workspace # y.workspace
  BY <1>4, <1>5, <1>6
<1> HIDE DEF x, y
<1> QED
  BY <1>3, <1>7, <1>8 DEF Fits

\* The COMMIT is the promise's step.
LEMMA CommitPromised ==
  ASSUME WInv, Said, WorkspacesAssumption, NEW c \in Caller, Commit(c) PROVE Promise!Done(c)
<1> DEFINE w == call[c].ws
<1>1. call[c].stage = "commit" /\ call[c].stage \in Working /\ "done" \in Answers
  BY DEF Commit, InTx, Working, Answers
<1>2. call[c] # Idle /\ w \in Workspace /\ call[c].op \in {"create", "add"}
  BY <1>1, HolderRuns DEF WInv, Running
<1>3. Returns(c, "done") /\ names' = txNames /\ members' = txMembers
  BY DEF Commit
<1>4. Promise!Answer(c, "done")
  BY <1>1, <1>3, ReturnsAnswer
<1>5. ~Promise!Elsewhere(c)
  BY <1>2, CommitAlone, ElsewherePromised DEF WInv
<1>6. members' = members \union {<<w, call[c].user>>}
  BY <1>1, <1>3 DEF WInv, CopySoFar, MembersSoFar
<1>7. /\ names[w] = IF call[c].op = "create" THEN Absent ELSE call[c].name
      /\ names' = [names EXCEPT ![w] = call[c].name]
  <2>1. CASE call[c].op = "create"
    BY <1>1, <1>3, <2>1, NamesOfCopy
  <2>2. CASE call[c].op = "add"
    <3>1. call[c].name = names[w] /\ txNames = names
      BY <1>1, <1>2, <2>2, NamesOfCopy DEF Said, Says
    <3> QED
      BY <1>2, <1>3, <2>2, <3>1 DEF WInv, Types
  <2> QED
    BY <1>2, <2>1, <2>2
<1>8. /\ Asked(c).op = call[c].op /\ Asked(c).ws = w
      /\ Asked(c).user = call[c].user /\ Asked(c).name = call[c].name
  BY <1>2, AskedOf DEF WInv
<1> QED
  BY <1>4, <1>5, <1>6, <1>7, <1>8 DEF Promise!Done, Promise!Stands

\* "exists" is the promise's refusal.
LEMMA RefusalPromised ==
  ASSUME WInv, NEW c \in Caller, call[c].stage \in Working, Returns(c, "exists"), Elsewhere(c),
         UNCHANGED <<names, members>>
  PROVE  Promise!Refused(c)
<1>1. "exists" \in Answers /\ call[c] # Idle
  BY HolderRuns DEF WInv, Answers
<1> QED
  BY <1>1, ReturnsAnswer, ElsewherePromised DEF WInv, Promise!Refused

\* Every step of a call is a step of the promise or none.
LEMMA StepPromised ==
  ASSUME WInv, Apart, Said, WorkspacesAssumption, NEW c \in Caller, Lock(c) \/ Statement(c) \/ Fails(c)
  PROVE  Promise!Next \/ UNCHANGED Promise!vars
<1>1. CASE Lock(c)
  <2>1. call[c] \in Running /\ call[c] # Idle
    <3>1. call[c] \in {Idle} \union Running \union Returned /\ call[c].stage = "waiting"
      BY <1>1 DEF WInv, Types, Lock
    <3> QED
      BY <3>1 DEF Idle, Returned
  <2>2. PICK s \in {"workspace", "member"} : Goes(c, s)
    BY <1>1 DEF Lock
  <2>3. UNCHANGED <<names, members>> /\ s \in Working
    BY <1>1 DEF Lock, db, Working
  <2> QED
    BY <2>1, <2>2, <2>3, GoesUnseen DEF WInv
<1>2. CASE Statement(c) \/ Fails(c)
  <2>1. call[c].stage \in Working
    BY <1>2 DEF Statement, InsertWorkspace, InsertMember, Look, Claim, Conflict, Commit, InTx,
                Fails, WInv, Exclusive, Working
  <2>2. call[c] \in Running /\ call[c] # Idle
    BY <2>1, HolderRuns DEF WInv
  <2>3. ASSUME NEW s \in Working, Goes(c, s), UNCHANGED <<names, members>>
        PROVE  UNCHANGED Promise!vars
    BY <2>2, <2>3, GoesUnseen DEF WInv
  <2>4. CASE InsertWorkspace(c) \/ InsertMember(c) \/ Claim(c)
    BY <2>3, <2>4 DEF InsertWorkspace, InsertMember, Claim, db, Working
  <2>5. CASE Look(c)
    <3>1. CASE UNCHANGED <<names, members>> /\ \E s \in {"claim", "commit"} : Goes(c, s)
      BY <2>3, <3>1 DEF Working
    <3>2. CASE Returns(c, "exists") /\ Elsewhere(c) /\ UNCHANGED <<names, members>>
      BY <2>1, <3>2, RefusalPromised DEF Promise!Next
    <3> QED
      BY <2>5, <3>1, <3>2, LookSaid
  <2>6. CASE Conflict(c)
    <3>1. Returns(c, "exists") /\ Elsewhere(c) /\ UNCHANGED <<names, members>>
      BY <2>6, ConflictSaid DEF Conflict, db
    <3> QED
      BY <2>1, <3>1, RefusalPromised DEF Promise!Next
  <2>7. CASE Commit(c)
    BY <2>7, CommitPromised DEF Promise!Next
  <2>8. CASE Fails(c)
    <3>1. Returns(c, "error") /\ UNCHANGED <<names, members>> /\ "error" \in Answers
      BY <2>8 DEF Fails, db, Answers
    <3> QED
      BY <2>1, <3>1, ReturnsAnswer DEF Promise!Failed, Promise!Next
  <2> QED
    BY <1>2, <2>4, <2>5, <2>6, <2>7, <2>8 DEF Statement
<1> QED
  BY <1>1, <1>2

\* A new call asks for a workspace.
LEMMA CallPromised ==
  ASSUME WInv, NEW c \in Caller, NEW op \in {"create", "add"}, NEW w \in Workspace,
         NEW u \in User, NEW n \in Name, Call(c, op, w, u, n),
         names[w] = IF op = "create" THEN Absent ELSE n
  PROVE  Promise!Next
<1> DEFINE new == [stage |-> "waiting", op |-> op, ws |-> w, user |-> u, name |-> n]
<1>1. call' = [call EXCEPT ![c] = new] /\ UNCHANGED <<names, members>>
  BY DEF Call, db
<1>2. new # Idle /\ new.stage = "waiting" /\ new.op = op /\ new.ws = w /\ new.user = u /\ new.name = n
  BY DEF Idle
<1> HIDE DEF new
<1>3. call'[c] = new /\ \A d \in Caller \ {c} : call'[d] = call[d]
  BY <1>1 DEF WInv, Types
<1>4. Asked(c)' = [op |-> op, ws |-> w, user |-> u, name |-> n, answer |-> "none"]
  BY <1>2, <1>3 DEF Asked
<1>5. [d \in Caller |-> Asked(d)]' = [[d \in Caller |-> Asked(d)] EXCEPT ![c] = Asked(c)']
  BY <1>3, OneMoves
<1>6. ~Promise!Waits(c)
  BY MayAsk DEF WInv, Call
<1>7. Promise!Ask(c)
  <2>1. [d \in Caller |-> Asked(d)]'
          = [[d \in Caller |-> Asked(d)] EXCEPT
               ![c] = [op |-> op, ws |-> w, user |-> u, name |-> n, answer |-> "none"]]
    BY <1>4, <1>5
  <2>2. Promise!Stands(op, w, n)
    BY DEF Promise!Stands
  <2> QED
    BY <1>1, <1>6, <2>1, <2>2, Zenon DEF Promise!Ask
<1> QED
  BY <1>7 DEF Promise!Next

\* Nothing is there and nobody has asked.
LEMMA InitPromised == Init => Promise!Init
<1>1. ASSUME Init PROVE \A c \in Caller : Asked(c) = Promise!Nothing
  BY <1>1 DEF Init, StoreInit, Asked, Promise!Nothing
<1> QED
  BY <1>1 DEF Init, StoreInit, Promise!Init

\* Every step of the server's start and of its requests is a step of the promise or none.
LEMMA NextPromised ==
  ASSUME AInv, WorkspacesAssumption, BootstrapAssumption, [Next]_vars
  PROVE  [Promise!Next]_(Promise!vars)
<1>1. SUFFICES Promise!Next \/ UNCHANGED Promise!vars
  OBVIOUS
<1>2. CASE UNCHANGED storeVars
  BY <1>2 DEF storeVars, Asked, Promise!vars
<1>3. CASE FindDefault
  <2>1. admin \in User /\ Main \in Caller /\ Default \in Workspace /\ DefaultName \in Name
    BY <1>3 DEF FindDefault, AInv, BInv, MainKnows, BootstrapAssumption
  <2>2. CASE names[Default] = Absent
    BY <1>3, <2>1, <2>2, CallPromised DEF FindDefault, AInv, BInv
  <2>3. CASE names[Default] # Absent
    <3>1. names[Default] \in Name
      BY <2>1, <2>3 DEF AInv, BInv, WInv, Types
    <3> QED
      BY <1>3, <2>1, <2>3, <3>1, CallPromised DEF FindDefault, AInv, BInv
  <2> QED
    BY <2>2, <2>3
<1>4. CASE Down
  <2>1. (\A c \in Caller : call'[c] = Idle) /\ UNCHANGED <<names, members>>
    BY <1>4 DEF Down, Crash, db
  <2>2. \A c \in Caller : Asked(c)' = Promise!Nothing
    BY <2>1 DEF Asked, Promise!Nothing
  <2>3. Promise!Die
    BY <2>1, <2>2 DEF Promise!Die
  <2> QED
    BY <2>3 DEF Promise!Next
<1>5. CASE \E c \in Caller \ {Main} : Request(c)
  <2>1. PICK c \in Caller \ {Main}, x \in users, n \in Name : Create(c, x.id, n)
    BY <1>5 DEF Request
  <2>2. x.id \in User
    BY DEF AInv, BInv, MainKnows, Row
  <2>3. PICK w \in Workspace : names[w] = Absent /\ Call(c, "create", w, x.id, n)
    BY <2>1 DEF Create, Fresh
  <2> QED
    BY <2>2, <2>3, CallPromised DEF AInv, BInv
<1>6. CASE StoreStep
  BY <1>6, StepPromised DEF StoreStep, AInv, BInv
<1>7. Start \/ FindUser \/ CreateUser \/ UserTaken \/ StatementFails \/ Ensured => UNCHANGED storeVars
  BY DEF Start, FindUser, CreateUser, UserTaken, StatementFails, Ensured
<1> QED
  BY <1>2, <1>3, <1>4, <1>5, <1>6, <1>7 DEF Next, vars

-----------------------------------------------------------------------------
(* What holds of every behaviour.                                           *)

\* The invariant of all answers.
THEOREM AnswersInvariant == Spec => []AInv
<1>1. Init => AInv
  BY InitAnswers, WorkspacesAssumption, BootstrapAssumption
<1>2. AInv /\ [Next]_vars => AInv'
  BY AnswersKeep, WorkspacesAssumption, BootstrapAssumption
<1> QED
  BY <1>1, <1>2, PTL DEF Spec

\* Whatever overlaps, fails or dies: "created" is there, "exists" is elsewhere under the same
\* name, and what was refused is not there.
THEOREM AnswersStayTrue == Spec => []AnswersTrue
<1>1. AInv => AnswersTrue
  <2> SUFFICES ASSUME AInv, NEW c \in Caller
               PROVE  /\ Told(c, "done") => <<call[c].ws, call[c].user>> \in members
                      /\ Told(c, "exists") =>
                           \E m \in members : m[1] # call[c].ws /\ m[2] = call[c].user
                                                /\ Fold[names[m[1]]] = Fold[call[c].name]
                      /\ call[c].stage = "done" /\ call[c].op = "create" /\ call[c].result # "done"
                           => names[call[c].ws] = Absent
    BY DEF AnswersTrue
  <2>1. Told(c, "done") => <<call[c].ws, call[c].user>> \in members
    BY DEF AInv, BInv, Joined, Told
  <2>2. CASE call[c].stage = "done"
    <3>1. call[c] # Idle
      BY <2>2 DEF Idle
    <3> QED
      BY <2>1, <2>2, <3>1 DEF AInv, Said, Says, Told, Elsewhere
  <2>3. CASE call[c].stage # "done"
    BY <2>3 DEF Told
  <2> QED
    BY <2>2, <2>3
<1> QED
  BY <1>1, AnswersInvariant, PTL

\* A start that gives up has one of the three reasons.
THEOREM FatalIsExplained == Spec => []FatalExplained
<1>1. AInv => FatalExplained
  BY DEF AInv
<1> QED
  BY <1>1, AnswersInvariant, PTL

\* The tables change only by a whole workspace with its owner, in the step that decides the
\* answer: "done" only if the user has the name nowhere else at that moment, "exists" only if so.
THEOREM BootCallsAtomic == Spec => CallsAtomic
<1>1. AInv /\ [Next]_vars => [Promise!Next]_(Promise!vars)
  BY NextPromised, WorkspacesAssumption, BootstrapAssumption
<1> QED
  BY <1>1, AnswersInvariant, InitPromised, PTL DEF Spec, CallsAtomic, Promise!Spec
=============================================================================
