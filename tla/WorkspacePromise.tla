-------------------------- MODULE WorkspacePromise --------------------------
(***************************************************************************)
(* What the metadata store promises whoever asks for a workspace, without  *)
(* transactions, claims or a mutex: the row and its owner appear in one    *)
(* step, together with the answer, and only if no other workspace of the   *)
(* user has the name.                                                      *)
(***************************************************************************)
CONSTANTS Caller, User, Workspace, Name, Fold, Absent

VARIABLES names, members,
          asked      \* asked[c]: what c asks for and, if it is there, the answer

vars == <<names, members, asked>>

Nothing == [answer |-> "nothing"]

Init ==
  /\ names = [w \in Workspace |-> Absent] /\ members = {}
  /\ asked = [c \in Caller |-> Nothing]

Waits(c) == asked[c].answer = "none"

\* A workspace to create is not there, and one that gets another owner is, under its name.
Stands(op, w, n) == names[w] = IF op = "create" THEN Absent ELSE n

Ask(c) ==
  /\ ~Waits(c)
  /\ \E op \in {"create", "add"}, w \in Workspace, u \in User, n \in Name :
       /\ Stands(op, w, n)
       /\ asked' = [asked EXCEPT ![c] = [op |-> op, ws |-> w, user |-> u, name |-> n,
                                        answer |-> "none"]]
  /\ UNCHANGED <<names, members>>

Answer(c, answer) == Waits(c) /\ asked' = [asked EXCEPT ![c].answer = answer]

\* The user has another workspace of this name.
Elsewhere(c) ==
  \E m \in members : /\ m[1] # asked[c].ws /\ m[2] = asked[c].user
                     /\ Fold[names[m[1]]] = Fold[asked[c].name]

Done(c) ==
  /\ Answer(c, "done") /\ ~Elsewhere(c)
  /\ Stands(asked[c].op, asked[c].ws, asked[c].name)
  /\ names' = [names EXCEPT ![asked[c].ws] = asked[c].name]
  /\ members' = members \union {<<asked[c].ws, asked[c].user>>}

Refused(c) == Answer(c, "exists") /\ Elsewhere(c) /\ UNCHANGED <<names, members>>

Failed(c) == Answer(c, "error") /\ UNCHANGED <<names, members>>

\* The calls are gone; the tables are not.
Die == asked' = [c \in Caller |-> Nothing] /\ UNCHANGED <<names, members>>

Next == Die \/ \E c \in Caller : Ask(c) \/ Done(c) \/ Refused(c) \/ Failed(c)

Spec == Init /\ [][Next]_vars
=============================================================================
