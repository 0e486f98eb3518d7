--------------------------- MODULE MCCredentials ---------------------------
(* The user owns one workspace, is a member of a second and nothing to the  *)
(* third; keys and OAuth tokens are bound to the first.                     *)
EXTENDS Credentials, TLC

CONSTANTS u1, own, shared, other

Symmetry == Permutations(Request)

\* Bound: with a key in its table there is no OAuth token, and nobody brings one.
KeyOrOAuth ==
  \/ \A k \in Key : keys[k] = Absent
  \/ issued \cap OAuth = {} /\ \A r \in Request : req[r] # Idle => req[r].tok \notin OAuth

MCRole == [p \in User \X Workspace |-> 
            IF p[2] = own THEN "owner" ELSE IF p[2] = shared THEN "member" ELSE "none"]
MCUserOf == [s \in Session |-> u1]
MCWorkspaceOf == [t \in Key \union OAuth |-> own]
=============================================================================
