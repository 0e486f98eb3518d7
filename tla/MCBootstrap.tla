--------------------------- MODULE MCBootstrap ---------------------------
(* Three addresses, of which two differ in case; one user came another way. *)
EXTENDS Bootstrap, TLC

CONSTANTS admin_lc, Admin_uc, ops, defaultUser, opsUser, defaultName, DEFAULTName

MCFold  == [n \in Name |-> IF n = DEFAULTName THEN defaultName ELSE n]
MCLower == [e \in Email |-> IF e = Admin_uc THEN admin_lc ELSE e]
MCProvisioned == {[id |-> opsUser, email |-> ops]}

Symmetry == Permutations(Caller \ {Main}) \union Permutations(Workspace \ {Default})
=============================================================================
