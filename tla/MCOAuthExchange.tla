--------------------------- MODULE MCOAuthExchange ---------------------------
(* Two JWTs of one client, with one jti: the second expires later and is    *)
(* signed with the key of another workspace.                                *)
EXTENDS OAuthExchange, TLC

CONSTANTS c1, w1, w2, j1, j2

Symmetry == Permutations(Exchange)

MCClientOf == [j \in Jwt |-> c1]
MCSignedFor == [j \in Jwt |-> IF j = j1 THEN w1 ELSE w2]
MCId == [j \in Jwt |-> "jti"]
MCExp == [j \in Jwt |-> IF j = j1 THEN 1 ELSE 3]
=============================================================================
