\* Two JWTs with one jti, signed with the keys of two workspaces; two exchanges at once.
SPECIFICATION Spec
CONSTANTS
  c1 = c1  w1 = w1  w2 = w2  j1 = j1  j2 = j2
  Jwt = {j1, j2}
  Client = {c1}
  Workspace = {w1, w2}
  ClientOf <- MCClientOf
  SignedFor <- MCSignedFor
  Id <- MCId
  Exp <- MCExp
  Exchange = {e1, e2}
  Absent = Absent
  Disabled = Disabled
  Leeway = 1
  DefaultDuration = 2
  Least = 1
  Most = 2
  Duration = {0, 1, 3}
  MaxTime = 4
  MaxUses = 2
SYMMETRY Symmetry
INVARIANTS
  UsedOnceInTime
  TokenOfSigner
