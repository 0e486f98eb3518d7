\* A session, a key or an OAuth token beside it; two requests at once.
SPECIFICATION Spec
CONSTANTS
  u1 = u1  own = own  shared = shared  other = other
  Key = {k1}
  OAuth = {o1}
  Session = {s1}
  User = {u1}
  Workspace = {own, shared, other}
  Role <- MCRole
  UserOf <- MCUserOf
  WorkspaceOf <- MCWorkspaceOf
  Request = {r1, r2}
  Never = Never
  Absent = Absent
  Minute = 2
  Lifetime = 1
  MaxTime = 2
CONSTRAINT KeyOrOAuth
SYMMETRY Symmetry
INVARIANTS
  EndedStaysOut
  ServedUnexpired
  TouchesSpaced
PROPERTY CleanupHarmless
