\* main and two requests at once, three workspaces, starts with any of three addresses.
SPECIFICATION Spec
CONSTANTS
  admin_lc = admin_lc  Admin_uc = Admin_uc  ops = ops
  defaultUser = defaultUser  opsUser = opsUser
  defaultName = defaultName  DEFAULTName = DEFAULTName
  Caller = {main, r1, r2}
  User = {defaultUser, opsUser}
  Workspace = {default, w1, w2, w3}
  Name = {defaultName, DEFAULTName}
  Fold <- MCFold
  Absent = Absent
  Email = {admin_lc, Admin_uc, ops}
  Lower <- MCLower
  Main = main
  Default = default
  DefaultName = defaultName
  DefaultUser = defaultUser
  Provisioned <- MCProvisioned
SYMMETRY Symmetry
INVARIANTS
  ClaimsMatchMembers
  NamesDistinct
  AnswersTrue
  ServingHasOwner
  FatalExplained
PROPERTY CallsAtomic
