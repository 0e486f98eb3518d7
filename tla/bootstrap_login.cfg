\* The same instance, with the administrator login.
SPECIFICATION Spec
CONSTANTS
  admin_lc = admin_lc  Admin_uc = Admin_uc  ops = ops
  defaultUser = defaultUser  opsUser = opsUser
  defaultName = defaultName  DEFAULTName = DEFAULTName
  Caller = {main, r1}
  User = {defaultUser, opsUser}
  Workspace = {default, w1, w2}
  Name = {defaultName, DEFAULTName}
  Fold <- MCFold
  Absent = Absent
  Email = {admin_lc, Admin_uc, ops}
  Lower <- MCLower
  Main = main
  Default = default
  DefaultName = defaultName
  DefaultUser = defaultUser
  Provisioned <- MCProvisioned
INVARIANTS
  AdminCanLogIn
