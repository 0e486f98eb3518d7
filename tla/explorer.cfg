\* One user, two workspaces, two filters, two traces; answers in any order.
SPECIFICATION Spec
CONSTANTS
  None = None
  Token = {token}
  Workspace = {w1, w2}
  Filter = {f1, f2}
  TraceID = {t1, t2}
  LastPart = 2
  MaxRequests = 2
  MaxChanges = 3
SYMMETRY Symmetry
INVARIANTS
  PageCurrent
  DrawerConsistent
  NeverStuck
CHECK_DEADLOCK FALSE
