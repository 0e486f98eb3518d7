\* Two requests in both formats, and what the documentation says of durations.
SPECIFICATION Spec
CONSTANTS
  w1 = w1  w2 = w2
  Request = {r1, r2}
  Workspace = {w1, w2}
  Item <- MCItem
  MaxItems = 2
  Day = 40
  Micro = 10
  Width = 128
SYMMETRY Symmetry
INVARIANTS
  DurationKept
