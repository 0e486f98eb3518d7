\* One attempt in a window of two ticks passes; two requests at once, for five ticks, and two
\* successes of an address in a tick.
SPECIFICATION Spec
CONSTANTS
  proxy = proxy  c1 = c1
  Request = {r1, r2}
  Peer = {proxy, c1}
  Trusted = {proxy}
  Headers <- MCHeaders
  Junk = Junk
  Limit = 1
  Minute = 2
  Delay = 1
  MaxTime = 5
  MaxCount = 2
  MaxWon = 2
SYMMETRY Symmetry
INVARIANTS
  RateBounded
  TableRecent
PROPERTIES
  RefusedForCause
