\* The trace store, with a failure or a crash at any step, and one client that
\* reads it while spans are stored and rewritten.
SPECIFICATION ReadsSpec
CONSTANTS
  Trace = {1, 2}
  Span = {1, 2}
  Version <- MCVersion
  Absent = Absent
  MaxBatch = 2
  Limit = 1
  Filter <- MCFilter
  Wanted = 1
  PageSize = 1
  Now = 2
  Day = 1
  Time <- MCTime
  MaxSamples = 1
  MaxKinds = 3
  Load <- MCLoad
  BoardLoad <- MCBoardLoad
INVARIANTS
  SummaryExact
  SteadyListedOnce
  PagesInOrder
  SummaryFound
  SteadySpanOnce
  NotFoundOnlyIfChanged
  SampleOfSnapshot
  ReadsFitTogether
PROPERTY KeepsPromise
CHECK_DEADLOCK FALSE
