SPECIFICATION FairSpec
CONSTANTS
  Calls = {c1, c2, c3}
  maxConcurrent = 2
  Requests <- SomeRequests
INVARIANTS
  RunAsJudged
  OneStatementIsRun
  SlotsAreHeld
  RelevantLinesAreKept
PROPERTIES
  Limits
  CallsAreAnswered
CHECK_DEADLOCK FALSE
