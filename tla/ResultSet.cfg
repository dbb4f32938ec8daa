SPECIFICATION FairSpec
CONSTANTS
  Queries = {q1}
  Execs = {e1}
  Schemas = {s1}
  Finds = {f1}
  maxOpen = 1
  MaxRows = 2
  q1 = q1
  e1 = e1
  s1 = s1
  f1 = f1
INVARIANTS
  PoolIsWhole
  ResultsAreMasked
  QueryDropsNoRow
PROPERTIES
  BoundedCallsReturn
CHECK_DEADLOCK FALSE
