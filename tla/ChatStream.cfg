SPECIFICATION FairSpec
CONSTANTS
  MaxLines = 3
  Deadline = 3
  Usages = {1}
INVARIANTS
  ContentIsPrefix
  
PROPERTIES
  StreamReturns
CHECK_DEADLOCK FALSE
