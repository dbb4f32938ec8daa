SPECIFICATION FairSpec
CONSTANTS
  MaxRetries = 3
  ClientTimeout = 2
  MaxTimeout = 5
  Requests <- SomeRequests
INVARIANTS
  RepeatsAreFaithful
PROPERTIES
  DoReturns
