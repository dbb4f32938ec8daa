SPECIFICATION FairSpec
CONSTANTS
  Services <- NoMongo
  RegistryOf <- KindOf
  Calls = {c1}
  MaxHandles = 4
  MaxSignals = 2
  Longer <- LongerWords
INVARIANTS
  NoConnectionIsLeaked
  OldConnectionsAreClosed
  ReadAsWritten
  InspectionFitsTheDriver
PROPERTIES
  StopEnds
  SignalsAreServed
  CallsAreAnswered
CHECK_DEADLOCK FALSE
