SPECIFICATION Spec
CONSTANTS
  Services <- AllThree
  RegistryOf <- KindOf
  Calls = {c1}
  MaxHandles = 5
  MaxSignals = 2
  Longer <- LongerWords
INVARIANTS
  ServicesReconnected
CHECK_DEADLOCK FALSE
