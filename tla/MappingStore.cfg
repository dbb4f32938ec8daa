SPECIFICATION Spec
CONSTANTS
  Originals = {o1, o2}
  Email = Email
  Phone = Phone
  Types = {Email, Phone}
  Labels = {"EMAIL", "PHONE"}
  LabelOf <- DistinctLabelOf
  Keys = {k1, k2}
  MaxNum = 2
  MaxSessions = 3
SYMMETRY Symmetry
INVARIANTS
  TypeOK
  ReadableRowsAreKnown
  FreshValuesResolve
PROPERTIES
  OnlyUnseenRowsAreDoubled
  IssuedNeverReassigned
  ImplementsVault
CHECK_DEADLOCK FALSE
