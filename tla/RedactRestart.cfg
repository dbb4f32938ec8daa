SPECIFICATION SessionSpec
CONSTANTS
  o1 = o1
  o2 = o2
  o3 = o3
  m1 = m1
  m2 = m2
  Matches = {o1, o2, m1, m2}
  ValueOf <- SomeValueOf
  Originals = {o1, o2, o3}
  Email = Email
  Phone = Phone
  Types = {Email, Phone}
  Labels = {"EMAIL", "PHONE"}
  LabelOf <- DistinctLabelOf
  TypesOf <- SomeTypesOf
  Keys = {k1}
  MaxNum = 3
  MaxSessions = 2
  Conversations = {c1, c2}
  Texts <- SingleValues
INVARIANTS
  NothingForeignIsRestored
CHECK_DEADLOCK FALSE
