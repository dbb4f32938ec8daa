SPECIFICATION CutSpec
CONSTANTS
  TextLen = 4
  Risks = {1, 2, 3}
  MaxFindings = 3
  MaxDrop = 1
INVARIANTS
  KeptAreDisjoint
  RiskIsKept
  CutsAreReversible
CHECK_DEADLOCK FALSE
