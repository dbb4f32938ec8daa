SPECIFICATION ScanSpec
CONSTANTS
  Atoms = {"sid", "low", "high", "num", "code"}
  Star = "*"
  MaxLen = 4
  Texts <- AllTexts
  SecretPatterns <- Secrets
  PIIPatterns <- PII
  LocaleFilters <- Filters
  CodeAtoms = {"code"}
  Window = 1
  Shown = 1
INVARIANTS
  DecidedWhereFirstMet
  MaskingIsExact
CHECK_DEADLOCK FALSE
