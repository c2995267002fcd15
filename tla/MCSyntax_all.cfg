SPECIFICATION Spec
CONSTANTS
  None = None
  MaxU64 = 20
  WordBound = 4
  Texts <- MCTexts
INVARIANTS ReadsExact CanonicalExact PrintsBack
CHECK_DEADLOCK FALSE
