CONSTANTS
  None = None
  MaxU64 = 40
  MaxU32 = 1000
  MaxStarts = 1
  Arenas <- TwoCycles
SPECIFICATION LintSpec
INVARIANT EveryCycleReported
CHECK_DEADLOCK FALSE
