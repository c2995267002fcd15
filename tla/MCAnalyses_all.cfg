CONSTANTS
  None = None
  MaxU64 = 40
  MaxU32 = 1000
  MaxStarts = 2
  Arenas <- MCArenas
SPECIFICATION LintSpec
INVARIANTS NullableExact AcceptsExact ReportsAreCycles EveryKnotReported RejectedExact WarningsExact
INVARIANTS WitnessLeadsOut WitnessBest ShortestExact ReachExact
PROPERTY InOrder
CHECK_DEADLOCK FALSE
