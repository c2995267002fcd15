\* Every rule, from every start, on three inputs, without limits.
CONSTANTS
  None = None
  Nodes <- MCNodes
  NodeOf <- MCNodeOf
  Rules <- MCRules
  Body <- MCBody
  MaxPos = 4
  Inputs <- ThreeInputs
  OptionSets <- NoLimits
  Recognizable <- MCRecognizable
  Clean <- MCClean
  Starts = {0, 1, 4}
  Sem <- MCSem
  MaxCalls = 2
SPECIFICATION Spec
INVARIANTS AnswersExact ProseNeverMatched RoundsBounded
\* The bound on questions is where it stops.
CHECK_DEADLOCK FALSE
