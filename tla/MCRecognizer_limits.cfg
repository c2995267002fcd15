\* Questions cut short by limits, limits changed, and questions asked again.
CONSTANTS
  None = None
  Nodes <- MCNodes
  NodeOf <- MCNodeOf
  Rules <- MCRules
  Body <- MCBody
  MaxPos = 2
  Inputs <- OneInput
  OptionSets <- SomeLimits
  Recognizable <- MCRecognizable
  Clean <- MCClean
  Starts = {0}
  Sem <- MCSem
  MaxCalls = 3
SPECIFICATION Spec
INVARIANTS TypeOK MemoExact MarkersAreOpenCalls DepthIsNesting RefusalsAreLimits
PROPERTIES MemoKept EveryQuestionAnswered ImplementsOracle
