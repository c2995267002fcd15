CONSTANTS
  None = None
  Texts = {"x", "y"}
  Garbage = Garbage
  Lang <- MCLang
  Generated <- MCGenerated
  Unusable = {"prose"}
  Commands <- MCCommands
  Indices = {0, 1}
  MaxCommands = 3
  MaxMeddling = 1
  DefaultLimit = 9
SPECIFICATION Spec
INVARIANTS ExitExact PairsWithMatch
CHECK_DEADLOCK FALSE
