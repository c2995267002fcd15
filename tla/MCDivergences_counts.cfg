CONSTANTS
  None = None
  Nodes <- MCNodes
  NodeOf <- MCNodeOf
  Rules <- MCRules
  Body <- MCBody
  MaxPos = 5
  MaxU64 = 15
  Sessions <- Widest
  Generatable <- MCRules
  MinLen <- TableMinLen
  Witness <- TableWitness
  Accepts <- MCAccepts
SPECIFICATION Spec
INVARIANTS CountsOffered
