\* Random walks, steered walks some of which a limit cuts short, and the two by turns.
CONSTANTS
  None = None
  Nodes <- MCNodes
  NodeOf <- MCNodeOf
  Rules <- MCRules
  Body <- MCBody
  MaxPos = 9
  MaxU64 = 15
  Sessions <- MCSessions
  Generatable <- MCGeneratable
  MinLen <- TableMinLen
  Witness <- TableWitness
  Accepts <- MCAccepts
SPECIFICATION Spec
INVARIANTS OutputAccepted NeverUnproductive CountsOffered DistanceFresh CacheOwn
PROPERTIES WitnessShortest OnlySuccessCovers SuccessCovers EveryCallEnds
