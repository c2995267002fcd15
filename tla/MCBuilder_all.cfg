CONSTANTS
  None = None
  Elements <- MCElements
  Definitions <- MCDefinitions
  Sources <- MCSources
  CoreTable <- MCCoreTable
  KeyOf <- MCKeyOf
SPECIFICATION Spec
INVARIANTS SoundArena ErrorsExact ReadsBack Hygienic
CHECK_DEADLOCK FALSE
