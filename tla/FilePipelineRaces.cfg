\* Other programs edit, delete and chmod the file between any two steps; I/O fails.
SPECIFICATION HintsSpec
CONSTANTS
  None = None
  Contents <- RaceContents
  Setups <- RaceSetups
  Modes <- AllModes
  Accesses = {"rw", "r", "none"}
  Races = TRUE
  IOMayFail = TRUE
INVARIANTS
  OutcomeIsExplained
  AxesDecidedInOrder
  ViewsAtHand
  PlanObeysMutationMode
  WriteIsReported
PROPERTIES
  HaltIsFinal
  OnlyDecidedChangesAreWritten
  WriteKeepsUserText
