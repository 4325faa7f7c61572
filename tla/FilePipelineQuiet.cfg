\* Every file, policy and command; nobody else touches the file, nothing fails.
SPECIFICATION HintsSpec
CONSTANTS
  None = None
  Contents <- QuietContents
  Setups <- QuietSetups
  Modes <- QuietModes
  Accesses = {"rw"}
  Races = FALSE
  IOMayFail = FALSE
INVARIANTS
  AtMostOneHeader
  ApplyIsIdempotent
  DryRunPredictsApply
PROPERTIES
  ExcludedIsNeverWritten
  BomSurvives
