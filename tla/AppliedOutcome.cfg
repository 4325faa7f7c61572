\* core/outcomes.py: INSERTED and its like mean that changes have been applied.
SPECIFICATION Spec
CONSTANTS
  None = None
  Contents <- QuietContents
  Setups <- MarkupSetups
  Modes <- QuietModes
  Accesses = {"rw"}
  Races = FALSE
  IOMayFail = FALSE
INVARIANTS
  AppliedOutcomeMeansWritten
