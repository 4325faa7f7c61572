\* docs/usage/policies.md: remaining bytes are preserved.
SPECIFICATION Spec
CONSTANTS
  None = None
  Contents <- QuietContents
  Setups <- RemoveBomSetups
  Modes <- QuietModes
  Accesses = {"rw"}
  Races = FALSE
  IOMayFail = FALSE
PROPERTIES
  RemainingBytesPreserved
