\* docs/usage/policies.md: remove_bom removes the BOM, header or not.
SPECIFICATION Spec
CONSTANTS
  None = None
  Contents <- QuietContents
  Setups <- PreserveMixedSetups
  Modes <- QuietModes
  Accesses = {"rw"}
  Races = FALSE
  IOMayFail = FALSE
INVARIANTS
  RemoveBomRemediates
