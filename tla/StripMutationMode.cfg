\* docs/usage/policies.md: the mutation mode does not apply to strip.
SPECIFICATION Spec
CONSTANTS
  None = None
  Contents <- QuietContents
  Setups <- AddOnlySetups
  Modes <- QuietModes
  Accesses = {"rw"}
  Races = FALSE
  IOMayFail = FALSE
INVARIANTS
  StripIgnoresMutationMode
