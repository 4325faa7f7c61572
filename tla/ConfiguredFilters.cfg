\* From the command line without file types, the include filter of topmark.toml is lost.
SPECIFICATION SettingsSpec
CONSTANTS
  FileTypes <- MCFileTypes
  BaseTypes <- MCBaseTypes
  Processors = {"pound", "html"}
  BaseProcessors = {"pound", "html"}
  BaseBindings <- MCBaseBindings
  Callers = {c1, c2}
  Nothing = Nothing
  AnyNs = "*"
  Fields <- MCFields
  Flags = {"reflow"}
  PolicyDefaults <- MCPolicyDefaults
  Defaults <- MCDefaults
  Globs = {"*ignore"}
  Inside <- MCInside
  Paths <- MCPaths
  Traits <- MCTraits
  Rules <- MCRules
  Contents <- MCContents
  Place <- MCPlace
  Requests <- MCRequests
  Invocations <- MCCalls
  Tables <- MCTables
SYMMETRY MCThreads
CHECK_DEADLOCK FALSE
INVARIANT
  ConfiguredFiltersStand
