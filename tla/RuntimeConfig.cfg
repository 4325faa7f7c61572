\* Runs from the command line and the API over layered configurations, each with one
\* registry operation of another thread begun at any point, and three operations of
\* two threads while nothing runs.
SPECIFICATION SettingsSpec
CONSTANTS
  FileTypes <- MCFileTypes
  BaseTypes <- MCBaseTypes
  Processors = {"pound", "html"}
  BaseProcessors = {"pound", "html"}
  BaseBindings <- MCBaseBindings
  Callers = {c1, c2}
  Nothing = Nothing
  AnyNs = "*"
  Fields <- MCFields
  Flags = {"reflow"}
  PolicyDefaults <- MCPolicyDefaults
  Defaults <- MCDefaults
  Globs = {"*ignore"}
  Inside <- MCInside
  Paths <- MCPaths
  Traits <- MCTraits
  Rules <- MCRules
  Contents <- MCContents
  Place <- MCPlace
  Requests <- MCRequests
  Invocations <- MCCalls
  Tables <- MCTables
SYMMETRY MCThreads
CHECK_DEADLOCK FALSE
INVARIANTS
  ViewsAreCurrent
  BindingsStayWhole
  ClosestLayerWins
  PathConfigIsOfItsLayers
  FileGetsItsTypeAndPolicy
  CommandDoesAsTold
  StdoutIsForOnePayload
  EntriesAreUsedOrReported
