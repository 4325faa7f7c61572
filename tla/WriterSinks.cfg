\* Both sinks, every set of failing calls, kills and power losses between any two calls.
SPECIFICATION Spec
CONSTANTS
  Lines = 2
INVARIANTS
  NeverPartial
  WrittenIsDurable
  NothingElseChanges
PROPERTIES
  ImplementsContract
