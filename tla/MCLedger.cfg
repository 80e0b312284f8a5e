SPECIFICATION LedgerSpec
CONSTANTS
  i1 = i1
  i2 = i2
  none = none
  Invocations = {i1, i2}
  NoParent = none
  Contexts <- MCContexts
  ErrorCodes = {"TIMEOUT", "CANCELED", "DEPENDENCY_ERROR"}
  Times = {0, 1}
  MaxEvents = 5
INVARIANTS
  ProjectionIsReplay
  LineageSound
PROPERTIES
  ChildUnderRunningParent
  ImplementsLifecycle
CHECK_DEADLOCK FALSE
