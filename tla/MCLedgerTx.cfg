SPECIFICATION TxSpec
CONSTANTS
  i1 = i1
  i2 = i2
  none = none
  s1 = s1
  s2 = s2
  Invocations = {i1, i2}
  NoParent = none
  Contexts <- MCContexts
  ErrorCodes = {"TIMEOUT", "CANCELED", "DEPENDENCY_ERROR"}
  Times = {0}
  MaxEvents = 4
  Sessions = {s1, s2}
  Readers = {r1}
  MaxOpen = 2
  NoSession = nobody
SYMMETRY MCSymmetry
INVARIANTS
  ChecksStillHold
  ReadsAreConsistent
PROPERTIES
  AppendsAreAtomic
CHECK_DEADLOCK FALSE
