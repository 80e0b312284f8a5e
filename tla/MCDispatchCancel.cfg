SPECIFICATION DispatchSpec
CONSTANTS
  i1 = i1
  i2 = i2
  none = none
  r1 = r1
  r2 = r2
  r3 = r3
  r4 = r4
  r5 = r5
  Invocations = {i1, i2}
  NoParent = none
  Contexts <- MCContexts
  ErrorCodes <- MCCodes
  Times = {0}
  MaxEvents = 7
  Requests = {r1}
  Workloads <- SingleRequest
  InvocationOf <- MCInvocationOf
  ParentOf <- MCParentOf
  CallerOf <- MCCallerOf
  WorkspaceOf <- MCWorkspaceOf
  TargetOf <- MCTargetOf
  Streams = {}
  RootContext <- MCRootContext
  AgentFailures = {"AGENT_EXECUTION_FAILED", "CANCELED"}
  FrameFits = {"accepted", "terminal"}
  MaxChunks = 0
  MaxFaults = 0
  MayCrash = FALSE
INVARIANTS
  DependencyErrorsAreReal
CHECK_DEADLOCK FALSE
