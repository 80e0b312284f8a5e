SPECIFICATION FairGatewaySpec
CONSTANTS
  i1 = i1
  i2 = i2
  none = none
  r1 = r1
  r2 = r2
  Invocations = {i1, i2}
  NoParent = none
  Contexts <- MCContexts
  ErrorCodes <- MCCodes
  Times = {0}
  MaxEvents = 7
  Requests = {r1, r2}
  Workloads <- OneRequest
  InvocationOf <- MCInvocationOf
  ParentOf <- MCParentOf
  CallerOf <- MCCallerOf
  WorkspaceOf <- MCWorkspaceOf
  TargetOf <- MCTargetOf
  Streams = {r2}
  RootContext <- MCRootContext
  AgentFailures = {"AGENT_EXECUTION_FAILED", "CANCELED"}
  FrameFits = {"accepted"}
  MaxChunks = 3
  MaxFaults = 2
  MayCrash = TRUE
  MetadataLimit = 6
INVARIANTS
  StreamWellFormed
  CancelAfterOutcome
  ToldIsTrue
PROPERTIES
  EveryoneFinishes
  AcceptedTerminates
  TaskIsCancelled
CHECK_DEADLOCK FALSE
