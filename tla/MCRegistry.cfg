SPECIFICATION Spec
CONSTANTS
  Parts = {"deltas", "kubernetes", "nacos", "registrar", "selector"}
  Callers = {}
  Capacity = 2
  MaxChanges = 0
  MaxCancels = 0
  WireSlices <- SafetySlices
  EndpointSliceCount = 2
  EndpointCount = 3
  PortName = 1
  Protocol = 1
  AddressType = 1
  MaxServiceEvents = 2
  MaxSliceEvents = 2
  ReadErrors = {"stream_eof"}
  StatusCodes = {410}
  HostLists <- AllHostLists
  ClusterName = 1
  TCP = 1
  IPv4 = 1
  IPv6 = 2
  MaxHosts = 3
  MaxBytes = 2
  MaxStates = 3
  MaxDetections = 1
  Faults = {"subscribe", "stream", "ack", "malformed"}
  Calls = {c1, c2}
  Registrations <- AllRegistrations
  BoundTarget = 1
  Replies <- AllReplies
  MaxBeats = 1
  RawTargets <- AllRawTargets
  Requests = {q1, q2}
  Snapshots <- AllSnapshots
  MaxOrder = 3
  maxObservations = 1
  IDs = {0, 1, 2}
  Ports = {0, 1, 2}
  MaxReported = 2
SYMMETRY Callees
INVARIANTS
  SnapshotIsTruth
  SessionFollowsPushes
  BehindByTheQueue
  NothingLeaks
  NoSilentOrphan
  CloseIsComplete
  DeltasRebuildSnapshot
PROPERTIES
  NoBeatAfterDelete
CHECK_DEADLOCK FALSE
