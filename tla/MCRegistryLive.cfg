SPECIFICATION FairSpec
CONSTANTS
  Parts = {"queue", "kubernetes", "nacos", "registrar", "selector"}
  Callers = {c1, c2}
  Capacity = 2
  MaxChanges = 4
  MaxCancels = 1
  WireSlices <- OneSlice
  EndpointSliceCount = 2
  EndpointCount = 2
  PortName = 1
  Protocol = 1
  AddressType = 1
  MaxServiceEvents = 2
  MaxSliceEvents = 1
  ReadErrors = {}
  StatusCodes = {}
  HostLists <- GoodHostLists
  ClusterName = 1
  TCP = 1
  IPv4 = 1
  IPv6 = 2
  MaxHosts = 3
  MaxBytes = 2
  MaxStates = 2
  MaxDetections = 0
  Faults = {"stream"}
  Calls = {c1, c2}
  Registrations <- AllRegistrations
  BoundTarget = 1
  Replies = {"accepted"}
  MaxBeats = 1
  RawTargets <- PlainRawTargets
  Requests = {q1}
  Snapshots <- OneSnapshot
  MaxOrder = 1
  maxObservations = 2
  IDs = {0, 1, 2}
  Ports = {0, 1, 2}
  MaxReported = 2
INVARIANTS
  DeliveryIsGapless
PROPERTIES
  ImplementsFeed
  ChangesArrive
  ViewsConverge
  ClosesEnd
  EverySelectReturns
CHECK_DEADLOCK FALSE
