\* Sign-in, ownership, the contract and reviews; output, alerts, audit, traffic, addresses.
SPECIFICATION MCSpec
CONSTANTS
  Emails = {"e1"}
  People = {"p1", "p2"}
  Requesters = {"w1", "w2"}
  MaxFailedLogins = 1
  MaxCredentials = 2
  MaxDevices = 1
  MaxSignInFaults = 1
  Users = {"a", "b", "c"}
  Registrars = {"a"}
  CoRoles = {"secondary"}
  CoOwners = {"b"}
  OwnerRequests = {"w1", "w2"}
  MaxTransfers = 2
  MaxOwnerFaults = 1
  Editors = {"w1"}
  Askers = {"a1", "a2"}
  Engines = {"mysql"}
  MaxExceptions = 3
  Owners = {"o1"}
  Approvers = {"p1"}
  Trees = {"s1", "s2"}
  Slots = 1
  MaxTests = 1
  MaxTrees = 2
  MaxReviews = 2
  MaxReviewFaults = 2
  FlushLines = 2
  BufferMax = 1
  MaxLines = 3
  MaxLogFaults = 2
  MaxAlertFaults = 2
  Writers = {"w1", "w2"}
  Minutes = {1, 2}
  MaxEntries = 2
  MaxTraffic = 2
  MaxRecordFaults = 2
  App = "leave"
  Services = {"frontend", "api", "web"}
  Pages = {"items", "api"}
  MaxSegments = 4
INVARIANTS
  HolderSignsIn
  OneKeyPerDevice
  OnePrimary
  ContractSound
  SignedForThis
  ReportIsOfABuild
  StoredOnce
  NoneLost
  LastLinesKept
  ChainIntact
  TrafficKept
  AddressesHold
PROPERTIES
  ApprovalHonoured
  HandedOver
  ExceptionHonoured
  RunsEnd
  OutputStored
  Known
  FiredAfterResolved
\* The bounds end a behaviour, and so does removing the container.
CHECK_DEADLOCK FALSE
