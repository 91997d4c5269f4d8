SPECIFICATION Spec
CONSTANTS
  None = None
  Nil = Nil
  Unknown = Unknown
  SessionsMax = 2
  IdleTimeout = 1
  AbsoluteTimeout = 2
  Window = 1
  PairMax = 2
  IpMax = 2
  GlobalMax = 3
  KeysMax = 2
  Handler = {h1, h2, h3}
  PasswordSlots = 2
  Stream = {s1, s2}
  SseSlots = 2
  DownloadSlots = 1
  LeaseSeconds = 5
  RenewSeconds = 2
  Chunks = 2
  Peer = {p1, p2, p3}
  Clients = 2
  Place <- MCPlace
  Device <- MCDevice
  CountMax = 2
  ScanSeconds = 3
  Scenarios <- MCScenarios
CHECK_DEADLOCK FALSE
INVARIANTS AccountSound SpectrumWhileWatched RevokedStops ChannelSound ReportsAreOfNow
PROPERTIES
  SetupKeepsAccount
