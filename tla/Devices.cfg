SPECIFICATION Spec
CONSTANTS
  Threads = {t1, t2}
  Others = {w1}
  NoReader = NoReader
  Token = Token
  NoThread = NoThread
  Timer = Timer
  VisionOps = {o1, o2}
  PreviewUsers = {{"row"}, {"shot"}}
  MaxSubmissions = 3
  MaxTransactions = 3
  MaxPair = 2
  MaxVisions = 4
  MaxPreviews = 2
  Tickets = {k1}
  Capacity = 1
  MaxFrames = 2
  FrameTimeout = 2
  WriteTimeout = 1
  PollInterval = 1
  MaxClock = 2
  MaxFrame = 3
  MaxChunk = 2
  MaxBytes = 4
  MaxWrites = 2
  OtherBytes = 1
  OtherWrites = 1
SYMMETRY Symmetry
CHECK_DEADLOCK FALSE
INVARIANTS
  PreviewEnds
  VisionAnswers
  RequestsOrdered
  AuxiliaryConsistent
  ConfigurationShared
  DeliveriesKept
  FramesWhole
  WiresWhole
PROPERTIES
  StepsAllowed
