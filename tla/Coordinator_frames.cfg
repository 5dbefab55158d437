SPECIFICATION Spec
CONSTANTS
  Threads = {a, b}
  NoThread = NoThread
  Timer = Timer
  Tickets = {k1}
  Capacity = 1
  Calls = {"poll", "submit", "admitted submit", "acknowledge", "read", "cleanup", "release"}
  Faults = {"interrupt", "session", "port", "timer"}
  MaxFrames = 1
SYMMETRY Symmetry
INVARIANTS
  FrameAttended
  NothingLostInService
  ReadersAgree
  AdmissionAlone
  ClosedUnderNobody
  TicketsAgree
