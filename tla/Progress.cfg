SPECIFICATION Spec
CONSTANTS
  t1 = t1
  t2 = t2
  NoThread = NoThread
  Timer = Timer
  k1 = k1
  MaxReads = 2
  MaxPrograms = 2
  MaxRuns = 2
  MaxStages = 2
  JogDirections = {"left"}
  MaxJogEvents = 2
CHECK_DEADLOCK FALSE
INVARIANTS
  ReadOwned
  CalibrationKept
  JogBounded
PROPERTIES
  CancelledByOwner
  ShutdownPasses
  HeldIsAdmitted
  CoordinatorSettles
