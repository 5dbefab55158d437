SPECIFICATION Spec
CONSTANTS
  Tickets = {t1, t2}
  Regs = {r1, r2}
  Readers = {rd1}
  MaxId = 2
  MaxPending = 2
  Contracts = {"plain"}
  NoTicket = NoTicket
  NoReg = NoReg
  NoReader = NoReader
SYMMETRY Symmetry
VIEW LiveView
CHECK_DEADLOCK FALSE
INVARIANTS
  TypeOK
  TimersOwned
  CleanupKeepsIdentifier
  CallbackNotStranded
PROPERTIES
  StoppedIsFinal
