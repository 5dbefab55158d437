SPECIFICATION Spec
CONSTANTS
  Tickets = {t1, t2}
  Regs = {r1, r2, r3}
  Readers = {rd1, rd2}
  MaxId = 1
  MaxPending = 1
  Contracts = {"suspending"}
  NoTicket = NoTicket
  NoReg = NoReg
  NoReader = NoReader
SYMMETRY Symmetry
VIEW LiveView
CHECK_DEADLOCK FALSE
INVARIANTS
  DeadlineWatched
  ReleasedDeadlineIsDead
  ClosedIsQuiescent
PROPERTIES
  ReleasedByItsTicket
