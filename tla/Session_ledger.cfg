SPECIFICATION Spec
CONSTANTS
  Tickets = {t1, t2}
  Regs = {r1, r2}
  Readers = {rd1, rd2}
  MaxId = 2
  MaxPending = 2
  Contracts = {"acceptance"}
  NoTicket = NoTicket
  NoReg = NoReg
  NoReader = NoReader
SYMMETRY Symmetry
VIEW LiveView
CHECK_DEADLOCK FALSE
PROPERTIES
  ImplementsLedger
CONSTRAINT LedgerBound
