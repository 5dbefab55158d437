SPECIFICATION FairSpec
CONSTANTS
  Tickets = {t1}
  Regs = {r1, r2}
  Readers = {rd1}
  MaxId = 2
  MaxPending = 1
  Contracts = {"acceptance", "suspending"}
  NoTicket = NoTicket
  NoReg = NoReg
  NoReader = NoReader
CHECK_DEADLOCK FALSE
PROPERTIES
  DeadlineEnforced
  TerminalReleasable
