SPECIFICATION Spec
CONSTANTS
  MaxPos = 1
  Setups <- MCSetups
CHECK_DEADLOCK FALSE
INVARIANTS
  OneMotion
