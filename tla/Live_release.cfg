SPECIFICATION Spec
CONSTANTS
  Directions = {"left"}
  MaxEvents = 3
INVARIANT NoRunawayJog
CHECK_DEADLOCK FALSE
