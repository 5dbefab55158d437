SPECIFICATION Spec
CONSTANTS
  Cards = {m1, m2}
  MaxBegun = 2
  MaxStop = 1
  MaxEvents = 1
  MaxPos = 1
  JointSetups <- TwoSetups
SYMMETRY Symmetry
CHECK_DEADLOCK FALSE
INVARIANTS
  StopIsStop
  JobsAccounted
  ConnectionGuarded
  MotionConfirmed
PROPERTIES
  StepsAllowed
