SPECIFICATION Spec
CONSTANTS
  Threads = {a, b}
  NoThread = NoThread
  Timer = Timer
  Tickets = {k1}
  Capacity = 1
  Calls = {"poll", "submit", "admitted submit", "acknowledge", "read", "cleanup", "release"}
  Faults = {}
  MaxFrames = 1
PROPERTIES
  FullDuplex
