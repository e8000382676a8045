SPECIFICATION Spec
CONSTANTS
  Width = 6
  Debounce = 1
  Grace = 1
  PollTime = 1
  LoopDelay = 1
  Booting = {0}
  AgeMax = 5
PROPERTIES
  HeldButtonServed
  GateComesDown
