SPECIFICATION Spec
CONSTANTS
  Width = 10
  Debounce = 2
  Grace = 3
  PollTime = 1
  LoopDelay = 1
  Booting = {0, 1}
  AgeMax = 7
INVARIANTS
  TypeOK
  ExposureBounded
  ReleaseBounded
  OutputsAgree
PROPERTIES
  BounceFiltered
