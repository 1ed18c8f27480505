SPECIFICATION Spec
CONSTANTS
  Event <- MCEvent
  Cycle <- MCCycle
  Target <- MCTarget
  Frame = 2
  Never = 1000000
  Bold = {}
  MaxTime = 4
  MaxCalls = 4
  MaxReloads = 1
INVARIANTS
  SetInOrder
  RemovedEverywhere
  NoneLost
CHECK_DEADLOCK FALSE
