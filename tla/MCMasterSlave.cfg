SPECIFICATION Spec
CONSTANTS
  Slaves <- MCSlaves
  Limited = {"s1"}
  SyncErrorTerminate = {"s1"}
  SlaveTerminates = {"s1"}
  AutoDump = {"s1"}
  Period = 2
  AnyMoment = FALSE
  Bound <- MCBound
  MaxTroubles = 3
INVARIANTS
  SameFrameAndMode
PROPERTIES
  NobodyStuck
  FreezeSpreads
CHECK_DEADLOCK FALSE
