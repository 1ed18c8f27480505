SPECIFICATION Spec
CONSTANTS
  NumJobs = 4
  List0 <- MCList0
  SystemJobs = {4}
  Kinds <- MCKinds
  Never = 1000000
  Word = 1048576
  Cycle <- MCCycle
  Start <- MCStart
  Stop <- MCStop
  AddsBehind = FALSE
  RemovesNext = FALSE
  DisablesSystem = FALSE
  MaxTime = 5
  MaxChanges = 4
INVARIANTS
  SweepCorrect
  NoneLeftBehind
CHECK_DEADLOCK FALSE
