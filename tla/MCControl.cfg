SPECIFICATION Spec
CONSTANTS
  m1 = m1  integ = integ  s1 = s1  adv = adv  frz = frz  inp = inp
  NumChild = 1
  ProcessType <- MCType
  AmfCycle <- MCAmfCycle
  TriggerType <- MCTrigger
  AsyncWait <- MCAsyncWait
  SpuriousWakeups = FALSE
  Job <- MCJob
  JobQueue <- MCQueue
  AdvanceJob = adv
  FreezeJob = frz
  InputJob = inp
  EventJob = {}
  IntegLoopJob = {integ}
  Cycle <- MCCycle
  Start <- MCStart
  Stop <- MCStop
  Depends <- MCDepends
  SoftwareFrame = 4
  TerminateTime = 6
  MaxTics = 100
  FreezeCommand = TRUE
  FreezeOnFrameBoundary = FALSE
  EventTimes = {}
  Commands = {"freeze", "freeze_at", "run", "stop", "onoff"}
  MaxCommands = 4
  FreezeArgs = {1, 4}
  CycleArgs = {}
INVARIANTS
  NoJobLeftBehind
  FrameInStep
PROPERTIES
  ClockBehaves
