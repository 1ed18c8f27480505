SPECIFICATION Spec
CONSTANTS
  m1 = m1  a1 = a1  adv = adv  frz = frz  inp = inp
  NumChild = 1
  ProcessType <- MCType
  AmfCycle <- MCAmfCycle
  TriggerType <- MCTrigger
  AsyncWait <- MCAsyncWait
  SpuriousWakeups = FALSE
  Job <- MCJob
  JobQueue <- MCQueue
  AdvanceJob = adv
  FreezeJob = frz
  InputJob = inp
  EventJob = {}
  IntegLoopJob = {}
  Cycle <- MCCycle
  Start <- MCStart
  Stop <- MCStop
  Depends <- MCDepends
  SoftwareFrame = 3
  TerminateTime = 6
  MaxTics = 100
  FreezeCommand = FALSE
  FreezeOnFrameBoundary = FALSE
  EventTimes = {}
  Commands = {"thread", "cycle"}
  MaxCommands = 2
  FreezeArgs = {}
  CycleArgs = {1, 3}
INVARIANTS
  FramesHonoured
