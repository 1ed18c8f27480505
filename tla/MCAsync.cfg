SPECIFICATION Spec
CONSTANTS
  m1 = m1  e1 = e1  f1 = f1  f2 = f2  adv = adv  frz = frz  inp = inp
  NumChild = 2
  ProcessType <- MCType
  AmfCycle <- MCAmfCycle
  TriggerType <- MCTrigger
  AsyncWait <- MCAsyncWait
  SpuriousWakeups = FALSE
  Job <- MCJob
  JobQueue <- MCQueue
  AdvanceJob = adv
  FreezeJob = frz
  InputJob = inp
  EventJob = {e1}
  IntegLoopJob = {}
  Cycle <- MCCycle
  Start <- MCStart
  Stop <- MCStop
  Depends <- MCDepends
  SoftwareFrame = 2
  TerminateTime = 4
  MaxTics = 100
  FreezeCommand = FALSE
  FreezeOnFrameBoundary = FALSE
  EventTimes = {3}
  Commands = {}
  MaxCommands = 0
  FreezeArgs = {}
  CycleArgs = {}
INVARIANTS
  FrameJobsCaughtUp
PROPERTIES
  ArmedWhenIdle
  ShutdownWaits
