SPECIFICATION Spec
CONSTANTS
  m1 = m1  m2 = m2  integ = integ  ev = ev  adv = adv  frz = frz  inp = inp
  NumChild = 0
  ProcessType <- MCNoChild
  AmfCycle <- MCNoChild
  TriggerType <- MCNoChild
  AsyncWait <- MCNoChild
  SpuriousWakeups = FALSE
  Job <- MCJob
  JobQueue <- MCQueue
  AdvanceJob = adv
  FreezeJob = frz
  InputJob = inp
  EventJob = {ev}
  IntegLoopJob = {integ}
  Cycle <- MCCycle
  Start <- MCStart
  Stop <- MCStop
  Depends <- MCDepends
  SoftwareFrame = 3
  TerminateTime = 7
  MaxTics = 100
  FreezeCommand = TRUE
  FreezeOnFrameBoundary = FALSE
  EventTimes = {2, 5}
  Commands = {"freeze", "freeze_at", "run"}
  MaxCommands = 5
  FreezeArgs = {2, 5}
  CycleArgs = {}
PROPERTIES
  ImplementsSchedule
  FreezeOnTime
