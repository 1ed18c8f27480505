SPECIFICATION FairSpec
CONSTANTS
  m1 = m1  m2 = m2  integ = integ  s1 = s1  s2 = s2  a1 = a1  adv = adv  frz = frz  inp = inp
  NumChild = 2
  ProcessType <- MCType
  AmfCycle <- MCAmfCycle
  TriggerType <- MCTrigger
  AsyncWait <- MCAsyncWait
  SpuriousWakeups = FALSE
  Job <- MCJob
  JobQueue <- MCQueue
  AdvanceJob = adv
  FreezeJob = frz
  InputJob = inp
  EventJob = {}
  IntegLoopJob = {integ}
  Cycle <- MCCycle
  Start <- MCStart
  Stop <- MCStop
  Depends <- MCDepends
  SoftwareFrame = 4
  TerminateTime = 6
  MaxTics = 100
  FreezeCommand = FALSE
  FreezeOnFrameBoundary = FALSE
  EventTimes = {3}
  Commands = {}
  MaxCommands = 0
  FreezeArgs = {}
  CycleArgs = {}
INVARIANTS
  TypeOK
  ScheduledTimeMatches
  TimesHonoured
  DependsFinished
  FrameJobsAlone
PROPERTIES
  ImplementsSchedule
  Terminates
