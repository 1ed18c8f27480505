SPECIFICATION Spec
CONSTANTS
  j1 = j1  j2 = j2
  write_checkpoint = write_checkpoint
  safestore_checkpoint = safestore_checkpoint
  Frame = 2
  FreezeFrame = 1
  MaxOverruns = 2
  MaxLate = 1
  UserJob <- MCUserJob
  WriteJob = write_checkpoint
  SafestoreJob = safestore_checkpoint
  Cycle <- MCCycle
  SafestorePeriod = 4
  TerminateTime = 6
  MaxTics = 100
  CheckpointArgs = {1, 3}
  MaxCommands = 4
  MaxFrozen = 2
INVARIANTS
  ScheduleRestored
  CheckpointsDue
PROPERTIES
  RealTimeKept
