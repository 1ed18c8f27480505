SPECIFICATION FairSpec
CONSTANTS
  NumRuns = 3
  NumSlaves = 2
  InRange = {0, 2}
  Lines = {2, 3}
  MaxTries = 2
  Outcomes <- MCOutcomes
  TornCommands = FALSE
  Faults <- MCFaults
  MaxFaults = 1
  MaxTroubles = 2
  MaxStops = 1
INVARIANTS
  ResultsCountedOnce
  RunsAccountedFor
  ResultOfItsRun
PROPERTIES
  Ends
CHECK_DEADLOCK FALSE
