SPECIFICATION FairSpec
CONSTANTS
  listen = listen  s1 = s1  s2 = s2
  SysThreads <- MCThreads
  Listener = listen
  Session <- MCSession
  Commands <- MCCommands
  MaxReloads = 1
INVARIANTS
  NoStaleReference
  ReloadHarmless
  SessionsAccountedFor
PROPERTIES
  MainGoesOn
CHECK_DEADLOCK FALSE
