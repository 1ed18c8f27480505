SPECIFICATION FairSpec
CONSTANTS
  MaxNum = 3
  MaxFileSize = 4
  Freqs <- MCFreqs
  BufferTypes <- MCBufferTypes
  Rates <- MCRates
  Frame = 2
  Value = {0, 1}
  ClientToggles = FALSE
  Overtakes = FALSE
  MaxTime = 3
  MaxReloads = 1
INVARIANTS
  RowsInOrder
  AllWritten
  ChangesKept
  RatesHonoured
PROPERTIES
  Ends
CHECK_DEADLOCK FALSE
