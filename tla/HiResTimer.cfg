CONSTANTS
  RUNTIME = 40
  HIGHRES = 1
  NOWAKE = 4
  LOG_SIZE = 32
  LineSizes = {2, 3}
  MaxLine = 3
  OVERSLEEP = 2
SPECIFICATION FairSpec
INVARIANTS
  TypeOK
  LogFits
  QuietAfterTest
PROPERTIES
  PrintedLogsFinal
  DriverEntryReturns
CHECK_DEADLOCK FALSE
