CONSTANTS
  TIMER_COUNT = 3
  LOG_SIZE = 6
  LineSizes = {2, 3}
  DelayCoversRegistration = FALSE
SPECIFICATION FairSpec
INVARIANTS
  TypeOK
  Accounting
PROPERTY
  DriverEntryReturns
CHECK_DEADLOCK FALSE
