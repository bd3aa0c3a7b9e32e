CONSTANTS
  TIMER_COUNT = 3
  LOG_SIZE = 6
  LineSizes = {2, 3}
  DelayCoversRegistration = TRUE
SPECIFICATION FairSpec
INVARIANTS
  StoppedAfterWait
PROPERTIES
  LogsFrozenAfterWait
  ImplementsFleet
CHECK_DEADLOCK FALSE
