CONSTANTS
  TIMER_COUNT = 2
  LOG_SIZE = 6
  LineSizes = {2, 3}
  DelayCoversRegistration = FALSE
SPECIFICATION Spec
INVARIANT
  StoppedAfterWait
CHECK_DEADLOCK FALSE
