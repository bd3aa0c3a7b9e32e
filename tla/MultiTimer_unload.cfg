CONSTANTS
  TIMER_COUNT = 2
  LOG_SIZE = 6
  LineSizes = {2, 3}
  DelayCoversRegistration = TRUE
SPECIFICATION Spec
INVARIANT
  NoCodeAfterUnload
CHECK_DEADLOCK FALSE
