CONSTANTS
  CPUs = {0, 1, 2, 3}
  Targets <- MCTargets
SPECIFICATION Spec
INVARIANT
  BothRunning
CHECK_DEADLOCK FALSE
