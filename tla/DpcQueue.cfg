CONSTANTS
  CPUs = {0, 1, 2, 3}
  Targets <- MCTargets
SPECIFICATION FairSpec
INVARIANTS
  TypeOK
  LinkedOnce
PROPERTY
  EverythingStops
CHECK_DEADLOCK FALSE
