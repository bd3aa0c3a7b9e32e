CONSTANTS
  d1 = d1
  d2 = d2
  r1 = r1
  r2 = r2
  Devices = {d1, d2}
  Requests = {r1, r2}
  Drivers = {"WdfReadRegistryTest", "EventLogTest"}
SPECIFICATION FairSpec
INVARIANTS
  TypeOK
  TracingBalanced
  KeysClosed
  CompletedOnce
PROPERTY
  StopEnds
CHECK_DEADLOCK FALSE
