CONSTANTS
  d1 = d1
  d2 = d2
  r1 = r1
  r2 = r2
  Devices = {d1, d2}
  Requests = {r1, r2}
  Drivers = {"WdfReadRegistryTest"}
SPECIFICATION Spec
SYMMETRY Interchangeable
INVARIANT
  EntryReportsOutcome
CHECK_DEADLOCK FALSE
