CONSTANTS
  p1 = p1
  p2 = p2
  p3 = p3
  e1 = e1
  e2 = e2
  e3 = e3
  Processes = {p1, p2, p3}
  Ports = {e1, e2, e3}
  Existing = {e1}
  CpuCount = 3
SPECIFICATION Spec
INVARIANTS
  TypeOK
  NothingLeaked
  NoCallbackOutsideImage
  ReferencesBalanced
  UnloadUndoesLoad
PROPERTIES
  UnloadReturns
  ProcessImplementsRegistration
  PnpImplementsRegistration
CHECK_DEADLOCK FALSE
