CONSTANTS
  p1 = p1
  p2 = p2
  p3 = p3
  Processes = {p1, p2, p3}
SPECIFICATION Spec
SYMMETRY Interchangeable
INVARIANT
  PrintedNameIsThere
CHECK_DEADLOCK FALSE
