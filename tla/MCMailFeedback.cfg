SPECIFICATION Spec
CONSTANTS
  e1 = e1
  e2 = e2
  q1 = q1
  q2 = q2
  b1 = b1
  b2 = b2
  None = None
  Messages = {e1}
  Queues = {q1, q2}
  Bindings = {b1, b2}
  Validity = 1
  Visibility = 1
  QuietWindow = 1
  Retention = 3
  MaxTime = 6
  MaxEvents = 2
SYMMETRY Symmetry
INVARIANTS
  ContinuityLoads
  NeverConflicts

  
CHECK_DEADLOCK FALSE
