SPECIFICATION Spec
CONSTANTS
  p1 = p1
  p2 = p2
  None = None
  Posts = {p1, p2}
  MaxAttempts = 2
  MaxOrders = 3
  MaxEvents = 3
INVARIANTS
  NeverTwiceOnItsOwn
PROPERTIES
  DeliveriesEnd
CHECK_DEADLOCK FALSE
