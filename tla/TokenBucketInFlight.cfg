SPECIFICATION Spec
CONSTANTS
  c1 = c1
  c2 = c2
  Callers = {c1, c2}
  Requests = {2}
  MaxWaits = {0, 4}
  Size = 2
  Interval = 2
  MaxDebt = 4
  StartTime = 1
  MaxTime = 4
  WordMax = 1000
PROPERTIES
  InFlightServed
CHECK_DEADLOCK FALSE
