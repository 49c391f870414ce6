SPECIFICATION Spec
CONSTANTS
  c1 = c1
  c2 = c2
  Callers = {c1, c2}
  Requests = {1, 3}
  MaxWaits = {0, 4}
  Size = 2
  Interval = 2
  MaxDebt = 6
  StartTime = 3
  MaxTime = 6
  WordMax = 1000
INVARIANTS
  TypeOK
  UsableRateBound
  GrantedRateBound
PROPERTIES
  FirstComeFirstUsable
  ImplementsRateLimiter
  ServedUnlessDestroyed
  DestroyEndsLoop
CHECK_DEADLOCK FALSE
