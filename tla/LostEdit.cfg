SPECIFICATION Spec
CONSTANTS
  s1 = s1
  s2 = s2
  e1 = e1
  e2 = e2
  None = None
  Servers = {s1, s2}
  Edits = {e1, e2}
  MaxFailures = 0
  MaxRestarts = 0
INVARIANTS
  NoEditLost
CHECK_DEADLOCK FALSE
