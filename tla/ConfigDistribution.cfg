SPECIFICATION Spec
CONSTANTS
  s1 = s1
  s2 = s2
  e1 = e1
  e2 = e2
  None = None
  Servers = {s1, s2}
  Edits = {e1, e2}
  MaxFailures = 1
  MaxRestarts = 1
INVARIANTS
  TypeOK
  NeverRegresses
  HistoryUnbroken
PROPERTIES
  AcceptedReachesAll
CHECK_DEADLOCK FALSE
