SPECIFICATION Spec
CONSTANTS
  c1 = c1
  c2 = c2
  ns1 = ns1
  x = x
  y = y
  z = z
  None = None
  Attached = Attached
  Default = Default
  Callers = {c1, c2}
  Namespaces = {ns1}
  Names = {x, y}
  Buckets <- MCBuckets
  ServiceConfigs <- MCServiceConfigs
  WatcherBuffer = 2
  MaxUpdates = 2
INVARIANTS
  StaticNeverReaped
CHECK_DEADLOCK FALSE
