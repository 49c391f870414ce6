SPECIFICATION Spec
CONSTANTS
  c1 = c1
  c2 = c2
  ns1 = ns1
  x = x
  y = y
  z = z
  None = None
  Attached = Attached
  Default = Default
  Callers = {c1}
  Namespaces = {ns1}
  Names = {x, y, z}
  Buckets <- MCBuckets
  ServiceConfigs <- MCUnlimited
  WatcherBuffer = 1
  MaxUpdates = 1
PROPERTIES
  IdleReaped
CHECK_DEADLOCK FALSE
