SPECIFICATION Spec
CONSTANTS
  Null = Null
  Undefined = Undefined
  Parts <- NameParts
  Namespaces <- OneNamespace
  Buckets = {}
  Fields = {}
  Values = {1}
  Searches = {}
  CapabilitiesEnabled = FALSE
  Default = 1
  SavedBefore <- NewServer
  Slots = {1}
  MaxHistory = 1
  MaxSaves = 0
INVARIANTS
  SelectedNamespaceExists
CHECK_DEADLOCK FALSE
