SPECIFICATION Spec
CONSTANTS
  Null = Null
  Undefined = Undefined
  Parts <- NameParts
  Namespaces <- OneNamespace
  Buckets <- TemplateOnly
  Fields = {}
  Values = {1}
  Searches <- OneSearch
  CapabilitiesEnabled = FALSE
  Default = 1
  SavedBefore <- FullServer
  Slots = {1, 2}
  MaxHistory = 0
  MaxSaves = 2
INVARIANTS
  ListsAgree
  NoRefetchLoop
PROPERTIES
  LoadingEnds
  SearchAnswered
CHECK_DEADLOCK FALSE
