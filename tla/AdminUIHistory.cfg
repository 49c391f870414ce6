SPECIFICATION Spec
CONSTANTS
  Null = Null
  Undefined = Undefined
  Parts <- NameParts
  Namespaces <- OneNamespace
  Buckets <- TemplateAndOne
  Fields = {"size"}
  Values = {1}
  Searches = {}
  CapabilitiesEnabled = TRUE
  Default = 1
  SavedBefore <- FullServer
  Slots = {1}
  MaxHistory = 2
  MaxSaves = 1
INVARIANTS
  TypeOK
  HistoryExplained
  HistoryStartsAtLoaded
  ConfirmFresh
PROPERTIES
  ImplementsUndoTimeline
CHECK_DEADLOCK FALSE
