CONSTANTS
  Admin <- MC_Admin
  ChangedTables <- MC_ChangedTables
  NodeIds <- MC_NodeIds
  Versions <- MC_Versions
  SLONY_I_VERSION_STRING = "1.1.0"
  MaxEvents = 3
SPECIFICATION Spec
CHECK_DEADLOCK FALSE
INVARIANTS
  ConfigReadOnlyFromMatchingNode
  RuntimeConfigCurrent
PROPERTIES
  EventuallyConfigCurrent
  ImplementsRuntimeConfig
