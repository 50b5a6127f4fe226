CONSTANTS
  Keys <- MC_Keys
  GroupMax = 2
  MaxXid = 3
  MaxRows = 2
  MaxSync = 3
  MaxFail = 2
  Selects <- DeltaSelects
SPECIFICATION Spec
INVARIANTS
  TypeOK
  ReplicaMatchesConfirmedSync
  AppliedExactlyOnce
PROPERTIES
  EventuallyCaughtUp
