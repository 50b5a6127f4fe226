CONSTANTS
  Backend <- MC_Backend
  SuperUser <- MC_SuperUser
  EvType <- MC_EvType
  MaxXid = 3
  MaxEvents = 2
  MaxRows = 2
SPECIFICATION Spec
INVARIANT
  EveryOriginChangeLogged
