CONSTANTS
  phone = phone
  tablet = tablet
  admin = admin
  Device <- Controllers
  Perm <- OnlyAdmins
  Admin = admin
  MaxPairing = 1
  MaxIdentity = 2
  Blank = Blank
  Erased = Erased
  Cached = 1
  MaxClients = 2
  None = None
  Client = {c1, c2}
  Nil = Nil
  QueueSize = 2
  MaxChanges = 5
SPECIFICATION FairSpec
INVARIANTS Esp32ListOK SetupOwned ClosedIsQuiet 
PROPERTIES SetupFreed
CHECK_DEADLOCK FALSE
