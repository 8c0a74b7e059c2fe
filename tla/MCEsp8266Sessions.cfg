CONSTANTS
  phone = phone
  tablet = tablet
  admin = admin
  regular = regular
  Device <- Controllers
  Perm <- OnlyAdmins
  Admin = admin
  MaxPairing = 2
  MaxIdentity = 2
  Blank = Blank
  Erased = Erased
  Context <- Contexts
  MaxClients = 2
  None = None
SPECIFICATION Spec
INVARIANTS TypeOK ListOK SetupExclusive
PROPERTY RemovalEndsSession
SYMMETRY Symmetry
