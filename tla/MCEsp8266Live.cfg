CONSTANTS
  phone = phone
  tablet = tablet
  admin = admin
  regular = regular
  Device <- OnePhone
  Perm <- OnlyAdmins
  Admin = admin
  MaxPairing = 1
  MaxIdentity = 2
  Blank = Blank
  Erased = Erased
  Context <- Contexts
  MaxClients = 2
  None = None
SPECIFICATION FairSpec
PROPERTIES MarkedIsClosed SetupReleased
