CONSTANTS
  phone = phone
  tablet = tablet
  admin = admin
  regular = regular
  Device <- Controllers
  Perm <- Permissions
  Admin = admin
  MaxPairing = 2
  MaxIdentity = 2
  Blank = Blank
  Erased = Erased
  Regenerates = TRUE
  BlankKeyImports = TRUE
  TornWrites = FALSE
SPECIFICATION Spec
PROPERTY CompactionKeepsOthers
