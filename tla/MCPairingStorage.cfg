CONSTANTS
  phone = phone
  tablet = tablet
  admin = admin
  regular = regular
  Device <- Controllers
  Perm <- Permissions
  Admin = admin
  MaxPairing = 3
  MaxIdentity = 2
  Blank = Blank
  Erased = Erased
  Regenerates = TRUE
  BlankKeyImports = FALSE
  TornWrites = TRUE
SPECIFICATION Spec
INVARIANTS TypeOK AnnouncedIsStored
PROPERTIES OneDeviceChanges SuccessIsEffective LossKeepsPairings IdentityKeepsPairings
