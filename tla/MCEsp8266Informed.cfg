CONSTANTS
  r1 = r1
  r2 = r2
  r3 = r3
  NoRecord = NoRecord
  Record <- MCRecord
  Size = 3
  phone = phone
  tablet = tablet
  lamp = lamp
  fan = fan
  on = on
  off = off
  dim = dim
  Client <- Clients
  Characteristic <- Characteristics
  Value <- Values
  QueueSize = 3
  Unknown = Unknown
SPECIFICATION MCSpec
SYMMETRY Symmetry
INVARIANT InformedOfChanges
