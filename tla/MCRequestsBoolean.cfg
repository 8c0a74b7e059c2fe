CONSTANTS
  MaxServices = 4
  MaxAccessories = 4
  MaxDeclared = 7
  Room = 24
  Word = 2
  Needs = {1, 3, 4, 6}
  Size = 4
  MaxDepth = 2
  IntegerBuffer = 3
  Digits = {1, 3}
  IntegerDigits = {1, 2}
  StringLengths = {0, 1}
  MaxText = 9
  Chunk = 2
  Type = {1, 2}
  Value <- ShortValues
  MaxValues = 2
  Memory = 4
  Char = {"a", "b"}
  MaxLength = 5
  Shapes <- Declared
  MaxId = 3
  switch = switch
  level = level
  Client = {"a", "b"}
  Characteristic = {switch, level}
  IntFormat = {level}
  Writable = {switch, level}
  Notifying = {switch}
  Setter <- Setters
  MaxValue = 1
  Asked <- SomeItems
  MaxItems = 2
SPECIFICATION Spec
PROPERTY TrueIsOne
CHECK_DEADLOCK FALSE
