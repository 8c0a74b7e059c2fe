SPECIFICATION FramingFairSpec
CONSTANTS
    Client = {"plain", "secure"}
    Encrypted = {"secure"}
    Cut = {"plain", "secure"}
    Shapes <- MCShapes
    HeadSize = 2
    MaxPlain = 5
    Header = 1
    Tag = 1
    Margin = 1
    MaxRequests <- MCRequests
    MaxEvents = 1
    AnswerFrames = 1
INVARIANTS FramingTypeOK ServedAsAsked WireInOrder ClosedForOwnReasons
PROPERTIES ServedInTheEnd LeftIsNoticed
CHECK_DEADLOCK FALSE
