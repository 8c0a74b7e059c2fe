SPECIFICATION FramingSpec
CONSTANTS
    Client = {"plain", "secure"}
    Encrypted = {"secure"}
    Cut = {"plain", "secure"}
    Shapes <- OneFrame
    HeadSize = 2
    MaxPlain = 5
    Header = 1
    Tag = 1
    Margin = 1
    MaxRequests <- MCRequests
    MaxEvents = 1
    AnswerFrames = 1
INVARIANT ClosedWhenAsked
CHECK_DEADLOCK FALSE
