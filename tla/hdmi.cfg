SPECIFICATION HdmiSpec
CONSTANTS
    N = 3
    Depth = 1
    Strobe = 1
    MaxModes = 3
    Fields = 2
    Settings = 3
    MaxEvents = 1
    Modes = 2
INVARIANTS ShownHolds
PROPERTIES StartHasAll AllStarted HdmiStartHasAll HdmiStarts
