SPECIFICATION Spec
CONSTANTS
    CenWidth = 64
    Width = 8
    Modes <- MCModes
    MaxSets = 1
INVARIANT ExactFrame
PROPERTIES FramesGoOn Recovers
