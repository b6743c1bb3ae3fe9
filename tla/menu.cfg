SPECIFICATION MenuSpec
CONSTANTS
    NumModes = 2
    NumRates = 2
    Wide = {1}
    DefaultMode = 1
    DefaultRate = 1
    MaxHeld = 2
INVARIANT HighlightRecovers
PROPERTIES HighlightStays OpensOnCurrent PressActsOnce
