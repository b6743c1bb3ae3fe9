SPECIFICATION LatencySpec
CONSTANTS
    Bits = 1
    Half = 2
    Torn = FALSE
    MaxEpoch = 1
    MaxNest = 2
INVARIANTS ReadIsInstant WholePages
PROPERTY MeasuresPattern
