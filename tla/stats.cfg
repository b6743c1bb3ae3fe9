SPECIFICATION StatsSpec
CONSTANTS
    HISTORY_SIZE = 3
    STATUS_W = 16
    TickMod = 2000000000
    CLOCK_REF_MHZ = 2
    CLOCK_REF_KHZ = 2000
    Longest = 200003
    Samples = {1, 2009, 33333, 199998, 200003}
    MaxSamples = 5
INVARIANTS StatsExact ShownOrdered
