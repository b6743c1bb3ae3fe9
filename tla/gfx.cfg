SPECIFICATION GfxSpec
CONSTANTS
    NUM_CTX = 8
    STATUS_H = 4
    BAR_W = 11
    BAR_H = 4
INVARIANTS StackInBounds StartsFresh OnScreen NoOverlap NothingStale
