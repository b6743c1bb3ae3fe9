SPECIFICATION FairSpec
CONSTANTS
    TickMod = 3
    SeqMod = 2
    WAIT_CLEAR_TICKS = 1
    MIN_SAMPLE_TICKS = 1
    MAX_SAMPLE_TICKS = 1
    MaxEpoch = 1
    MaxNest = 2
INVARIANT IInv
PROPERTIES UnlockedReadsAgree GenuineSample MissingUnseen DarkBeforeFlash VerdictReached LoopTurns
