CONSTANTS
    f1 = f1  f2 = f2  p = p  None = None
    Files = {f1, f2}
    Dest <- SamePlace
    Hashed = {p}
    Plain = {f2}
    Ageing <- Aged
    ChannelCap = 1
    MaxConcurrent = 1
    MaxBytes = 1
    MaxAttempts = 2
    Threshold = 1
    Lives = 2
SPECIFICATION FairSpec
INVARIANTS TypeOK DurableSurvives NothingTornStored CountersSound MarksHeld
PROPERTIES DrainEnds
CHECK_DEADLOCK FALSE
