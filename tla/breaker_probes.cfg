CONSTANTS
    t1 = t1  t2 = t2
    Threads = {t1, t2}
    Enabled = TRUE
    MaxProbes = 1
    OpenDuration = 1
    WindowDuration = 1
    MinSamples = 1
    RateNum = 1  RateDen = 2
    MaxEntries = 1
    CounterMod = 8
    MaxClock = 2
SYMMETRY CallerSymmetry
SPECIFICATION Spec
INVARIANTS ProbeBudget
