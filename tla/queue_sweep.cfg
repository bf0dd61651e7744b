CONSTANTS
    a = a  b = b  d = d  e = e  s1 = s1  s2 = s2  r1 = r1  NoRun = NoRun
    Ids = {a, b, d, e}
    Roots = {s1, s2}
    Runs = {r1}
    Requests = {}
    MaxConcurrent = 2
    FailModes = {FALSE}
    BufferCompletions = FALSE
    MaxCompleted = 4
    Scopes = {}
    StopSessions = {}
    TeardownSessions = {}
    PromptCancels = {}
    BackgroundIds = {}
    QueryIds = {}
    FickleIds = {}
SYMMETRY IdSymmetry
SPECIFICATION SweepSpec
INVARIANTS SweepMatchesClosedForm SweepKeepsOrder
CHECK_DEADLOCK FALSE
