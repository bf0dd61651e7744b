CONSTANTS
    a = a  b = b  d = d  s1 = s1  s2 = s2  NoRun = NoRun
    Ids = {a, b, d}
    Roots = {s1, s2}
    Runs = {}
    Requests <- TwoSessions
    MaxConcurrent = 1
    FailModes = {TRUE, FALSE}
    BufferCompletions = FALSE
    MaxCompleted = 1
    Scopes = {}
    StopSessions = {s1}
    TeardownSessions = {}
    PromptCancels <- ScopeP
    BackgroundIds = {}
    QueryIds = {}
    FickleIds = {a, b, d}
SYMMETRY IdSymmetry
SPECIFICATION Spec
INVARIANTS TypeOK SlotBound NoIdleSlot CallerNotStranded RunsMatchChildren
PROPERTIES StopBarrier QueueIsFifo
