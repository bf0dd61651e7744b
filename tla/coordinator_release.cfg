CONSTANTS
    a = a  b = b  d = d  s1 = s1  s2 = s2  NoRun = NoRun
    Ids = {a, b, d}
    Roots = {s1}
    Runs = {}
    Requests <- OneTurn
    MaxConcurrent = 1
    FailModes = {FALSE}
    BufferCompletions = FALSE
    MaxCompleted = 3
    Scopes <- ScopeP
    StopSessions = {}
    TeardownSessions = {}
    PromptCancels = {}
    BackgroundIds = {b}
    QueryIds = {b}
    FickleIds = {a}
SPECIFICATION TimerSpec
INVARIANTS DeliveredOnce
PROPERTIES TurnReleased QueueDrains
