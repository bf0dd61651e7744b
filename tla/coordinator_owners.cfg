CONSTANTS
    a = a  b = b  d = d  s1 = s1  s2 = s2  NoRun = NoRun  r1 = r1
    Ids = {a, b, d}
    Roots = {s1}
    Runs = {r1}
    Requests <- NestedAndWorkflow
    MaxConcurrent = 1
    FailModes = {FALSE}
    BufferCompletions = TRUE
    MaxCompleted = 3
    Scopes = {}
    StopSessions = {s1}
    TeardownSessions = {s1}
    PromptCancels = {}
    BackgroundIds = {}
    QueryIds = {}
    FickleIds = {}
SPECIFICATION Spec
INVARIANTS NobodyForgotten TornDownStaysSilent
