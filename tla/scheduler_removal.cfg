CONSTANTS
    a = a  b = b  c = c  p = p  q = q  None = None
    Ids = {a, b, c}
    Prompts = {p}
    Recurring = {a, b}
    Durable = {a}
    Expiring = {a, b}
    Consumers = {TRUE}
    Loops = {}
    Restored = {a}
    Subs = {}
    FreshEvery = 2
    MaxTasks = 1
    MaxRev = 2
    Gens = {0, 1}
    MaxQueued = 2
SPECIFICATION FairSpec
INVARIANTS TypeOK RemovedForGood ReservationsFresh
PROPERTIES HandlerReturns
