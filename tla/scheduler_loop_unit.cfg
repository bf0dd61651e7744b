CONSTANTS
    a = a  b = b  c = c  p = p  q = q  None = None
    Ids = {a}
    Prompts = {p}
    Recurring = {a}
    Durable = {}
    Expiring = {}
    Consumers = {FALSE}
    Loops = {a}
    Restored = {a}
    Subs = {1, 2}
    FreshEvery = 2
    MaxTasks = 1
    MaxRev = 2
    Gens = {0, 1}
    MaxQueued = 0
SPECIFICATION Spec
INVARIANTS OneUnit
