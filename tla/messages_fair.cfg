CONSTANTS
    m1 = m1  m2 = m2  m3 = m3  k1 = k1  k2 = k2
    Msgs = {m1, m2, m3}
    Kids = {k1, k2}
    To <- Split
    Foreign = {m3}
    Workflow = {k2}
    Capacity = 1
    PerChild = 1
SPECIFICATION FairSpec
PROPERTIES SenderAnswered BufferedChildFinishes
CHECK_DEADLOCK FALSE
