CONSTANTS
    m1 = m1  m2 = m2  m3 = m3  k1 = k1  k2 = k2
    Msgs = {m1, m2, m3}
    Kids = {k1}
    To <- AllToOne
    Foreign = {}
    Workflow = {}
    Capacity = 3
    PerChild = 2
SYMMETRY MsgSymmetry
SPECIFICATION Spec
INVARIANTS TypeOK CleanIsQuiet UncertainNotHidden BudgetsExact NoneLeftBehind
PROPERTIES KeepsPromise
CHECK_DEADLOCK FALSE
