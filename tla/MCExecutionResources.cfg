SPECIFICATION Spec
CONSTANTS
    k1 = k1
    k2 = k2
    a1 = a1
    a2 = a2
    e1 = e1
    c1 = c1
    p1 = p1
    Keys = {k1, k2}
    SessionKeys = {k2}
    Actions = {a1, a2}
    Executions = {e1}
    Closers = {c1}
    Scopes = {p1}
    Needs <- MCNeeds
    ClosedBy <- MCClosedBy
    None = None
    MaxHandles = 3
    MaxFaults = 1
    MaxCancels = 1
INVARIANTS
    TypeOK
    ReuseCurrent
    CountsHolders
    HeldIsReady
    NothingLeft
CHECK_DEADLOCK FALSE
