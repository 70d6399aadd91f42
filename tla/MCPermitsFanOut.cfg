SPECIFICATION Spec
CONSTANTS
    Handlers = {h1, h2, h3, h4}
    NoHandler = NoHandler
    Permits = 1
    MaxFanOut = 3
    MayRaise = FALSE
    MaxDrains = 0
SYMMETRY HandlerSymmetry
INVARIANTS
    LimitKept
CHECK_DEADLOCK FALSE
