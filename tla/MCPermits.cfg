SPECIFICATION FairSpec
CONSTANTS
    Handlers = {h1, h2, h3}
    NoHandler = NoHandler
    Permits = 1
    MaxFanOut = 2
    MayRaise = TRUE
    MaxDrains = 1
INVARIANTS
    TypeOK
    ChainsWithinLimit
    PermitsComeBack
PROPERTIES
    ChainsEnd
CHECK_DEADLOCK FALSE
