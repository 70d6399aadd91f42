SPECIFICATION FairSpec
CONSTANTS
    Requests = {s1, s2}
    Streams = {s1, s2}
    Readers = {x1}
    Waiters = {w1}
    Limits = {1, 2}
    Interval = 1
    PerRequest = FALSE
    MaxConfigures = 1
    MaxTime = 0
    MaxMessages = 2
    Nothing = Nothing
    NoStream = NoStream
CONSTRAINT OneTalks
INVARIANTS
    TypeOK
    PermitsAddUp
    TokensSpaced
    RebuiltLimit
    ReadersReplay
    EndsHonestly
PROPERTIES
    EveryoneAnswered
CHECK_DEADLOCK FALSE
