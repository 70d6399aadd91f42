SPECIFICATION Spec
CONSTANTS
    Requests = {s1, s2}
    Streams = {s1, s2}
    Readers = {x1}
    Waiters = {w1}
    Limits = {1}
    Interval = 0
    PerRequest = TRUE
    MaxConfigures = 0
    MaxTime = 0
    MaxMessages = 2
    Nothing = Nothing
    NoStream = NoStream
INVARIANTS
    LimitKept
CHECK_DEADLOCK FALSE
