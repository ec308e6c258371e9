SPECIFICATION FairSpec
CONSTANTS
    Events = {e1, e2, e3}
    Restricted = {e3}
    Connections = {c1, c2}
    ReplayLimit = 1
    Truncated = Truncated
INVARIANTS
    NoGap
    AtMostOnce
PROPERTIES
    SessionsEnd
    Delivered
    ImplementsFeed
