SPECIFICATION Spec
CONSTANTS
    Events = {e1, e2, e3}
    Restricted = {}
    Connections = {c1, c2}
    ReplayLimit = 3
    Truncated = Truncated
INVARIANT ResumeMissesNothing
