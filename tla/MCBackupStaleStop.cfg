SPECIFICATION Spec
CONSTANTS
    Runs = {r1, r2}
    Stops = {s1}
    Connections = {c1, c2}
    NoRun = NoRun
    NoConnection = NoConnection
PROPERTY NoStaleForceStop
