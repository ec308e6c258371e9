SPECIFICATION Spec
CONSTANTS
    Runs = {r1}
    Stops = {s1}
    Connections = {c1, c2}
    NoRun = NoRun
    NoConnection = NoConnection
INVARIANT SnapshotInBackupMode
