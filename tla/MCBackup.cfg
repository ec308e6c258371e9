SPECIFICATION FairSpec
CONSTANTS
    Runs = {r1, r2}
    Stops = {s1, s2}
    Connections = {c1, c2}
    NoRun = NoRun
    NoConnection = NoConnection
INVARIANTS
    NeverLeftPaused
    MaintenanceMatchesPhase
    BackupModeReleased
PROPERTY MaintenanceEnds
