SPECIFICATION Spec
CONSTANTS
    MaxBase = 1
    MaxForeign = 1
    MaxSessions = 2
    MaxCycles = 1
    MaxResumes = 0
INVARIANTS
    NoForeignWorkLost
