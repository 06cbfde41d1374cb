SPECIFICATION FairSpec
CONSTANTS
    UncertaintyRounds = 1
    MaxCycles = 1
    MaxRestarts = 0
    Kinds = {"delegated", "direct"}
PROPERTIES
    InterruptedWorkStops
    FinishedWorkEnds
