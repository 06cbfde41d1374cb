SPECIFICATION FairSpec
CONSTANTS
    MaxInvocations = 2
    Sizes = {1, 3}
    Limits = {1, 2}
    Quiet = FALSE
INVARIANTS
    ProcessesAreStopped
    AnswerMatchesJournal
    PassIsEarned
    OutputIsBounded
PROPERTIES
    GateRunSpec
    AdapterReturns
CHECK_DEADLOCK FALSE
