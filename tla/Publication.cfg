SPECIFICATION FairSpec
CONSTANTS
    MaxBase = 1
    MaxForeign = 2
    MaxSessions = 3
    MaxCycles = 1
    MaxResumes = 1
INVARIANTS
    UninterruptedPushIsValidated
    ForeignWorkSurvives
    PushedIsJournaled
    OnePullRequest
PROPERTIES PublicationEnds
