SPECIFICATION Spec
CONSTANTS
    UncertaintyRounds = 1
    MaxCycles = 1
    MaxRestarts = 1
    Kinds = {"delegated", "direct"}
INVARIANTS
    LossDuringWorkSilencesRun
    SandboxKeptUntilSuccess
    SuccessHandsOver
    CancelledRunFreesTicket
    SupervisionEndsFirst
    UninterruptedPhases
