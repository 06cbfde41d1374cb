SPECIFICATION Spec
CONSTANTS
    Heartbeat = 3
    Lease = 12
    Lag = 2
    StartLag = 2
INVARIANTS
    UncertaintyBounded
    WithinLeaseIfShort
