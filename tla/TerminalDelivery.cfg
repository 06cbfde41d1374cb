SPECIFICATION FairSpec
CONSTANTS
    Couriers = {c1, c2}
    MaxAttempts = 3
    MaxReconciliations = 2
PROPERTY CallbackSpec
CHECK_DEADLOCK FALSE
