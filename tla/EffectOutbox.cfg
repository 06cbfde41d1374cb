SPECIFICATION FairSpec
CONSTANTS
    Workers = {w1, w2}
    MaxRevision = 4
    MaxEpoch = 2
INVARIANTS NeverCorrupt FinishedIsCommitted
PROPERTIES OnceSpec IntentsAreResolved
