SPECIFICATION Spec
CONSTANTS
    Targets = {t1, t2}
    CheckNodes = {n1, n2}
    Repairs = {r1, r2, r3, r4}
    Criteria = {c1}
    Terms = {w1}
    Paths = {p1}
    ReadLimit = 1
    CallCosts = {1}
    NewPaths = {new}
    Proposals <- MCProposals
    TargetsBefore <- MCTargetsBefore
    CallLimit <- MCCallLimit
    CostLimit <- MCCostLimit
    AttemptLimit = 2
    RebuildLimit = 1
    UncontactedLimit = 2
    MaxRuns = 3
    Gates = {fmt, lint, build}
    GateOrder <- MCGateOrder
    GateNode <- MCGateNode
    Modes = {"Normal", "NormalWithExternalReview"}
    PageLimit = 2
    ReleaseLimit = 2
    OperationLimit = 2
    n1 = n1
    n2 = n2
    fmt = fmt
    lint = lint
    build = build
    t1 = t1
    t2 = t2
    p1 = p1
    new = new
    c1 = c1
INVARIANTS AggregateIsValid ReviewCanBegin SucceededChecksAreCurrent ActiveCheckCanGoOn
PROPERTIES DeliverySpec BlockedIsFinal
