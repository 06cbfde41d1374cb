SPECIFICATION FairSpec
CONSTANTS
    Targets = {t1, t2}
    CheckNodes = {n1}
    Repairs = {r1}
    Criteria = {c1, c2}
    Terms = {w1}
    Paths = {p1, p2}
    ReadLimit = 1
    CallCosts = {0, 1, 2}
    NewPaths = {new}
    Proposals <- MCProposals
    TargetsBefore <- MCTargetsBefore
    CallLimit <- MCCallLimit
    CostLimit <- MCCostLimit
    t1 = t1
    t2 = t2
    p1 = p1
    p2 = p2
    new = new
    c1 = c1
    c2 = c2
INVARIANTS PlanRestsOnEvidence BudgetIsKept
PROPERTY GroundingEnds
