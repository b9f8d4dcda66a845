SPECIFICATION LoopFairSpec
CONSTANTS
    alice = alice
    solver = solver
    w1 = w1
    w2 = w2
    Addr = {alice, solver}
    MaxLocks = 1
    MaxTime = 5
    MaxWrap = 0
    CantonUnlock = 1
    Workers = {w1, w2}
    User = alice
    Solver = solver
    WbtcAmount = 1
    UserTimelock = 5
    SolverTimelock = 2
    UnlockLead = 1
    AllocLead = 1
    Margin = 2
    BindTol = 1
    DraftTTL = 1
    Skew = 1
    LockTimes = {5}
    LockAmounts = {1}
    LockReceivers = {solver}
    MaxFails = 1
    Cleanup = FALSE
    Reorgs = FALSE
    SlowHandlers = TRUE
CHECK_DEADLOCK FALSE
INVARIANT WbtcAfterDelivery
INVARIANT DeliveryEvidenceTrue
PROPERTY DeliveryRecorded
PROPERTY LoopSettlementRecorded
