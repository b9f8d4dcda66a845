SPECIFICATION Spec
CONSTANTS
    alice = alice
    solver = solver
    w1 = w1
    w2 = w2
    Addr = {alice, solver}
    MaxLocks = 1
    MaxTime = 6
    MaxWrap = 1
    CantonUnlock = 4
    Workers = {w1, w2}
    User = alice
    Solver = solver
    WbtcAmount = 1
    UserTimelock = 5
    SolverTimelock = 3
    UnlockLead = 1
    AllocLead = 1
    Skew = 1
    MaxFails = 2
    Loop = FALSE
    ClaimMargin = 1
    PrelockTTL = 1
    Grace = 1
    ReleasePrelock = FALSE
SYMMETRY WorkerSymmetry
CHECK_DEADLOCK FALSE
INVARIANT TypeOK
INVARIANT RowEvidenceTrue
INVARIANT CbtcAfterWbtc
INVARIANT NoRefundAfterClaim
PROPERTY CounterCovered
PROPERTY ImplementsSwap
